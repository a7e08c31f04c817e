SPECIFICATION FairSpec
CONSTANTS
  MAX_ATTEMPTS = 2
  MAX_TX = 2
INVARIANTS
  LogIsKnown
  ExitedIsQuiet
  PublishedIsAccepted
  ReadyIsDriven
PROPERTIES
  PowerServed
  ShutdownCompletes
  ShutdownSurvivesUnbind
CHECK_DEADLOCK FALSE
