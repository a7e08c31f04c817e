--------------------------- MODULE MCWlanAssistant ---------------------------
(* Model-checking instance of WlanAssistant; the .cfg gives the bounds.     *)
EXTENDS WlanAssistant
=============================================================================
