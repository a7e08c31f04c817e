--------------------------- MODULE MCRadioCapability ---------------------------
(* Model-checking instances of RadioCapability; the .cfg files give the       *)
(* bounds.                                                                    *)
EXTENDS RadioCapability
=============================================================================
