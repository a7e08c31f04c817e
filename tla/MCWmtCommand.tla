----------------------------- MODULE MCWmtCommand -----------------------------
(* Model-checking instance of WmtCommand; the .cfg file gives the bounds.      *)
EXTENDS WmtCommand
=============================================================================
