---------------------------- MODULE MCWmtLauncher ----------------------------
(* Model-checking instances of WmtLauncher; the .cfg files give the bounds.  *)
EXTENDS WmtLauncher
=============================================================================
