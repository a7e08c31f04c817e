----------------------------- MODULE MCAttachApn -----------------------------
(* Model-checking instances of AttachApn; the .cfg files give the bounds.   *)
EXTENDS AttachApn
=============================================================================
