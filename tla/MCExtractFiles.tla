---------------------------- MODULE MCExtractFiles ----------------------------
(* Model-checking instance of ExtractFiles; the .cfg file gives the bounds.   *)
EXTENDS ExtractFiles

TwoMakefiles == <<"Android.bp", "Android.mk">>
=============================================================================
