------------------------------ MODULE MCHalProxy ------------------------------
(* Model-checking instance of HalProxy: a single wake-up event, a batch that   *)
(* fills the FMQ and the pending queue, and one that overflows both.           *)
EXTENDS HalProxy

SplitBatches == {<<TRUE>>, <<TRUE, FALSE, TRUE>>, <<TRUE, FALSE, TRUE, TRUE>>}
=============================================================================
