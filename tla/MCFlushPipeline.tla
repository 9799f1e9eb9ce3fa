--------------------------- MODULE MCFlushPipeline ---------------------------
(* Three parts against a budget of four units: the first is estimated far   *)
(* below its size, the second alone fills more than the budget, the third   *)
(* fits beside others.                                                      *)
EXTENDS FlushPipeline

MCSize == <<3, 5, 2>>
MCEstimate == <<1, 2, 1>>
=============================================================================
