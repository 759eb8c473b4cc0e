--------------------------- MODULE MCStreamPipeline ---------------------------
(***************************************************************************)
(* Instances of StreamPipeline for TLC: documents given by the sizes of    *)
(* their records.                                                          *)
(***************************************************************************)
EXTENDS StreamPipeline

SmallSizes == [i \in 0 .. MaxRecords |-> i]
===============================================================================
