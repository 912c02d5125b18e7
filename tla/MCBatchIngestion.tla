------------------------- MODULE MCBatchIngestion -------------------------
(* Instances of BatchIngestion for TLC.                                    *)
EXTENDS BatchIngestion, TLC

CONSTANTS j1, d1, d2, w1, w2

OneJob   == [d \in Docs |-> j1]
SymWorkers == Permutations(Workers)
SymDocs    == Permutations(Docs)
=============================================================================
