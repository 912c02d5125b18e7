---------------------------- MODULE MCSubmission ----------------------------
(* Instances of Submission for TLC.                                        *)
EXTENDS Submission, TLC

CONSTANTS j1, d1, d2, v1, v2

OneJob       == [d \in Docs |-> j1]
SymVerifiers == Permutations(Verifiers)
SymDocs      == Permutations(Docs)
Symmetric    == SymVerifiers \cup SymDocs
=============================================================================
