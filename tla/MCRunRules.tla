----------------------------- MODULE MCRunRules -----------------------------
(* Instances of RunRules for TLC. *)
EXTENDS RunRules, TLC

CONSTANTS r1, r2, t1, t2, c1

TwoEdits      == {r1, r2}
Pool          == {t1, t2}
OneCandidate  == {c1}

\* Requests, threads and candidates are interchangeable.
Interchange ==
    Permutations(Requests) \cup Permutations(Threads) \cup Permutations(Candidates)
=============================================================================
