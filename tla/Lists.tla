-------------------------------- MODULE Lists --------------------------------
(* Lists of whatever they hold, and the order in which positions are put. *)
EXTENDS Naturals, Sequences

IsSequence(s) == s \in Seq({s[i] : i \in DOMAIN s})

\* The positions 1..n, each before the next by a set of pairs.
Ordering(n, before) ==
    CHOOSE order \in [1..n -> 1..n] : \A i, j \in 1..n : i < j => <<order[i], order[j]>> \in before
=============================================================================
