------------------------------ MODULE MCRanking ------------------------------
(* Instances of Ranking for TLC. *)
EXTENDS Ranking, TLC

TextsOfThree == <<"p", "p", "q">>
All(verdict) == [c \in 1..Number |-> verdict]
\* A preference that asks, and one that the rules leave open for the first
\* candidate only.
SomeCriteria ==
    <<[weight |-> 2, verdict |-> All("ask")],
      [weight |-> 3, verdict |-> [All("unknown") EXCEPT ![2] = "true", ![3] = "false"]]>>
=============================================================================
