-------------------------------- MODULE Judge --------------------------------
(***************************************************************************)
(* The judge behind ASK (dsl/judge.py): a question is put to the model, an *)
(* answer counts only with evidence that is in the profile, and among      *)
(* several answers the majority decides.                                   *)
(***************************************************************************)
EXTENDS FiniteSetsExt

\* What a call returns: an answer, and whether the evidence quoted with it is in
\* the profile; or nothing, when the call fails (LLMError).
Replies  == [answer : {"yes", "no"}, quoted : BOOLEAN] \cup {[answer |-> "unknown", quoted |-> FALSE]}
NoReply  == [answer |-> "error", quoted |-> FALSE]

\* A mistaken vote: the answer counts whether or not the profile backs it.
VoteUnbacked(reply) == reply.answer
\* _vote: an answer the profile does not back is not an answer.
Vote(reply) ==
    IF reply.answer \in {"yes", "no"} /\ ~reply.quoted THEN "unknown" ELSE reply.answer

Votes(votes, answer) == Cardinality({m \in DOMAIN votes : votes[m] = answer})

\* _combine: more than half of the votes that arrived.
Combine(votes) ==
    LET total == Cardinality(DOMAIN votes) - Votes(votes, "error")
    IN IF Votes(votes, "yes") * 2 > total THEN "true"
       ELSE IF Votes(votes, "no") * 2 > total THEN "false" ELSE "unknown"

\* judge, when the memo does not know the question.
Judgement(replies) == Combine([m \in DOMAIN replies |-> Vote(replies[m])])
=============================================================================
