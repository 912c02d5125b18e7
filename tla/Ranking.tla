------------------------------- MODULE Ranking -------------------------------
(***************************************************************************)
(* One run over a batch's ready candidates: screening by a requirement     *)
(* that may ask the model, triage, the ensemble's second opinion, and the  *)
(* shortlist (_screen_run, _rank and _ensemble of pipeline/runner.py,      *)
(* pipeline/rank.py, pipeline/ensemble.py).                                *)
(*                                                                         *)
(* A candidate is its number.  Scores are in ten-thousandths.  A verdict   *)
(* is the rule engine's, or "ask" for what only the judge can decide.      *)
(***************************************************************************)
EXTENDS Judge, Lists, Integers, SequencesExt

CONSTANTS
    Number,           \* how many candidates are ready
    TextOf,           \* their profiles as the judge sees them
    Requirements,     \* what the requirement may say of a candidate
    Criteria,         \* what candidates are ranked on: [weight, verdict]
    Marks,            \* the scores a model may give
    Members,          \* how many models or seeds the ensemble has
    UseEnsemble,
    Size, Margin      \* shortlist_size, borderline_margin

ASSUME RankingAssumption ==
    /\ Number \in Nat /\ Members \in Nat \ {0} /\ Size \in Nat \ {0} /\ Margin \in Nat /\ UseEnsemble \in BOOLEAN
    /\ IsSequence(Criteria) /\ Criteria # <<>> /\ \A k \in DOMAIN Criteria : Criteria[k].weight \in Nat \ {0}
    /\ Marks \subseteq Int

VARIABLES
    outcome,     \* of the screening, by candidate
    check,       \* the last question put to the ensemble: [replies, value], if any
    memo,        \* the ranking judge's answers, by profile text
    triage,      \* scores: [ref, score, answer], best first once all are there
    opinion,     \* the ensemble's results, by candidate
    shortlist,   \* [entries, below, excluded, manual_review]
    pc

vars == <<outcome, check, memo, triage, opinion, shortlist, pc>>

Candidates == 1..Number
Texts      == {TextOf[c] : c \in Candidates}
NoCheck    == [replies |-> <<>>, value |-> "none"]
NoOpinion  == [score |-> -1, answer |-> "none", include |-> 0, counted |-> 0]
Nobody     == [entries |-> <<>>, below |-> <<>>, excluded |-> {}, manual_review |-> {}]

Init ==
    /\ outcome = [c \in Candidates |-> "none"]
    /\ check = NoCheck
    /\ memo = [t \in Texts |-> "none"]
    /\ triage = <<>>
    /\ opinion = [c \in {} |-> NoOpinion]
    /\ shortlist = Nobody
    /\ pc = "screening"

-----------------------------------------------------------------------------
(* Screening.                                                              *)

OutcomeOf(value) ==
    CASE value = "false" -> "excluded" [] value = "true" -> "eligible" [] OTHER -> "needs_manual_review"

\* _screen_profile, in the pool: each candidate has a judge of its own, which
\* asks every member.
Screen(c) ==
    /\ pc = "screening" /\ outcome[c] = "none"
    /\ \E value \in Requirements, replies \in [1..Members -> Replies \cup {NoReply}] :
        LET decided == IF value = "ask" THEN Judgement(replies) ELSE value
        IN /\ value # "ask" => replies = [m \in 1..Members |-> NoReply]
           /\ outcome' = [outcome EXCEPT ![c] = OutcomeOf(decided)]
           /\ check' = IF value = "ask" THEN [replies |-> replies, value |-> decided] ELSE NoCheck
    /\ UNCHANGED <<memo, triage, opinion, shortlist, pc>>

Eligible == {c \in Candidates : outcome[c] \in {"eligible", "needs_manual_review"}}

-----------------------------------------------------------------------------
(* Scores.                                                                 *)

Rounded(a, b) == (2 * a + b) \div (2 * b)
\* A criterion that the model skips scores nothing; a score is kept between 0 and 1.
Points(value, mark) ==
    CASE value = "true" -> 10000 [] value = "false" -> 0 [] OTHER -> Min({10000, Max({0, mark})})
VerdictOn(k, c, answer) == IF Criteria[k].verdict[c] = "ask" THEN answer ELSE Criteria[k].verdict[c]
Undecided(c, answer) == {k \in DOMAIN Criteria : VerdictOn(k, c, answer) = "unknown"}
TotalWeight == SumFunction([k \in DOMAIN Criteria |-> Criteria[k].weight])

\* score_candidate, when the model gives these marks: a weighted mean.
Score(c, answer, marks) ==
    Rounded(SumFunction([k \in DOMAIN Criteria |->
                Criteria[k].weight * Points(VerdictOn(k, c, answer), marks[k])]),
            TotalWeight)

\* The scores that a call may lead to: one for each way of marking what is undecided.
Scores(c, answer) ==
    {Score(c, answer, [k \in DOMAIN Criteria |-> IF k \in DOMAIN marks THEN marks[k] ELSE 0]) :
        marks \in [Undecided(c, answer) -> Marks]}
\* A call that is made may fail.
MayFail(c, answer) == Undecided(c, answer) # {}

Asks(c) == \E k \in DOMAIN Criteria : Criteria[k].verdict[c] = "ask"
Answers == {Judgement([m \in {1} |-> reply]) : reply \in Replies \cup {NoReply}}

\* A mistaken judge: it does not look into its memo.
AskAfresh(c) == IF Asks(c) THEN Answers ELSE {"none"}
\* What the ranking's judge, which asks once, may answer: what it remembers.
Ask(c) ==
    IF ~Asks(c) THEN {"none"}
    ELSE IF memo[TextOf[c]] # "none" THEN {memo[TextOf[c]]} ELSE Answers
Remember(c, answer) == memo' = IF Asks(c) THEN [memo EXCEPT ![TextOf[c]] = answer] ELSE memo

\* sorted(..., reverse=True) keeps the order of equals.
Better(list) ==
    {p \in (DOMAIN list) \X (DOMAIN list) :
        \/ list[p[1]].score > list[p[2]].score
        \/ (list[p[1]].score = list[p[2]].score /\ p[1] < p[2])}
BestFirst(list) ==
    LET order == Ordering(Len(list), Better(list)) IN [i \in DOMAIN list |-> list[order[i]]]
Refs(list) == {list[i].ref : i \in DOMAIN list}

-----------------------------------------------------------------------------
(* Triage and ensemble.                                                    *)

\* score_candidate for the next eligible candidate; _rank sorts the scores at the end.
Triage ==
    /\ pc = "screening" /\ \A c \in Candidates : outcome[c] # "none"
    /\ Refs(triage) # Eligible
    /\ LET c == Min(Eligible \ Refs(triage))
       IN \E answer \in Ask(c) : \E score \in Scores(c, answer) :
            /\ triage' = Append(triage, [ref |-> c, score |-> score, answer |-> answer])
            /\ Remember(c, answer)
    /\ check' = NoCheck
    /\ UNCHANGED <<outcome, opinion, shortlist, pc>>

\* RankingError: the run fails.
TriageFails ==
    /\ pc = "screening" /\ \A c \in Candidates : outcome[c] # "none"
    /\ Refs(triage) # Eligible
    /\ LET c == Min(Eligible \ Refs(triage)) IN \E answer \in Ask(c) : MayFail(c, answer)
    /\ pc' = "failed"
    /\ UNCHANGED <<outcome, check, memo, triage, opinion, shortlist>>

Cutoff(list) == list[Min({Size, Len(list)})].score
Distance(a, b) == IF a > b THEN a - b ELSE b - a
\* borderline_refs of a sorted list.
Borderline(list) ==
    IF Size >= Len(list) THEN {}
    ELSE {list[i].ref : i \in {j \in DOMAIN list : Distance(list[j].score, Cutoff(list)) <= Margin}}

\* _ensemble: those near the cutoff and those whose rules are undecided.
InDoubt(list) ==
    Borderline(list) \cup {c \in Refs(list) : outcome[c] = "needs_manual_review"}

SortTriage ==
    /\ pc = "screening" /\ \A c \in Candidates : outcome[c] # "none"
    /\ Refs(triage) = Eligible
    /\ triage' = BestFirst(triage)
    /\ check' = NoCheck
    /\ pc' = "ensemble"
    /\ UNCHANGED <<outcome, memo, opinion, shortlist>>

\* A mistaken mean, which one member can move at will.
MeanOf(list) == Rounded(FoldSeq(+, 0, list), Len(list))
\* statistics.median.
Less(list) ==
    {p \in (DOMAIN list) \X (DOMAIN list) :
        list[p[1]] < list[p[2]] \/ (list[p[1]] = list[p[2]] /\ p[1] < p[2])}
MedianOf(list) ==
    LET order  == Ordering(Len(list), Less(list))
        sorted == [i \in DOMAIN list |-> list[order[i]]]
        half   == Len(list) \div 2
    IN IF Len(list) % 2 = 1 THEN sorted[half + 1] ELSE Rounded(sorted[half] + sorted[half + 1], 2)

\* ensemble_score in a thread of the pool: a member that fails has no vote, and
\* when all fail the triage score stays.
Rescore(c) ==
    /\ pc = "ensemble" /\ UseEnsemble
    /\ c \in InDoubt(triage) \ DOMAIN opinion
    /\ \E answer \in Ask(c) : \E counted \in 0..Members :
        /\ MayFail(c, answer) \/ counted = Members
        /\ \E votes \in [1..counted -> Scores(c, answer)] :
            LET included == {m \in 1..counted : votes[m] >= Cutoff(triage)}
            IN opinion' = [x \in DOMAIN opinion \cup {c} |->
                   IF x # c THEN opinion[x]
                   ELSE IF counted = 0 THEN NoOpinion
                   ELSE [score |-> MedianOf(votes), answer |-> answer,
                         include |-> Cardinality(included), counted |-> counted]]
        /\ Remember(c, answer)
    /\ UNCHANGED <<outcome, check, triage, shortlist, pc>>

\* A mistaken merge: who got no second opinion is left out.
MergeAnswered(list) ==
    LET kept == SelectSeq(list, LAMBDA s : s.ref \notin DOMAIN opinion \/ opinion[s.ref] # NoOpinion)
    IN [i \in DOMAIN kept |->
           IF kept[i].ref \in DOMAIN opinion
           THEN [kept[i] EXCEPT !.score = opinion[kept[i].ref].score] ELSE kept[i]]

\* ensemble_pass: the new scores in the places of the old.
Merge(list) ==
    [i \in DOMAIN list |->
        IF list[i].ref \in DOMAIN opinion /\ opinion[list[i].ref] # NoOpinion
        THEN [list[i] EXCEPT !.score = opinion[list[i].ref].score] ELSE list[i]]

\* The end of _rank: ensemble_pass sorts what it has merged, and build_shortlist cuts it.
CutShortlist ==
    /\ pc = "ensemble"
    /\ UseEnsemble => InDoubt(triage) \subseteq DOMAIN opinion
    /\ LET scores == BestFirst(Merge(triage))
       IN shortlist' = [entries |-> SubSeq(scores, 1, Min({Size, Len(scores)})),
                        below   |-> SubSeq(scores, Size + 1, Len(scores)),
                        excluded |-> {c \in Candidates : outcome[c] = "excluded"},
                        manual_review |-> {c \in Candidates : outcome[c] = "needs_manual_review"}]
    /\ pc' = "complete"
    /\ UNCHANGED <<outcome, check, memo, triage, opinion>>

Next ==
    \/ \E c \in Candidates : Screen(c) \/ Rescore(c)
    \/ Triage \/ TriageFails \/ SortTriage \/ CutShortlist
Spec == Init /\ [][Next]_vars
-----------------------------------------------------------------------------
(* Properties.                                                             *)

\* judge.py: "nobody is excluded on an assertion".  When the ensemble excludes a
\* candidate, more than half of the replies that arrived said no and quoted
\* what the profile says.
ExclusionsHaveEvidence ==
    check.value = "false" =>
        LET arrived == {m \in 1..Members : check.replies[m] # NoReply}
            backed  == {m \in arrived : check.replies[m] = [answer |-> "no", quoted |-> TRUE]}
        IN 2 * Cardinality(backed) > Cardinality(arrived)

\* Two people whose profiles read the same get the same answer to a preference,
\* at triage and from the ensemble: neither order nor a member's mood counts.
EqualProfilesAreJudgedAlike ==
    \A c, d \in Eligible : TextOf[c] = TextOf[d] /\ Asks(c) /\ Asks(d) =>
        LET of(x) == {triage[i].answer : i \in {j \in DOMAIN triage : triage[j].ref = x}}
                     \cup {opinion[y].answer : y \in {z \in DOMAIN opinion : z = x /\ opinion[z] # NoOpinion}}
        IN Cardinality(of(c) \cup of(d)) <= 1

\* ensemble.py: "one outlier cannot move a candidate across the cutoff on its own".
\* With an odd number of votes the combined score falls on the side of the cutoff
\* that the majority of the members voted for.
MajorityPlaces ==
    \A c \in DOMAIN opinion :
        opinion[c].counted % 2 = 1 =>
            (opinion[c].score >= Cutoff(triage) <=> 2 * opinion[c].include > opinion[c].counted)

\* Everyone who passed the requirement is on the shortlist or below the cut, once
\* and in the order of the scores, whatever members failed; the others are listed
\* as excluded; and whoever was not in doubt, or got no answer from any member, has
\* the score of the triage.
EveryoneIsPlaced ==
    pc = "complete" =>
        LET placed == shortlist.entries \o shortlist.below
        IN /\ Refs(placed) = Eligible /\ Len(placed) = Cardinality(Eligible)
           /\ shortlist.excluded = Candidates \ Eligible
           /\ Len(shortlist.entries) = Min({Size, Len(placed)})
           /\ \A i \in 1..(Len(placed) - 1) : placed[i].score >= placed[i + 1].score
           /\ \A i \in DOMAIN placed : \A j \in DOMAIN triage :
                placed[i].ref = triage[j].ref /\ placed[i].score # triage[j].score =>
                    /\ \/ outcome[placed[i].ref] = "needs_manual_review"
                       \/ Distance(triage[j].score, triage[Size].score) <= Margin
                    /\ opinion[placed[i].ref] # NoOpinion

-----------------------------------------------------------------------------
(* The inductive invariant behind these properties: candidates are triaged *)
(* after all are screened, each once; the memo holds the answers that were *)
(* given; and only those in doubt have a second opinion.                   *)

Entry == [ref : Candidates, score : Int, answer : Answers \cup {"none"}]
Shape ==
    /\ outcome \in [Candidates -> {"none", "excluded", "eligible", "needs_manual_review"}]
    /\ memo \in [Texts -> Answers \cup {"none"}]
    /\ triage \in Seq(Entry)
    /\ pc \in {"screening", "ensemble", "complete", "failed"}
    /\ DOMAIN opinion \subseteq Candidates

TriagedOnce ==
    /\ pc # "screening" \/ triage # <<>> => \A c \in Candidates : outcome[c] # "none"
    /\ Refs(triage) \subseteq Eligible
    /\ pc \in {"ensemble", "complete"} => Refs(triage) = Eligible
    /\ \A i, j \in DOMAIN triage : triage[i].ref = triage[j].ref => i = j

AnswersAreRemembered ==
    /\ \A i \in DOMAIN triage : Asks(triage[i].ref) => triage[i].answer = memo[TextOf[triage[i].ref]]
    /\ \A c \in DOMAIN opinion :
          Asks(c) /\ opinion[c] # NoOpinion => opinion[c].answer = memo[TextOf[c]]
    /\ \A c \in Refs(triage) : Asks(c) => memo[TextOf[c]] # "none"

OpinionsAreOnDoubts ==
    /\ pc \in {"screening", "failed"} => DOMAIN opinion = {}
    /\ DOMAIN opinion \subseteq InDoubt(triage)
    /\ \A c \in DOMAIN opinion : opinion[c].score \in Int

RankingInv ==
    /\ Shape /\ TriagedOnce /\ AnswersAreRemembered /\ OpinionsAreOnDoubts
    /\ ExclusionsHaveEvidence /\ MajorityPlaces /\ EveryoneIsPlaced
=============================================================================
