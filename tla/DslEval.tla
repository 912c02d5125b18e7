------------------------------- MODULE DslEval -------------------------------
(***************************************************************************)
(* Evaluation of a rule's expression against one anonymized profile        *)
(* (dsl/eval.py), and of a rule set for one candidate (rules/engine.py).   *)
(*                                                                         *)
(* An expression is a record with its "op"; a connective's args and the    *)
(* values of a test are sequences, a missing WHERE is {} and one that is   *)
(* there {expression}.  A verdict is true, false or unknown, with the      *)
(* questions that were put to the judge to reach it.                       *)
(***************************************************************************)
EXTENDS DslFields

\* The judge is a function from questions to values; NoJudge answers none.
NoJudge == <<>>

Verdict(value) == [value |-> value, asked |-> {}]
Decide(P)      == Verdict(IF P THEN "true" ELSE "false")
Undecided      == Verdict("unknown")
\* What a fact decides: nothing when it is not stated.
DecideFact(fact, P(_)) == IF fact = {} THEN Undecided ELSE Decide(\A v \in fact : P(v))

CompareNumbers(observed, cmp, target) ==
    CASE cmp = ">=" -> observed >= target [] cmp = ">" -> observed > target
      [] cmp = "<=" -> observed <= target [] cmp = "<" -> observed < target
      [] cmp = "="  -> observed = target  [] cmp = "!=" -> observed # target

\* _matches: loose containment, either way.
Matches(required, held) ==
    required # {} /\ \E item \in held : required \subseteq item \/ item \subseteq required

IsPseudo(node, value) == node.field = "work_rights" /\ value = "unrestricted"
Unrestricted(profile, expected) ==
    DecideFact(profile.stated["unrestricted"], LAMBDA u : u = expected)

LeafCompare(node, kind, observed, subject) ==
    IF observed = {} THEN Undecided
    ELSE CASE kind = "number" -> DecideFact(observed, LAMBDA n : CompareNumbers(n, node.cmp, node.value))
           [] kind = "text" -> Decide(Matches(node.value, observed) <=> node.cmp = "=")
           [] kind = "enum" ->
                IF IsPseudo(node, node.value) THEN Unrestricted(subject, node.cmp = "=")
                ELSE DecideFact(observed, LAMBDA v : (v = node.value) <=> node.cmp = "=")

LeafHas(node, kind, observed) ==
    LET Held(v) == \E seen \in observed :
                       IF kind = "text" THEN v \subseteq seen ELSE Matches(v, seen)
    IN IF observed = {} THEN Undecided
       ELSE Decide(IF node.mode = "ALL" THEN \A v \in Range(node.values) : Held(v)
                                        ELSE \E v \in Range(node.values) : Held(v))

\* unrestricted counts only when it is stated to be so.
LeafIn(node, observed, subject) ==
    IF observed = {} THEN Undecided
    ELSE IF /\ \E v \in Range(node.values) : IsPseudo(node, v)
            /\ Unrestricted(subject, TRUE).value = "true"
         THEN Decide(TRUE)
         ELSE DecideFact(observed, LAMBDA v : v \in Range(node.values))

LeafIs(node, kind, observed, subject) ==
    IF observed = {} THEN Undecided
    ELSE IF kind = "enum" /\ IsPseudo(node, node.value) THEN Unrestricted(subject, TRUE)
    ELSE DecideFact(observed, LAMBDA v : v = node.value)

\* A mistaken leaf: a fact that is not stated is read as false.
SilenceDecides(node, subject, record) ==
    LET kind     == KindOf(record, node.field)
        observed == ReadField(record, node.field, subject)
    IN IF observed = {} THEN Decide(FALSE)
       ELSE CASE node.op = "compare" -> LeafCompare(node, kind, observed, subject)
              [] node.op = "has" -> LeafHas(node, kind, observed)
              [] node.op = "in" -> LeafIn(node, observed, subject)
              [] node.op = "is" -> LeafIs(node, kind, observed, subject)

Leaf(node, subject, record) ==
    LET kind     == KindOf(record, node.field)
        observed == ReadField(record, node.field, subject)
    IN CASE node.op = "compare" -> LeafCompare(node, kind, observed, subject)
         [] node.op = "has" -> LeafHas(node, kind, observed)
         [] node.op = "in" -> LeafIn(node, observed, subject)
         [] node.op = "is" -> LeafIs(node, kind, observed, subject)

RECURSIVE HasAsk(_)
HasAsk(node) ==
    CASE node.op = "ask" -> TRUE
      [] node.op = "not" -> HasAsk(node.arg)
      [] node.op \in {"and", "or"} -> \E arg \in Range(node.args) : HasAsk(arg)
      [] OTHER -> FALSE

RECURSIVE Evaluate(_, _, _, _)

RecordVerdicts(record, where, profile) ==
    LET items == ItemsOf(profile, record)
    IN [i \in DOMAIN items |->
           IF where = {} THEN "true"
           ELSE (CHOOSE v \in {Evaluate(w, items[i], record, NoJudge) : w \in where} : TRUE).value]

AnyRecord(node, profile) ==
    LET verdicts == Range(RecordVerdicts(node.record, {node.where}, profile))
    IN CASE verdicts = {} -> Undecided
         [] "true" \in verdicts -> Decide(TRUE)
         [] "true" \notin verdicts /\ "unknown" \in verdicts -> Undecided
         [] verdicts = {"false"} -> Decide(FALSE)

\* COUNT lies between the records that match and those that may.
CountRecords(node, low, high) ==
    LET passed == {CompareNumbers(Number(n), node.cmp, node.value) : n \in {low, high}}
    IN IF passed = {TRUE, FALSE} THEN Undecided ELSE Decide(passed = {TRUE})

\* SUM, MAX, MIN and AVG of the known values; more data can only raise a sum or a
\* maximum, so that a pass of >= or > stands.
Summarise(node, known, uncertain) ==
    LET result ==
            CASE node.func = "sum" -> TotalOf(known)
              [] node.func = "max" -> Max(Range(known))
              [] node.func = "min" -> Min(Range(known))
              [] node.func = "avg" -> Rounded(TotalOf(known), Len(known), 1)
        passed == CompareNumbers(result, node.cmp, node.value)
        stands == passed /\ node.func \in {"sum", "max"} /\ node.cmp \in {">=", ">"}
    IN IF \/ known = <<>> /\ ~(node.func = "sum" /\ uncertain = 0)
          \/ known # <<>> /\ uncertain > 0 /\ ~stands
       THEN Undecided ELSE Decide(passed)

Aggregate(node, profile) ==
    LET items    == ItemsOf(profile, node.record)
        verdicts == RecordVerdicts(node.record, node.where, profile)
        Number_(value) == Cardinality({i \in DOMAIN verdicts : verdicts[i] = value})
        passed   == SelectSeq([i \in DOMAIN items |-> [item |-> items[i], value |-> verdicts[i]]],
                              LAMBDA x : x.value = "true")
        matched  == [i \in DOMAIN passed |-> passed[i].item]
    IN IF items = <<>> THEN Undecided
       ELSE IF node.func = "count"
       THEN CountRecords(node, Number_("true"), Number_("true") + Number_("unknown"))
       ELSE LET known == StatedSeq(matched, node.field)
            IN Summarise(node, known, Number_("unknown") + Len(matched) - Len(known))

\* _and stops at a false argument, _or at a true one; arguments without a
\* question come first, otherwise in the order written.
\* A mistaken connective: arguments are evaluated as written.
InOrderWritten(node, subject, record, judge) ==
    LET stop     == IF node.op = "and" THEN "false" ELSE "true"
        verdicts == [i \in DOMAIN node.args |-> Evaluate(node.args[i], subject, record, judge)]
        stops    == {i \in DOMAIN node.args : verdicts[i].value = stop}
        used     == IF stops = {} THEN DOMAIN node.args ELSE 1..Min(stops)
    IN [value |-> IF stops # {} THEN stop
                  ELSE IF \E i \in used : verdicts[i].value = "unknown" THEN "unknown"
                  ELSE IF stop = "false" THEN "true" ELSE "false",
        asked |-> UNION {verdicts[i].asked : i \in used}]

Connective(node, subject, record, judge) ==
    LET args     == SelectSeq(node.args, LAMBDA a : ~HasAsk(a)) \o SelectSeq(node.args, HasAsk)
        stop     == IF node.op = "and" THEN "false" ELSE "true"
        verdicts == [i \in DOMAIN args |-> Evaluate(args[i], subject, record, judge)]
        stops    == {i \in DOMAIN args : verdicts[i].value = stop}
        used     == IF stops = {} THEN DOMAIN args ELSE 1..Min(stops)
    IN [value |-> IF stops # {} THEN stop
                  ELSE IF \E i \in used : verdicts[i].value = "unknown" THEN "unknown"
                  ELSE IF stop = "false" THEN "true" ELSE "false",
        asked |-> UNION {verdicts[i].asked : i \in used}]

Negation(verdict) ==
    [verdict EXCEPT !.value = CASE @ = "true" -> "false" [] @ = "false" -> "true" [] OTHER -> @]

AskJudge(question, judge) ==
    IF judge = NoJudge THEN Undecided ELSE [value |-> judge[question], asked |-> {question}]

Evaluate(node, subject, record, judge) ==
    CASE node.op \in {"and", "or"} -> Connective(node, subject, record, judge)
      [] node.op = "not" -> Negation(Evaluate(node.arg, subject, record, judge))
      [] node.op = "any" -> AnyRecord(node, subject)
      [] node.op = "aggregate" -> Aggregate(node, subject)
      [] node.op = "ask" -> AskJudge(node.question, judge)
      [] OTHER -> Leaf(node, subject, record)

-----------------------------------------------------------------------------
(* The rule engine.                                                        *)

\* evaluate_rule: only applied requirements screen anyone.
Screens(rule) == rule.applied /\ rule.kind = "require"
EvaluateRule(rule, profile, judge) == Evaluate(rule.expr, profile, "none", judge)

\* screen and, in the runner, _screen_candidate: what a run concludes.
Outcome(rules, profile, judge) ==
    LET values == {EvaluateRule(r, profile, judge).value : r \in {x \in Range(rules) : Screens(x)}}
    IN IF "false" \in values THEN "excluded"
       ELSE IF "unknown" \in values THEN "needs_manual_review" ELSE "eligible"
=============================================================================
