---------------------------- MODULE RuleScreening ----------------------------
(***************************************************************************)
(* One candidate screened against one rule set: what the run concludes     *)
(* about what the resume states, against what it would conclude if the     *)
(* resume stated everything.                                               *)
(***************************************************************************)
EXTENDS DslEval

CONSTANTS
    Profiles,         \* anonymized profiles
    RuleSets,         \* sequences of rules
    Judges,           \* functions from questions to values, or NoJudge
    Complete(_)       \* the profiles that state all that a profile leaves open

VARIABLES
    profile, rules, judge,
    outcome           \* of the screening, "none" before it

vars == <<profile, rules, judge, outcome>>

Init ==
    /\ profile \in Profiles /\ rules \in RuleSets /\ judge \in Judges
    /\ outcome = "none"

\* _screen_one of the runner.
Screen ==
    /\ outcome = "none"
    /\ outcome' = Outcome(rules, profile, judge)
    /\ UNCHANGED <<profile, rules, judge>>

Next == Screen
Spec == Init /\ [][Next]_vars

-----------------------------------------------------------------------------
(* Properties.                                                             *)

\* Fields that are read from those facts only that the resume states.  What it leaves
\* out could only raise the reading (sums, maxima, and what counts or lists the items
\* known to be so), only lower it, or change it in any way.
Rising == {
    "total_role_months", "longest_role_months", "max_skill_years", "leadership_role_count",
    "contract_role_count", "permanent_role_count", "seniority_level", "industry_count", "aqf",
    "degree_count", "technology_count",
    "role_titles", "current_role_titles", "employers", "industries", "employment_types",
    "seniorities", "fields_of_study", "aqf_labels", "technologies", "project_technologies",
    "expert_skills", "skills_with_years",
    "has_degree", "has_postgraduate", "has_masters", "has_doctorate", "has_management_experience"}
Falling == {"shortest_role_months"}
Shifting == {"average_role_months", "current_role_months", "current_role_title",
             "highest_qualification", "highest_seniority"}

Opposite(answers) == {Negation(Verdict(v)).value : v \in answers}

\* The answers that stand when the reading can only rise.
Bound(node) ==
    CASE node.op = "compare" -> CASE node.cmp \in {">=", ">"} -> {"true"}
                                  [] node.cmp \in {"<=", "<"} -> {"false"}
                                  [] OTHER -> {}
      [] node.op = "is" -> {IF node.value THEN "true" ELSE "false"}
      [] OTHER -> {"true"}

\* The answers to an expression that rest on stated evidence alone.  The others may
\* be reached although a fact that would change them is missing.
RECURSIVE Backed(_)
Backed(node) ==
    CASE node.op \in {"and", "or"} ->
           {v \in {"true", "false"} : \A arg \in Range(node.args) : v \in Backed(arg)}
      [] node.op = "not" -> Opposite(Backed(node.arg))
      [] node.op \in {"ask", "any"} -> {"true", "false"}
      [] node.op = "aggregate" ->
           CASE node.func = "count" /\ node.cmp = "=" -> {"true"}
             [] node.func = "count" /\ node.cmp = "!=" -> {"false"}
             [] OTHER -> {"true", "false"}
      [] node.field \in Rising -> Bound(node)
      [] node.field \in Falling -> Opposite(Bound(node))
      [] node.field \in Shifting -> {}
      [] node.op = "in" /\ (\E v \in Range(node.values) : IsPseudo(node, v)) -> {"true"}
      [] OTHER -> {"true", "false"}

\* eval.py: "a candidate fails a rule only when the stated evidence definitely
\* fails it".  This is so of the answers in Backed, and of no others (README, section
\* 6): an exclusion or an approval that rests on them is the one that every
\* completion of the resume leads to.
DecisionsStand ==
    LET screening == {r \in Range(rules) : Screens(r)}
        Stands(r, value) ==
            value \in Backed(r.expr) /\ EvaluateRule(r, profile, judge).value = value
        Excluded == outcome = "excluded" /\ \E r \in screening : Stands(r, "false")
        Approved == outcome = "eligible" /\ \A r \in screening : Stands(r, "true")
    IN Excluded \/ Approved =>
           \A whole \in Complete(profile) : Outcome(rules, whole, judge) = outcome

\* Kleene's tables on the numbers 0, 1, 2, without an order or a short cut.
Rank(value) == CASE value = "false" -> 0 [] value = "unknown" -> 1 [] value = "true" -> 2
RECURSIVE Kleene(_, _)
Kleene(node, whom) ==
    CASE node.op = "not" -> 2 - Kleene(node.arg, whom)
      [] node.op = "and" -> Min({Kleene(arg, whom) : arg \in Range(node.args)})
      [] node.op = "or" -> Max({Kleene(arg, whom) : arg \in Range(node.args)})
      [] OTHER -> Rank(Evaluate(node, whom, "none", judge).value)

\* Whatever is evaluated first and wherever evaluation stops, the verdict on a
\* rule is the one of Kleene's tables.
VerdictsAreKleene ==
    \A rule \in Range(rules) :
        Rank(EvaluateRule(rule, profile, judge).value) = Kleene(rule.expr, profile)

\* A question inside another connective: NestedAsk(node) when an ASK is an
\* argument of a connective that is itself an argument.
Connectives == {"and", "or", "not"}
FlatAsk(node) ==
    node.op \in {"and", "or"} =>
        \A arg \in Range(node.args) : arg.op \in Connectives => ~HasAsk(arg)

\* eval.py: ASK leaves are evaluated "only when the structured part of the
\* expression has not already decided it".
QuestionsAreNeeded ==
    outcome # "none" =>
        \A rule \in {r \in Range(rules) : Screens(r) /\ FlatAsk(r.expr)} :
            EvaluateRule(rule, profile, judge).asked # {} =>
                EvaluateRule(rule, profile, NoJudge).value = "unknown"

\* The arguments of a connective are sorted by cost: the order changes no verdict and
\* puts no question that the others have made needless.
OrderIsHarmless == VerdictsAreKleene /\ QuestionsAreNeeded
=============================================================================
