----------------------------- MODULE RuleReview -----------------------------
(***************************************************************************)
(* A recruiter's rules or plan, compiled by the model into the rule        *)
(* language under legal review (rules/classifier.py, rules/statutes.py,    *)
(* rules/models.py), and the gate that an ad-hoc query passes              *)
(* (check_query of pipeline/query.py).                                     *)
(*                                                                         *)
(* A text stands for itself and for the risky phrases that it holds.  The  *)
(* language is whatever reads and writes its texts: ReviewedTexts joins    *)
(* this module with DslParser.                                             *)
(***************************************************************************)
EXTENDS Lists, Integers, SequencesExt

CONSTANTS
    Requests,       \* what recruiters send: [plan, texts], a plan is its sentences
    Queries,        \* the texts of ad-hoc queries
    Answers(_),     \* the lists of items that the model may answer a request with
    Repairs,        \* the texts it may repair a clause to; <<>> is none, or a failed call
    Matches(_, _),  \* whether a pattern of the table is found in a text
    ReadClause(_),  \* parse_clause: the clause of a text, {} if there is none
    ReadExpr(_),    \* parse_expr: the expression of a text, {} if there is none
    WriteClause(_), \* Clause.to_dsl
    LiteralsOf(_)   \* string_literals: what an expression quotes or asks

ASSUME RequestsAreLists ==
    \A r \in Requests :
        /\ IsSequence(r.texts) /\ IsSequence(r.plan)
        /\ \A answer \in Answers(r) : IsSequence(answer)

VARIABLES
    request,      \* the request
    work,         \* what is left to build: the source texts with their items
    rules,        \* the rule set, so far
    admitted,     \* the expression of the query that passed, if any
    pc

vars == <<request, work, rules, admitted, pc>>

-----------------------------------------------------------------------------
(* Findings.                                                               *)

Race   == "race"
Origin == "national or ethnic origin"
Sex    == "sex"
Age    == "age"
Carer  == "family or carer's responsibilities"
Social == "social origin"
RiskPatterns == [
    native_speaker      |-> [risk |-> "high", attributes |-> {Race, Origin}],
    unaccented          |-> [risk |-> "high", attributes |-> {Race, Origin}],
    cultural_fit        |-> [risk |-> "high", attributes |-> {Race, Origin, "religion", Age, Sex}],
    recent_graduate     |-> [risk |-> "high", attributes |-> {Age}],
    australian_educated |-> [risk |-> "high", attributes |-> {Origin, Race}],
    local_experience    |-> [risk |-> "review", attributes |-> {Origin, Race}],
    age_coded           |-> [risk |-> "high", attributes |-> {Age}],
    career_gap          |-> [risk |-> "high", attributes |-> {Sex, Carer, "disability"}],
    availability_always |-> [risk |-> "high", attributes |-> {Sex, Carer}],
    gendered_language   |-> [risk |-> "review", attributes |-> {Sex, "gender identity"}],
    physical_ability    |-> [risk |-> "review", attributes |-> {"disability"}],
    religion_appearance |-> [risk |-> "high", attributes |-> {"religion", Race}],
    citizenship_only    |-> [risk |-> "review", attributes |-> {Origin}],
    birthplace          |-> [risk |-> "high", attributes |-> {Origin, Race}],
    name_or_photo       |-> [risk |-> "high", attributes |-> {Race, Origin, Age, "marital status"}],
    employer_prestige   |-> [risk |-> "review", attributes |-> {Social, Origin}],
    postcode_or_suburb  |-> [risk |-> "review", attributes |-> {Race, Origin, Social}]]

Severity == [none |-> 0, review |-> 1, high |-> 2]
scan_patterns(text) == {[id |-> p, risk |-> RiskPatterns[p].risk,
                         attributes |-> RiskPatterns[p].attributes] :
                            p \in {q \in DOMAIN RiskPatterns : Matches(q, text)}}
\* _merge_findings: a pattern counts once.
Merged(findings, extra) == findings \cup {f \in extra : \A g \in findings : g.id # f.id}

\* _model_finding: a known risk with an explanation, unless a finding covers it.
ModelFinding(item, findings) ==
    LET covered == \E f \in findings : f.risk = item.risk /\ f.attributes \cap item.attributes # {}
    IN IF item.risk \notin {"review", "high"} \/ ~item.explained \/ covered THEN {}
       ELSE {[id |-> "model_assessed", risk |-> item.risk, attributes |-> item.attributes]}

RiskOf(findings) ==
    IF findings = {} THEN "none"
    ELSE CHOOSE r \in {f.risk : f \in findings} : \A f \in findings : Severity[f.risk] <= Severity[r]

-----------------------------------------------------------------------------
(* Compilation.                                                            *)

\* _parse_with_repair: the model may repair the clause once.
ParseWithRepair(dsl, repair) ==
    IF dsl = <<>> THEN {}
    ELSE IF ReadClause(dsl) # {} \/ repair = <<>> THEN ReadClause(dsl)
    ELSE ReadClause(repair)

\* The findings on a rule: its source, the model's assessment, its literals.
Review(source, item, parsed) ==
    LET scanned == scan_patterns(source)
        quoted  == UNION {LiteralsOf(clause.expr) : clause \in parsed}
    IN Merged(scanned \cup ModelFinding(item, scanned), UNION {scan_patterns(l) : l \in quoted})

CanonicalText(clauses) == IF clauses = {} THEN <<>> ELSE WriteClause(CHOOSE c \in clauses : TRUE)
\* _build_rule without an item: the model is unavailable, or left the text out.
Unanswered(source) ==
    LET risk == RiskOf(scan_patterns(source))
    IN [source |-> source, risk |-> risk, clause |-> {}, dsl |-> <<>>,
        verdict |-> IF risk = "high" THEN "risky" ELSE "unmappable"]

\* A mistaken gate: a clause is kept whatever its risk.
KeepClause(source, item, repair) ==
    LET clause == ParseWithRepair(item.dsl, repair)
    IN [source |-> source, risk |-> RiskOf(Review(source, item, clause)),
        clause |-> clause, dsl |-> CanonicalText(clause),
        verdict |-> IF clause # {} THEN "applicable" ELSE "unmappable"]

\* _build_rule: a high risk is reported, never applied.
BuildRule(source, item, repair) ==
    LET parsed == ParseWithRepair(item.dsl, repair)
        risk   == RiskOf(Review(source, item, parsed))
        clause == IF risk = "high" THEN {} ELSE parsed
    IN [source |-> source, risk |-> risk, clause |-> clause, dsl |-> CanonicalText(clause),
        verdict |-> CASE risk = "high" -> "risky"
                      [] risk # "high" /\ clause # {} -> "applicable"
                      [] OTHER -> "unmappable"]

IsApplied(rule) == rule.verdict = "applicable" /\ rule.clause # {}

Job(source, items) == [source |-> source, items |-> items]
\* A mistaken order: an answer goes to the text at its own position.
WorkByPosition(texts, answer) ==
    [i \in 1..Max({Len(texts), Len(answer)}) |->
        Job(IF i <= Len(texts) THEN texts[i] ELSE answer[i].source,
            IF i <= Len(answer) THEN {answer[i]} ELSE {})]

\* compile_plan: with texts, each gets the first item that names its number, and
\* the other items follow in their order; without, the items are the rules.
FirstFor(i, answer) ==
    {k \in DOMAIN answer : answer[k].index = i /\ \A j \in 1..(k - 1) : answer[j].index # i}
WorkOf(texts, answer) ==
    LET extras == DOMAIN answer \ UNION {FirstFor(i, answer) : i \in DOMAIN texts}
        extra(n) == answer[CHOOSE k \in extras : Cardinality(extras \cap 1..k) = n]
    IN [i \in 1..(Len(texts) + Cardinality(extras)) |->
           IF i <= Len(texts) THEN Job(texts[i], {answer[k] : k \in FirstFor(i, answer)})
           ELSE Job(extra(i - Len(texts)).source, {extra(i - Len(texts))})]

\* check_query: every literal of the expression is scanned, questions included.
Admits(text) ==
    {expr \in ReadExpr(text) : RiskOf(UNION {scan_patterns(l) : l \in LiteralsOf(expr)}) # "high"}

Init ==
    /\ request \in Requests
    /\ work = <<>> /\ rules = <<>> /\ admitted = {}
    /\ pc = IF request.texts = <<>> /\ request.plan = <<>> THEN "done" ELSE "asked"

ModelAnswers ==
    /\ pc = "asked"
    /\ \E answer \in Answers(request) : work' = WorkOf(request.texts, answer)
    /\ pc' = "building"
    /\ UNCHANGED <<request, rules, admitted>>

\* The call fails: each text, or each sentence of the plan, is left to a person.
ModelUnavailable ==
    /\ pc = "asked"
    /\ LET sources == IF request.texts # <<>> THEN request.texts ELSE request.plan
       IN rules' = [i \in DOMAIN sources |-> Unanswered(sources[i])]
    /\ pc' = "done"
    /\ UNCHANGED <<request, work, admitted>>

Build ==
    /\ pc = "building" /\ work # <<>>
    /\ IF Head(work).items = {}
       THEN rules' = Append(rules, Unanswered(Head(work).source))
       ELSE \E item \in Head(work).items, repair \in Repairs :
                rules' = Append(rules, BuildRule(Head(work).source, item, repair))
    /\ work' = Tail(work)
    /\ UNCHANGED <<request, admitted, pc>>

Finish ==
    /\ pc = "building" /\ work = <<>>
    /\ pc' = "done"
    /\ UNCHANGED <<request, work, rules, admitted>>

\* run_query, once the rules are there: the query that passes is evaluated.
RunQuery ==
    /\ pc = "done" /\ admitted = {}
    /\ \E text \in Queries : admitted' = Admits(text)
    /\ UNCHANGED <<request, work, rules, pc>>

Next == ModelAnswers \/ ModelUnavailable \/ Build \/ Finish \/ RunQuery
Spec == Init /\ [][Next]_vars

-----------------------------------------------------------------------------
(* Properties.                                                             *)

Applied == {rule \in Range(rules) : IsApplied(rule)}
InForce == admitted \cup UNION {{c.expr : c \in rule.clause} : rule \in Applied}
High(text) == \E f \in scan_patterns(text) : f.risk = "high"

\* classifier.py: "flagged language cannot silently keep screening candidates
\* out".  Whatever the model answers and however it repairs a clause, no applied
\* rule holds a phrase of high risk in its source, and no applied rule or query
\* in what it tests or asks.
ProxiesNeverApplied ==
    /\ \A rule \in Applied : ~High(rule.source)
    /\ \A expr \in InForce : \A l \in LiteralsOf(expr) : ~High(l)

\* compile_plan: "the result has one rule per input text in order", built from an
\* item with that text's number: neither a text that the model leaves out nor a
\* number that it gives twice or out of range moves an answer to another text.
TextsKeepTheirAnswers ==
    \A i \in DOMAIN request.texts :
        LET built == Len(rules)
        IN /\ pc = "done" \/ i <= built =>
                  i \in DOMAIN rules /\ rules[i].source = request.texts[i]
           /\ pc = "building" /\ i > built =>
                  /\ i - built \in DOMAIN work /\ work[i - built].source = request.texts[i]
                  /\ \A item \in work[i - built].items : item.index = i

-----------------------------------------------------------------------------
(* The inductive invariant behind these properties.                        *)

ReviewInv ==
    /\ request \in Requests /\ IsSequence(work) /\ IsSequence(rules)
    /\ pc = "asked" => rules = <<>>
    /\ ProxiesNeverApplied /\ TextsKeepTheirAnswers
=============================================================================
