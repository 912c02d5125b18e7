---------------------------- MODULE MCRuleReview ----------------------------
(* Instances of ReviewedTexts for TLC. *)
EXTENDS ReviewedTexts, MCRules

\* The phrases of the texts, and the patterns of the table that they match.
Found(pattern, text) ==
    \/ pattern = "native_speaker" /\ text = "native speaker"
    \/ pattern \in {"age_coded", "cultural_fit"} /\ text = "young team"
    \/ pattern = "local_experience" /\ text = "local"

Clause(kind, expr, weight, because) == [kind |-> kind, expr |-> expr, weight |-> weight, because |-> because]
Require(expr) == Clause("require", expr, Number(1), {})

Years  == Compare("years_experience", ">=", Number(5))
Rights == IsValue("work_rights", "unrestricted")
Skills == Has("ANY", "skills", <<"python", "native speaker">>)
Lead   == In("seniority", <<"lead", "head">>)
Sound  == <<
    Require(Years), Require(Rights), Require(Skills),
    Require(IsValue("has_management_experience", TRUE)),
    Require(AnyRole(And(Lead, Compare("months", "<", Number(24))))),
    Require(Aggregate_("count", "none", {Or(Lead, Not(Lead))}, ">=", Number(2))),
    Require(Aggregate_("sum", "months", {}, ">=", Number(24))),
    Require(And(Or(Years, Ask("plain")), Not(Or(Rights, Years)))),
    Require(Or(And(Years, Rights), AnyRole(Lead))),
    Require(And(Not(Years), AnyRole(Or(Lead, Lead)))),
    Require(Not(Not(AnyRole(Compare("title", "=", "young team"))))),
    Clause("prefer", Ask("young team"), Number(2), {"local"}),
    Clause("prefer", In("work_rights", <<"citizen">>), Number(1), {"native speaker"})>>
\* Written otherwise: aliases, a bare expression, needless parentheses.
Written == {TextClause(Sound[i]) : i \in DOMAIN Sound} \cup {
    <<Ident("experience_years"), Op(">="), Num(Number(5))>>,
    Enclosed(Enclosed(Text(Years, "none")) \o <<Keyword("AND")>> \o Text(Rights, "none")),
    Text(And(AnyRole(Lead), Years), "none"), Text(And(Years, And(Rights, Years)), "none"),
    Text(Years, "none") \o <<Mark("SEMI")>> \o Text(Years, "none")}

\* A model writes what is nearly right: one token is left out or another one.
Tokens == {Ident("years_experience"), Ident("months"), Ident("age"), Ident("gender"), Ident("skills"),
           Ident("role"), Ident("nothing"), Num(Number(0)), String("lead"), String("native speaker"),
           String(""), Op("="), Op(">="), Keyword("IS"), Keyword("IN"), Keyword("HAS"), Keyword("ANY"),
           Keyword("COUNT"), Keyword("SUM"), Keyword("ASK"), Keyword("NOT"), Keyword("AND"), Keyword("OR"),
           Keyword("WHERE"), Keyword("TRUE"), Keyword("PREFER"), Keyword("WEIGHT"), Keyword("BECAUSE"),
           Mark("LPAREN"), Mark("RPAREN"), Mark("COMMA"), Mark("DOT")}
Nearly(text) ==
    {text} \cup {RemoveAt(text, i) : i \in DOMAIN text}
           \cup {[text EXCEPT ![i] = token] : i \in DOMAIN text, token \in Tokens}
Texts == UNION {Nearly(text) : text \in Written} \cup {<<>>}

Item(index, source, dsl, risk) ==
    [index |-> index, source |-> source, dsl |-> dsl, risk |-> risk,
     attributes |-> {Race}, explained |-> TRUE]
\* One text with any clause; two, or a plan, with items numbered anyhow.
Any_ == <<TextClause(Require(Years)), TextClause(Require(Skills))>>
Few == {Item(index, source, Any_[1], risk) :
           index \in 0..3, source \in {"other", "native speaker"}, risk \in {"none", "high"}}
SomeAnswers(r) ==
    IF Len(r.texts) = 1
    THEN {<<Item(1, "other", dsl, "none")>> : dsl \in Texts}
           \cup {<<[Item(1, "other", dsl, risk) EXCEPT !.explained = e]>> :
                     dsl \in {TextClause(Sound[i]) : i \in DOMAIN Sound}, risk \in {"review", "high"},
                     e \in BOOLEAN}
    ELSE {<<>>} \cup {<<a>> : a \in Few} \cup {<<a, b>> : a \in Few, b \in Few}
           \cup {<<a, b, c>> : a \in {f \in Few : f.index < 2}, b \in Few, c \in {f \in Few : f.risk = "none"}}
SomeRequests ==
    {[plan |-> <<>>, texts |-> <<t>>] : t \in {"plain", "local", "native speaker"}}
      \cup {[plan |-> <<"plain", "young team">>, texts |-> texts] : texts \in {<<>>, <<"plain", "local">>}}
      \cup {[plan |-> <<>>, texts |-> <<>>]}
SomeRepairs == {<<>>, TextClause(Require(Years)), TextClause(Require(Skills)), <<Keyword("REQUIRE")>>}
SomeQueries == {Text(Sound[i].expr, "none") : i \in DOMAIN Sound} \cup {Enclosed(Text(Ask("native speaker"), "none"))}
=============================================================================
