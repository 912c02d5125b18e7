------------------------------ MODULE DslParser ------------------------------
(***************************************************************************)
(* The text of the rule language: how an expression is written             *)
(* (to_dsl of dsl/ast.py) and how it is read (dsl/parser.py).              *)
(*                                                                         *)
(* A text is its sequence of tokens, the last of them EOF.  Expressions    *)
(* are those of DslEval.  Numbers have at most six digits, which :g keeps. *)
(***************************************************************************)
EXTENDS DslFields

Token(type, value) == [type |-> type, value |-> value]
Keyword(v) == Token("KEYWORD", v)
Ident(v)   == Token("IDENT", v)
String(v)  == Token("STRING", v)
Num(n)     == [type |-> "NUMBER", number |-> n]
Op(v)      == Token("OP", v)
Mark(type) == Token(type, type)

Aggregates == [count |-> "COUNT", sum |-> "SUM", max |-> "MAX", min |-> "MIN", avg |-> "AVG"]

-----------------------------------------------------------------------------
(* Writing.                                                                *)

Enclosed(text) == <<Mark("LPAREN")>> \o text \o <<Mark("RPAREN")>>
\* The texts one after the other, with the separator between them.
Separated(texts, separator) ==
    FoldLeft(LAMBDA all, text : IF all = <<>> THEN text ELSE all \o separator \o text, <<>>, texts)
Strings(values) == Enclosed(Separated([i \in DOMAIN values |-> <<String(values[i])>>], <<Mark("COMMA")>>))
Value(value, kind) == IF kind = "number" THEN Num(value) ELSE String(value)

RECURSIVE Text(_, _)

\* A mistaken rendering: a disjunction inside a conjunction is not enclosed.
TextUnenclosed(node, record) ==
    LET parts == [i \in DOMAIN node.args |-> Text(node.args[i], record)]
    IN Separated(parts, <<Keyword(IF node.op = "and" THEN "AND" ELSE "OR")>>)

\* And.to_dsl and Or.to_dsl: only a disjunction inside a conjunction is enclosed.
TextConnective(node, record) ==
    LET parts == [i \in DOMAIN node.args |->
            IF node.op = "and" /\ node.args[i].op = "or"
            THEN Enclosed(Text(node.args[i], record)) ELSE Text(node.args[i], record)]
    IN Separated(parts, <<Keyword(IF node.op = "and" THEN "AND" ELSE "OR")>>)

TextAggregate(node) ==
    <<Keyword(Aggregates[node.func])>>
    \o Enclosed(<<Ident(node.record)>>
                \o (IF node.func = "count" THEN <<>> ELSE <<Mark("DOT"), Ident(node.field)>>)
                \o Separated([i \in 1..Cardinality(node.where) |->
                       <<Keyword("WHERE")>> \o Text(CHOOSE w \in node.where : TRUE, node.record)], <<>>))
    \o <<Op(node.cmp), Num(node.value)>>

Text(node, record) ==
    CASE node.op = "compare" ->
           <<Ident(node.field), Op(node.cmp), Value(node.value, KindOf(record, node.field))>>
      [] node.op = "has" -> <<Ident(node.field), Keyword("HAS"), Keyword(node.mode)>> \o Strings(node.values)
      [] node.op = "in" -> <<Ident(node.field), Keyword("IN")>> \o Strings(node.values)
      [] node.op = "is" ->
           <<Ident(node.field), Keyword("IS"),
             IF KindOf(record, node.field) = "bool"
             THEN Keyword(IF node.value THEN "TRUE" ELSE "FALSE") ELSE Ident(node.value)>>
      [] node.op = "ask" -> <<Keyword("ASK"), String(node.question)>>
      [] node.op = "aggregate" -> TextAggregate(node)
      [] node.op = "not" ->
           <<Keyword("NOT")>> \o (IF node.arg.op \in {"and", "or"}
                                  THEN Enclosed(Text(node.arg, record)) ELSE Text(node.arg, record))
      [] node.op \in {"and", "or"} -> TextConnective(node, record)
      [] node.op = "any" ->
           <<Keyword("ANY"), Ident(node.record), Keyword("WHERE")>> \o Text(node.where, node.record)

\* Clause.to_dsl: an empty reason is left out like none.
TextClause(clause) ==
    <<Keyword(IF clause.kind = "require" THEN "REQUIRE" ELSE "PREFER")>> \o Text(clause.expr, "none")
    \o (IF clause.kind = "prefer" /\ clause.weight # Number(1)
        THEN <<Keyword("WEIGHT"), Num(clause.weight)>> ELSE <<>>)
    \o (IF clause.because \subseteq {""} THEN <<>>
        ELSE <<Keyword("BECAUSE"), String(CHOOSE b \in clause.because : TRUE)>>)
EndOfText(text) == Append(text, Mark("EOF"))

-----------------------------------------------------------------------------
(* Reading.  A parse is an error, or a node and where it ends.             *)

Failed(kind) == [err |-> kind, node |-> [op |-> "none"], at |-> 0]
Read(node, at) == [err |-> "none", node |-> node, at |-> at]
\* The parse goes on after a part that has been read.
Then(part, Next_(_, _)) == IF part.err = "none" THEN Next_(part.node, part.at) ELSE part
\* The parse goes on only if P, or else the error is reported.
Check(P, kind, parse) == IF P THEN parse ELSE Failed(kind)

Is(token, type) == token.type = type
IsKeyword(token, names) == token.type = "KEYWORD" /\ token.value \in names
Operators == [
    number |-> {">=", "<=", ">", "<", "=", "!="}, text |-> {"=", "!=", "HAS ANY", "HAS ALL"},
    enum |-> {"IS", "IN", "=", "!="}, bool |-> {"IS"}, list |-> {"HAS ANY", "HAS ALL"}]

\* _resolve: the fields of the record inside a WHERE, or else those of the profile.
Resolve(record, name) ==
    LET fields == IF record = "none" THEN resolve_field(name)
                  ELSE IF KindOf(record, name) # "unknown" THEN {name} ELSE {}
    IN IF fields # {} THEN [err |-> "none", node |-> CHOOSE f \in fields : TRUE, at |-> 0]
       ELSE Failed(IF name \in FORBIDDEN THEN "forbidden" ELSE "field")

\* _enum_value: the value, in lower case and with underscores.
EnumValue(field, value, node, at) == Check(value \in EnumValues(field), "type", Read(node, at))

\* _string_list: the values between the parentheses, none of them blank.
RECURSIVE StringList(_, _, _)
StringList(t, i, values) ==
    IF ~Is(t[i], "STRING") \/ t[i].value = "" THEN Failed("syntax")
    ELSE IF Is(t[i + 1], "COMMA") THEN StringList(t, i + 2, Append(values, t[i].value))
    ELSE Check(Is(t[i + 1], "RPAREN"), "syntax", Read(Append(values, t[i].value), i + 2))
StringsAt(t, i) == Check(Is(t[i], "LPAREN"), "syntax", StringList(t, i + 1, <<>>))

\* A mistaken check: the values of a fixed list are compared in any way.
CheckLoosely(kind, operator, parse) ==
    Check(kind = "enum" \/ operator \in Operators[kind], "type", parse)
\* _check_operator.
CheckOperator(kind, operator, parse) == Check(operator \in Operators[kind], "type", parse)

\* field cmp value
CompareAt(t, i, field, kind) ==
    LET value   == t[i + 1]
        node(v) == [op |-> "compare", field |-> field, cmp |-> t[i].value, value |-> v]
    IN CheckOperator(kind, t[i].value,
         CASE kind = "number" -> Check(Is(value, "NUMBER"), "syntax", Read(node(value.number), i + 2))
           [] kind = "enum" ->
                Check(value.type \in {"IDENT", "STRING"} \/ IsKeyword(value, {"TRUE", "FALSE"}), "syntax",
                      EnumValue(field, value.value, node(value.value), i + 2))
           [] OTHER -> Check(Is(value, "STRING"), "syntax", Read(node(value.value), i + 2)))

\* field HAS ANY (...), field HAS ALL (...)
HasAt(t, i, field, kind) ==
    Check(IsKeyword(t[i], {"ANY", "ALL"}), "syntax",
      CheckOperator(kind, IF t[i].value = "ANY" THEN "HAS ANY" ELSE "HAS ALL",
        Then(StringsAt(t, i + 1), LAMBDA values, at :
          Read([op |-> "has", mode |-> t[i].value, field |-> field, values |-> values], at))))

InAt(t, i, field, kind) ==
    CheckOperator(kind, "IN",
      Then(StringsAt(t, i), LAMBDA values, at :
        Check(Range(values) \subseteq EnumValues(field), "type",
          Read([op |-> "in", field |-> field, values |-> values], at))))

IsAt(t, i, field, kind) ==
    CheckOperator(kind, "IS",
      IF kind = "bool"
      THEN Check(IsKeyword(t[i], {"TRUE", "FALSE"}), "syntax",
             Read([op |-> "is", field |-> field, value |-> t[i].value = "TRUE"], i + 1))
      ELSE Check(t[i].type \in {"IDENT", "STRING"}, "syntax",
             EnumValue(field, t[i].value, [op |-> "is", field |-> field, value |-> t[i].value], i + 1)))

\* comparison: the field at i - 1 has been seen to be an identifier.
Comparison(t, i, record) ==
    Then(Resolve(record, t[i - 1].value), LAMBDA field, at :
      LET kind == KindOf(record, field)
      IN CASE Is(t[i], "OP") -> CompareAt(t, i, field, kind)
           [] IsKeyword(t[i], {"HAS"}) -> HasAt(t, i + 1, field, kind)
           [] IsKeyword(t[i], {"IN"}) -> InAt(t, i + 1, field, kind)
           [] IsKeyword(t[i], {"IS"}) -> IsAt(t, i + 1, field, kind)
           [] OTHER -> Failed("syntax"))

\* A record's name: "field" when there is no such record.
RecordAt(t, i) ==
    Check(Is(t[i], "IDENT"), "syntax",
      LET records == resolve_record(t[i].value)
      IN Check(records # {}, "field", Read(CHOOSE r \in records : TRUE, i + 1)))

RECURSIVE ExprAt(_, _, _, _, _)

\* expr for "or", and_expr for "and": args are those read so far.
\* not_expr and primary are its operands.
AnyAt(t, i) ==
    Then(RecordAt(t, i), LAMBDA record, at :
      Check(IsKeyword(t[at], {"WHERE"}), "syntax",
        Then(ExprAt(t, at + 1, record, "or", <<>>), LAMBDA where, end :
          Read([op |-> "any", record |-> record, where |-> where], end))))

\* The comparison after the parenthesis that closes the aggregate.
AggregateEnd(t, i, func, record, field, where) ==
    Check(Is(t[i], "RPAREN") /\ Is(t[i + 1], "OP") /\ Is(t[i + 2], "NUMBER"), "syntax",
      Read([op |-> "aggregate", func |-> func, record |-> record, field |-> field,
            where |-> where, cmp |-> t[i + 1].value, value |-> t[i + 2].number], i + 3))

\* COUNT takes no field, and the others a numeric one.
AggregateAt(t, i, func) ==
    Check(Is(t[i], "LPAREN"), "syntax",
      Then(RecordAt(t, i + 1), LAMBDA record, at :
        LET dotted == Is(t[at], "DOT")
            part   == IF ~dotted THEN Read("none", at)
                      ELSE Check(Is(t[at + 1], "IDENT"), "syntax",
                             Then(Resolve(record, t[at + 1].value), LAMBDA field, x :
                               Check(KindOf(record, field) = "number", "type", Read(field, at + 2))))
        IN Then(part, LAMBDA field, next :
             Check(dotted <=> func # "count", "type",
               IF IsKeyword(t[next], {"WHERE"})
               THEN Then(ExprAt(t, next + 1, record, "or", <<>>), LAMBDA where, end :
                      AggregateEnd(t, end, func, record, field, {where}))
               ELSE AggregateEnd(t, next, func, record, field, {})))))

\* A WHERE has no ANY, aggregate or ASK of its own.
Primary(t, i, record) ==
    CASE Is(t[i], "LPAREN") ->
           Then(ExprAt(t, i + 1, record, "or", <<>>), LAMBDA node, at :
             Check(Is(t[at], "RPAREN"), "syntax", Read(node, at + 1)))
      [] IsKeyword(t[i], {"ANY"}) -> Check(record = "none", "syntax", AnyAt(t, i + 1))
      [] IsKeyword(t[i], Range(Aggregates)) ->
           Check(record = "none", "syntax",
             AggregateAt(t, i + 1, CHOOSE f \in DOMAIN Aggregates : Aggregates[f] = t[i].value))
      [] IsKeyword(t[i], {"ASK"}) ->
           Check(record = "none" /\ Is(t[i + 1], "STRING") /\ t[i + 1].value # "", "syntax",
             Read([op |-> "ask", question |-> t[i + 1].value], i + 2))
      [] Is(t[i], "IDENT") -> Comparison(t, i + 1, record)
      [] OTHER -> Failed("syntax")

RECURSIVE NotAt(_, _, _)
NotAt(t, i, record) ==
    IF IsKeyword(t[i], {"NOT"})
    THEN Then(NotAt(t, i + 1, record), LAMBDA node, at : Read([op |-> "not", arg |-> node], at))
    ELSE Primary(t, i, record)

ExprAt(t, i, record, level, args) ==
    Then(IF level = "or" THEN ExprAt(t, i, record, "and", <<>>) ELSE NotAt(t, i, record),
      LAMBDA node, at :
        LET all == Append(args, node)
        IN IF IsKeyword(t[at], {IF level = "or" THEN "OR" ELSE "AND"})
           THEN ExprAt(t, at + 1, record, level, all)
           ELSE Read(IF Len(all) = 1 THEN node ELSE [op |-> level, args |-> all], at))

\* parse_expr: the expression is the whole text.
ParseExpr(t) ==
    Then(ExprAt(t, 1, "none", "or", <<>>), LAMBDA node, at :
      Check(Is(t[at], "EOF"), "syntax", Read(node, at)))

\* The WEIGHT at i, if it is there: a positive one, and only of a preference.
WeightAt(t, i, kind) ==
    IF ~IsKeyword(t[i], {"WEIGHT"}) THEN Read(Number(1), i)
    ELSE Check(kind = "prefer" /\ Is(t[i + 1], "NUMBER"), "syntax",
           Check(t[i + 1].number > 0, "syntax", Read(t[i + 1].number, i + 2)))
ReasonAt(t, i) ==
    IF ~IsKeyword(t[i], {"BECAUSE"}) THEN Read({}, i)
    ELSE Check(Is(t[i + 1], "STRING"), "syntax", Read({t[i + 1].value}, i + 2))
ClauseAt(t, i) ==
    LET kind == IF t[i].value = "REQUIRE" THEN "require" ELSE "prefer"
    IN Then(ExprAt(t, i + 1, "none", "or", <<>>), LAMBDA expr, at :
         Then(WeightAt(t, at, kind), LAMBDA weight, next :
           Then(ReasonAt(t, next), LAMBDA because, end :
             Check(t[end].type \in {"SEMI", "EOF"} \/ IsKeyword(t[end], {"REQUIRE", "PREFER"}), "syntax",
               Read([kind |-> kind, expr |-> expr, weight |-> weight, because |-> because], end)))))

\* program: clauses up to the end of the text, at least one.
RECURSIVE ProgramAt(_, _, _)
ProgramAt(t, i, clauses) ==
    CASE Is(t[i], "SEMI") -> ProgramAt(t, i + 1, clauses)
      [] Is(t[i], "EOF") -> Check(clauses # <<>>, "syntax", Read(clauses, i))
      [] IsKeyword(t[i], {"REQUIRE", "PREFER"}) ->
           Then(ClauseAt(t, i), LAMBDA clause, at : ProgramAt(t, at, Append(clauses, clause)))
      [] OTHER -> Failed("syntax")
ParseProgram(t) == ProgramAt(t, 1, <<>>)

\* parse_clause: a bare expression is a requirement, and there is one clause.
ParseClause(t) ==
    LET text == IF IsKeyword(t[1], {"REQUIRE", "PREFER"}) THEN t ELSE <<Keyword("REQUIRE")>> \o t
    IN Check(~Is(t[1], "EOF"), "syntax",
         Then(ParseProgram(text), LAMBDA clauses, at :
           Check(Len(clauses) = 1, "syntax", Read(clauses[1], at))))
=============================================================================
