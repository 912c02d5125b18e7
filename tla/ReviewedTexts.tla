---------------------------- MODULE ReviewedTexts ----------------------------
(***************************************************************************)
(* The review of rules in the rule language: RuleReview with the texts of  *)
(* DslParser.  ParsedClause, ParsedExpr, TextClause and QuotedIn are the   *)
(* ReadClause, ReadExpr, WriteClause and LiteralsOf of RuleReview.         *)
(***************************************************************************)
EXTENDS RuleReview, DslParser

ParsedClause(text) ==
    LET parse == ParseClause(EndOfText(text)) IN IF parse.err = "none" THEN {parse.node} ELSE {}
ParsedExpr(text) ==
    LET parse == ParseExpr(EndOfText(text)) IN IF parse.err = "none" THEN {parse.node} ELSE {}

\* string_literals of dsl/ast.py: every quoted string, questions included.
RECURSIVE Literals(_, _)
Literals(node, record) ==
    CASE node.op \in {"compare", "is"} ->
           IF KindOf(record, node.field) \in {"number", "bool"} THEN {} ELSE {node.value}
      [] node.op \in {"has", "in"} -> Range(node.values)
      [] node.op = "ask" -> {node.question}
      [] node.op = "not" -> Literals(node.arg, record)
      [] node.op \in {"and", "or"} -> UNION {Literals(arg, record) : arg \in Range(node.args)}
      [] node.op = "any" -> Literals(node.where, node.record)
      [] node.op = "aggregate" -> UNION {Literals(w, node.record) : w \in node.where}
QuotedIn(expr) == Literals(expr, "none")

-----------------------------------------------------------------------------
(* Properties.                                                             *)

Kinded(node, record) ==
    LET kind == KindOf(record, node.field)
        operators == CASE node.op = "compare" -> {node.cmp}
                       [] node.op = "has" -> {"HAS ANY", "HAS ALL"}
                       [] node.op = "in" -> {"IN"} [] node.op = "is" -> {"IS"}
        values == CASE node.op \in {"compare", "is"} -> {node.value} [] OTHER -> Range(node.values)
    IN /\ record = "none" => node.field \in FIELDS \ FORBIDDEN
       /\ kind # "unknown" /\ operators \subseteq Operators[kind]
       /\ kind = "enum" => values \subseteq EnumValues(node.field)

\* An expression the language allows: its fields exist and are lawful, operators and
\* values fit them, and a WHERE tests the fields of its record and nothing else.
RECURSIVE Lawful(_, _)
Lawful(node, record) ==
    CASE node.op \in {"compare", "has", "in", "is"} -> Kinded(node, record)
      [] node.op = "ask" -> record = "none"
      [] node.op = "not" -> Lawful(node.arg, record)
      [] node.op \in {"and", "or"} -> Len(node.args) > 1 /\ \A a \in Range(node.args) : Lawful(a, record)
      [] node.op = "any" -> record = "none" /\ Lawful(node.where, node.record)
      [] node.op = "aggregate" ->
           /\ record = "none" /\ \A w \in node.where : Lawful(w, node.record)
           /\ (node.func = "count") <=> (node.field = "none")
           /\ node.func # "count" => KindOf(node.record, node.field) = "number"

\* Whatever text the model or a user writes, a rule or a query that is in force is
\* one that the language allows: the parser is the last gate.
AppliedIsLawful == \A expr \in InForce : Lawful(expr, "none")

\* An ANY whose WHERE is followed by more of the expression, and a connective
\* inside one of the same kind, are written without the parentheses they need.
RECURSIVE Enclosable(_)
Enclosable(node) ==
    CASE node.op \in {"and", "or"} ->
           /\ \A a \in Range(node.args) : Enclosable(a) /\ a.op # node.op
           /\ \A i \in 1..(Len(node.args) - 1) :
                  node.args[i].op # "any"
                    /\ (node.args[i].op = "not" => node.args[i].arg.op # "any")
                    /\ (node.op = "or" /\ node.args[i].op = "and" => Last(node.args[i].args).op # "any")
      [] node.op = "not" -> Enclosable(node.arg)
      [] node.op = "any" -> Enclosable(node.where)
      [] node.op = "aggregate" -> \A w \in node.where : Enclosable(w)
      [] OTHER -> TRUE

\* A clause without the empty reason that BECAUSE may give it, which says nothing.
Reasoned(clause) == [clause EXCEPT !.because = @ \ {""}]

\* ast.py: to_dsl "renders the canonical text, which is what a reviewer sees".  The
\* text of an applied rule, read again, is the rule that screens; only an empty
\* reason is not written, and rank.py, the one to use it, takes it for none.
ReviewersSeeTheRule ==
    \A rule \in Applied : \A c \in rule.clause :
        Enclosable(c.expr) =>
            ParseClause(EndOfText(rule.dsl)) = Read(Reasoned(c), Len(rule.dsl) + 1)
=============================================================================
