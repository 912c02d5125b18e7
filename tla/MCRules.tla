------------------------------- MODULE MCRules -------------------------------
(* Expressions of the rule language, for the instances that TLC checks. *)
EXTENDS Naturals, Sequences

Compare(field, cmp, value) == [op |-> "compare", field |-> field, cmp |-> cmp, value |-> value]
Has(mode, field, values) == [op |-> "has", mode |-> mode, field |-> field, values |-> values]
In(field, values) == [op |-> "in", field |-> field, values |-> values]
IsValue(field, value) == [op |-> "is", field |-> field, value |-> value]
Not(arg)  == [op |-> "not", arg |-> arg]
And(a, b) == [op |-> "and", args |-> <<a, b>>]
Or(a, b)  == [op |-> "or", args |-> <<a, b>>]
Ask(q)    == [op |-> "ask", question |-> q]
AnyRole(where) == [op |-> "any", record |-> "role", where |-> where]
Aggregate_(func, field, where, cmp, n) ==
    [op |-> "aggregate", func |-> func, record |-> "role", field |-> field,
     where |-> where, cmp |-> cmp, value |-> n]
=============================================================================
