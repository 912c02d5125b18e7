\* One text with any clause that is right but for a token; two texts, or a plan,
\* with up to three items.
SPECIFICATION Spec
CONSTANTS
    Requests <- SomeRequests
    Queries <- SomeQueries
    Answers <- SomeAnswers
    Repairs <- SomeRepairs
    Matches <- Found
    ReadClause <- ParsedClause
    ReadExpr <- ParsedExpr
    WriteClause <- TextClause
    LiteralsOf <- QuotedIn
INVARIANTS ProxiesNeverApplied AppliedIsLawful TextsKeepTheirAnswers ReviewersSeeTheRule
CHECK_DEADLOCK FALSE
