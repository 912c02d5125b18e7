-------------------------- MODULE RuleReview_proofs --------------------------
(***************************************************************************)
(* Whatever the model answers and whatever the language reads in it: no    *)
(* rule with a proxy of high risk is applied, and every text gets its own  *)
(* answer.                                                                 *)
(***************************************************************************)
EXTENDS RuleReview, Lists_proofs

-----------------------------------------------------------------------------
(* Risks.                                                                  *)

LEMMA PatternsAreRisky ==
    \A p \in DOMAIN RiskPatterns : RiskPatterns[p].risk \in {"review", "high"} /\ p # "model_assessed"
<1>1. DOMAIN RiskPatterns =
        {"native_speaker", "unaccented", "cultural_fit", "recent_graduate", "australian_educated",
         "local_experience", "age_coded", "career_gap", "availability_always", "gendered_language",
         "physical_ability", "religion_appearance", "citizenship_only", "birthplace", "name_or_photo",
         "employer_prestige", "postcode_or_suburb"}
  BY DEF RiskPatterns
<1>2. \A p \in DOMAIN RiskPatterns : p # "model_assessed"
  BY <1>1
<1>3. /\ RiskPatterns.native_speaker.risk = "high" /\ RiskPatterns.unaccented.risk = "high"
      /\ RiskPatterns.cultural_fit.risk = "high" /\ RiskPatterns.recent_graduate.risk = "high"
      /\ RiskPatterns.australian_educated.risk = "high" /\ RiskPatterns.local_experience.risk = "review"
      /\ RiskPatterns.age_coded.risk = "high" /\ RiskPatterns.career_gap.risk = "high"
      /\ RiskPatterns.availability_always.risk = "high" /\ RiskPatterns.gendered_language.risk = "review"
      /\ RiskPatterns.physical_ability.risk = "review" /\ RiskPatterns.religion_appearance.risk = "high"
      /\ RiskPatterns.citizenship_only.risk = "review" /\ RiskPatterns.birthplace.risk = "high"
      /\ RiskPatterns.name_or_photo.risk = "high" /\ RiskPatterns.employer_prestige.risk = "review"
      /\ RiskPatterns.postcode_or_suburb.risk = "review"
  BY DEF RiskPatterns
<1>. HIDE DEF RiskPatterns
<1>. QED
  BY <1>1, <1>2, <1>3

LEMMA ScansAreRisky ==
    ASSUME NEW text
    PROVE  \A f \in scan_patterns(text) : /\ f.id \in DOMAIN RiskPatterns /\ f.risk = RiskPatterns[f.id].risk
                                          /\ f.risk \in {"review", "high"} /\ f.id # "model_assessed"
<1>. HIDE DEF RiskPatterns
<1>. QED
  BY PatternsAreRisky DEF scan_patterns

\* The risk of findings is high if one of them is.
LEMMA RiskIsTheGreatest ==
    ASSUME NEW findings, \A f \in findings : f.risk \in {"review", "high"},
           RiskOf(findings) # "high"
    PROVE  \A f \in findings : f.risk # "high"
<1>. SUFFICES ASSUME NEW h \in findings, h.risk = "high" PROVE FALSE
  OBVIOUS
<1> DEFINE risks == {f.risk : f \in findings}
           greatest(r) == \A f \in findings : Severity[f.risk] <= Severity[r]
<1>1. "high" \in risks /\ greatest("high")
  BY DEF Severity
<1>2. RiskOf(findings) = CHOOSE r \in risks : greatest(r)
  BY DEF RiskOf
<1>3. RiskOf(findings) \in risks /\ greatest(RiskOf(findings))
  BY <1>1, <1>2
<1>4. RiskOf(findings) \in {"review", "high"} /\ 2 <= Severity[RiskOf(findings)]
  BY <1>3 DEF Severity
<1>. QED
  BY <1>4 DEF Severity

\* A review whose risk is not high finds nothing of high risk in the source, nor
\* in what the clause quotes.
LEMMA ReviewsSeeEverything ==
    ASSUME NEW source, NEW item, NEW parsed, RiskOf(Review(source, item, parsed)) # "high"
    PROVE  /\ ~High(source)
           /\ \A clause \in parsed : \A l \in LiteralsOf(clause.expr) : ~High(l)
<1> DEFINE scanned  == scan_patterns(source)
           assessed == scanned \cup ModelFinding(item, scanned)
           literals == UNION {LiteralsOf(clause.expr) : clause \in parsed}
           extra    == UNION {scan_patterns(l) : l \in literals}
           findings == Review(source, item, parsed)
<1>1. findings = Merged(assessed, extra)
  BY DEF Review
<1>2. \A f \in scanned \cup extra :
         /\ f.id \in DOMAIN RiskPatterns /\ f.risk = RiskPatterns[f.id].risk
         /\ f.risk \in {"review", "high"} /\ f.id # "model_assessed"
  <2>. HIDE DEF RiskPatterns
  <2>. QED
    BY ScansAreRisky
<1>3. \A f \in ModelFinding(item, scanned) : f.id = "model_assessed" /\ f.risk \in {"review", "high"}
  <2>. HIDE DEF scanned
  <2>. QED
    BY DEF ModelFinding
<1>. HIDE DEF scanned, extra, findings
<1>4. \A f \in findings : f.risk \in {"review", "high"}
  BY <1>1, <1>2, <1>3 DEF Merged
<1>5. \A f \in findings : f.risk # "high"
  BY <1>4, RiskIsTheGreatest DEF findings
<1>6. \A f \in scanned : f.risk # "high"
  BY <1>1, <1>5 DEF Merged
<1>7. ASSUME NEW f \in extra
      PROVE  f.risk # "high"
  <2>1. CASE f \in findings
    BY <1>5, <2>1
  <2>2. CASE f \notin findings
    <3>1. PICK g \in assessed : g.id = f.id
      BY <1>1, <2>2 DEF Merged
    <3>2. g \in scanned
      BY <1>2, <1>3, <1>7, <3>1
    <3>. QED
      BY <1>2, <1>6, <1>7, <3>1, <3>2
  <2>. QED
    BY <2>1, <2>2
<1>8. \A clause \in parsed : \A l \in LiteralsOf(clause.expr) : scan_patterns(l) \subseteq extra
  BY DEF extra
<1>. QED
  BY <1>6, <1>7, <1>8 DEF High, scanned

\* What is built for a text names it, and holds no proxy if it is applied.
Harmless(rule) ==
    IsApplied(rule) =>
        /\ ~High(rule.source)
        /\ \A c \in rule.clause : \A l \in LiteralsOf(c.expr) : ~High(l)

LEMMA BuiltRulesAreHarmless ==
    ASSUME NEW source, NEW item, NEW repair
    PROVE  /\ BuildRule(source, item, repair).source = source
           /\ Harmless(BuildRule(source, item, repair))
<1> DEFINE parsed == ParseWithRepair(item.dsl, repair)
           risk == RiskOf(Review(source, item, parsed))
           rule == BuildRule(source, item, repair)
<1>. HIDE DEF parsed
<1>1. /\ rule.source = source
      /\ rule.clause = IF risk = "high" THEN {} ELSE parsed
  BY DEF BuildRule, parsed
<1>. HIDE DEF rule, risk
<1>2. CASE risk = "high"
  BY <1>1, <1>2 DEF Harmless, IsApplied, rule
<1>3. CASE risk # "high"
  <2>1. ~High(source) /\ \A c \in parsed : \A l \in LiteralsOf(c.expr) : ~High(l)
    BY <1>3, ReviewsSeeEverything DEF risk
  <2>. QED
    BY <1>1, <1>3, <2>1 DEF Harmless, rule
<1>. QED
  BY <1>1, <1>2, <1>3 DEF rule

LEMMA UnansweredRulesAreHarmless ==
    ASSUME NEW source
    PROVE  Unanswered(source).source = source /\ Harmless(Unanswered(source))
BY DEF Unanswered, Harmless, IsApplied

LEMMA ExpressionsInForce ==
    ProxiesNeverApplied <=> /\ \A rule \in Range(rules) : Harmless(rule)
                            /\ \A expr \in admitted : \A l \in LiteralsOf(expr) : ~High(l)
BY DEF ProxiesNeverApplied, InForce, Applied, Harmless

-----------------------------------------------------------------------------
(* The work.                                                               *)

\* Each text is first in line with the first item that names its number.
LEMMA WorkStartsWithTheTexts ==
    ASSUME NEW texts, NEW answer, IsSequence(texts), IsSequence(answer)
    PROVE  LET jobs == WorkOf(texts, answer)
           IN /\ IsSequence(jobs)
              /\ \A i \in DOMAIN texts :
                    /\ i \in DOMAIN jobs /\ jobs[i].source = texts[i]
                    /\ \A item \in jobs[i].items : item.index = i
<1> DEFINE extras == DOMAIN answer \ UNION {FirstFor(i, answer) : i \in DOMAIN texts}
           jobs == WorkOf(texts, answer)
           extra(n) == answer[CHOOSE k \in extras : Cardinality(extras \cap 1..k) = n]
           job(i) == IF i <= Len(texts) THEN Job(texts[i], {answer[k] : k \in FirstFor(i, answer)})
                     ELSE Job(extra(i - Len(texts)).source, {extra(i - Len(texts))})
           size == Len(texts) + Cardinality(extras)
<1>1. Len(texts) \in Nat /\ DOMAIN texts = 1..Len(texts)
  BY Shaped
<1>2. Cardinality(extras) \in Nat
  <2>1. IsFiniteSet(DOMAIN answer)
    <3>1. DOMAIN answer = 1..Len(answer) /\ Len(answer) \in Int /\ 1 \in Int
      BY Shaped
    <3>2. IsFiniteSet(1..Len(answer))
      BY <3>1, FS_Interval
    <3>. QED
      BY <3>1, <3>2
  <2>2. extras \in SUBSET DOMAIN answer
    OBVIOUS
  <2>. HIDE DEF extras
  <2>. QED
    BY <2>1, <2>2, FS_Subset, FS_CardinalityType
<1>3. jobs = [i \in 1..size |-> job(i)]
  BY DEF WorkOf
<1>4. size \in Nat /\ Len(texts) <= size
  <2>. HIDE DEF extras
  <2>. QED
    BY <1>1, <1>2
<1>. HIDE DEF jobs, size, job
<1>5. IsSequence(jobs) /\ DOMAIN jobs = 1..size
  <2>1. jobs = [i \in 1..size |-> jobs[i]]
    BY <1>3
  <2>. QED
    BY <1>4, <2>1, Counted
<1>6. ASSUME NEW i \in DOMAIN texts
      PROVE  /\ i \in DOMAIN jobs /\ jobs[i].source = texts[i]
             /\ \A item \in jobs[i].items : item.index = i
  <2>1. i \in 1..size /\ i <= Len(texts)
    BY <1>1, <1>4
  <2>2. jobs[i] = Job(texts[i], {answer[k] : k \in FirstFor(i, answer)})
    BY <1>3, <2>1 DEF job
  <2>. QED
    BY <1>5, <2>1, <2>2 DEF Job, FirstFor
<1>. QED
  BY <1>5, <1>6 DEF jobs

-----------------------------------------------------------------------------
(* Every step keeps ReviewInv.                                             *)

LEMMA ReviewStarts == Init => ReviewInv
<1>. SUFFICES ASSUME Init PROVE ReviewInv
  OBVIOUS
<1>1. IsSequence(<<>>) /\ Len(<<>>) = 0 /\ DOMAIN <<>> = {}
  BY EmptySeq DEF IsSequence
<1>2. ProxiesNeverApplied
  BY <1>1, ExpressionsInForce DEF Init, Range
<1>3. TextsKeepTheirAnswers
  <2>1. IsSequence(request.texts)
    BY RequestsAreLists DEF Init
  <2>2. \A i \in DOMAIN request.texts : i \in Nat \ {0} /\ request.texts # <<>>
    BY <1>1, <2>1, Shaped
  <2>. QED
    BY <1>1, <2>2 DEF Init, TextsKeepTheirAnswers
<1>. QED
  BY <1>1, <1>2, <1>3 DEF Init, ReviewInv

LEMMA AnswersKeep == ReviewInv /\ ModelAnswers => ReviewInv'
<1>. SUFFICES ASSUME ReviewInv, ModelAnswers PROVE ReviewInv'
  OBVIOUS
<1>1. PICK answer \in Answers(request) : work' = WorkOf(request.texts, answer)
  BY DEF ModelAnswers
<1>2. /\ IsSequence(request.texts) /\ IsSequence(answer)
      /\ UNCHANGED <<request, rules, admitted>> /\ rules = <<>> /\ pc' = "building"
  BY RequestsAreLists DEF ReviewInv, ModelAnswers
<1>3. /\ IsSequence(work')
      /\ \A i \in DOMAIN request.texts :
            /\ i \in DOMAIN work' /\ work'[i].source = request.texts[i]
            /\ \A item \in work'[i].items : item.index = i
  BY <1>1, <1>2, WorkStartsWithTheTexts
<1>4. ProxiesNeverApplied'
  BY <1>2 DEF ReviewInv, ProxiesNeverApplied, InForce, Applied
<1>5. TextsKeepTheirAnswers'
  <2>1. \A i \in DOMAIN request.texts : i \in Nat \ {0}
    BY <1>2, Shaped
  <2>2. Len(rules) = 0
    BY <1>2
  <2>. QED
    BY <1>2, <1>3, <2>1, <2>2 DEF TextsKeepTheirAnswers
<1>. QED
  BY <1>2, <1>3, <1>4, <1>5 DEF ReviewInv

LEMMA UnavailableKeeps == ReviewInv /\ ModelUnavailable => ReviewInv'
<1>. SUFFICES ASSUME ReviewInv, ModelUnavailable PROVE ReviewInv'
  OBVIOUS
<1> DEFINE sources == IF request.texts # <<>> THEN request.texts ELSE request.plan
<1>1. /\ rules' = [i \in DOMAIN sources |-> Unanswered(sources[i])]
      /\ pc' = "done" /\ UNCHANGED <<request, work, admitted>>
  BY DEF ModelUnavailable
<1>2. request \in Requests /\ IsSequence(request.texts) /\ IsSequence(request.plan)
  BY RequestsAreLists DEF ReviewInv
<1>3. IsSequence(sources) /\ (request.texts # <<>> => sources = request.texts)
  BY <1>2
<1>. HIDE DEF sources
<1>4. IsSequence(rules') /\ DOMAIN rules' = DOMAIN sources
  <2>1. DOMAIN sources = 1..Len(sources) /\ Len(sources) \in Nat
    BY <1>3, Shaped
  <2>2. rules' = [i \in 1..Len(sources) |-> rules'[i]]
    BY <1>1, <2>1
  <2>. QED
    BY <2>1, <2>2, Counted
<1>5. \A i \in DOMAIN rules' : Harmless(rules'[i]) /\ rules'[i].source = sources[i]
  BY <1>1, <1>4, UnansweredRulesAreHarmless
<1>6. ProxiesNeverApplied'
  <2>1. \A expr \in admitted' : \A l \in LiteralsOf(expr) : ~High(l)
    BY <1>1, ExpressionsInForce DEF ReviewInv
  <2>2. \A rule \in Range(rules') : Harmless(rule)
    BY <1>5 DEF Range
  <2>. QED
    BY <2>1, <2>2 DEF ProxiesNeverApplied, InForce, Applied, Harmless
<1>7. TextsKeepTheirAnswers'
  <2>1. DOMAIN <<>> = {}
    OBVIOUS
  <2>2. \A i \in DOMAIN request.texts : request.texts # <<>>
    BY <2>1
  <2>. QED
    BY <1>1, <1>3, <1>4, <1>5, <2>2 DEF TextsKeepTheirAnswers
<1>. QED
  BY <1>1, <1>2, <1>4, <1>6, <1>7 DEF ReviewInv

LEMMA BuildKeeps == ReviewInv /\ Build => ReviewInv'
<1>. SUFFICES ASSUME ReviewInv, Build PROVE ReviewInv'
  OBVIOUS
<1>1. /\ pc = "building" /\ work # <<>> /\ work' = Tail(work)
      /\ UNCHANGED <<request, admitted, pc>>
  BY DEF Build
<1>2. PICK rule : rules' = Append(rules, rule) /\ rule.source = Head(work).source /\ Harmless(rule)
  <2>1. CASE Head(work).items = {}
    BY <2>1, UnansweredRulesAreHarmless DEF Build
  <2>2. CASE Head(work).items # {}
    <3>1. PICK item \in Head(work).items, repair \in Repairs :
             rules' = Append(rules, BuildRule(Head(work).source, item, repair))
      BY <2>2 DEF Build
    <3>. QED
      BY <3>1, BuiltRulesAreHarmless
  <2>. QED
    BY <2>1, <2>2
<1> DEFINE n == Len(rules)
<1>3. /\ IsSequence(rules) /\ IsSequence(work) /\ request \in Requests
      /\ n \in Nat /\ DOMAIN rules = 1..n
  BY Shaped DEF ReviewInv
<1>4. /\ IsSequence(rules') /\ Len(rules') = n + 1 /\ DOMAIN rules' = 1..(n + 1)
      /\ \A i \in 1..n : rules'[i] = rules[i]
      /\ rules'[n + 1] = rule
  BY <1>2, <1>3, Appended
<1> DEFINE m == Len(work)
<1>5. /\ Head(work) = work[1] /\ m \in Nat \ {0} /\ IsSequence(work') /\ DOMAIN work' = 1..(m - 1)
      /\ \A i \in 1..(m - 1) : work'[i] = work[i + 1]
  BY <1>1, <1>3, Shortened
<1>6. DOMAIN work = 1..m
  BY <1>3, Shaped
<1>7. ProxiesNeverApplied'
  <2>1. /\ \A r \in Range(rules) : Harmless(r)
        /\ \A expr \in admitted : \A l \in LiteralsOf(expr) : ~High(l)
    BY ExpressionsInForce DEF ReviewInv
  <2>2. \A i \in DOMAIN rules' : rules'[i] = rule \/ rules'[i] \in Range(rules)
    <3>1. \A i \in 1..(n + 1) : i = n + 1 \/ i \in 1..n
      BY <1>3
    <3>. HIDE DEF n
    <3>. QED
      BY <1>3, <1>4, <3>1 DEF Range
  <2>3. \A r \in Range(rules') : Harmless(r)
    BY <1>2, <2>1, <2>2 DEF Range
  <2>. QED
    BY <1>1, <2>1, <2>3 DEF ProxiesNeverApplied, InForce, Applied, Harmless
<1>8. TextsKeepTheirAnswers'
  <2>. SUFFICES ASSUME NEW i \in DOMAIN request.texts
       PROVE  /\ i <= n + 1 => i \in DOMAIN rules' /\ rules'[i].source = request.texts[i]
              /\ i > n + 1 => /\ i - (n + 1) \in DOMAIN work'
                              /\ work'[i - (n + 1)].source = request.texts[i]
                              /\ \A item \in work'[i - (n + 1)].items : item.index = i
    BY <1>1, <1>4 DEF TextsKeepTheirAnswers
  <2>1. i \in Nat \ {0}
    BY <1>3, RequestsAreLists, Shaped
  <2>2. /\ i <= n => i \in DOMAIN rules /\ rules[i].source = request.texts[i]
        /\ i > n => /\ i - n \in DOMAIN work /\ work[i - n].source = request.texts[i]
                    /\ \A item \in work[i - n].items : item.index = i
    BY <1>1 DEF ReviewInv, TextsKeepTheirAnswers
  <2>. HIDE DEF n, m
  <2>3. CASE i <= n
    BY <1>3, <1>4, <2>1, <2>2, <2>3
  <2>4. CASE i = n + 1
    <3>1. i > n /\ i - n = 1 /\ i \in 1..(n + 1)
      BY <1>3, <2>4
    <3>2. work[1].source = request.texts[i]
      BY <2>2, <3>1
    <3>3. ~(i > n + 1)
      BY <1>3, <2>4
    <3>. QED
      BY <1>2, <1>4, <1>5, <2>4, <3>1, <3>2, <3>3
  <2>5. CASE i > n + 1
    <3>1. i > n /\ i - n \in 1..m
      BY <1>3, <1>6, <2>1, <2>2, <2>5
    <3>2. i - (n + 1) \in 1..(m - 1) /\ (i - (n + 1)) + 1 = i - n
      BY <1>3, <1>5, <2>1, <2>5, <3>1
    <3>3. work'[i - (n + 1)] = work[i - n]
      BY <1>5, <3>2
    <3>4. ~(i <= n + 1)
      BY <1>3, <2>1, <2>5
    <3>. QED
      BY <1>5, <2>2, <3>1, <3>2, <3>3, <3>4
  <2>. QED
    BY <1>3, <2>1, <2>3, <2>4, <2>5
<1>. QED
  BY <1>1, <1>3, <1>4, <1>5, <1>7, <1>8 DEF ReviewInv

\* The work is over when a rule has been built for every text.
LEMMA FinishKeeps == ReviewInv /\ Finish => ReviewInv'
<1>. SUFFICES ASSUME ReviewInv, Finish PROVE ReviewInv'
  OBVIOUS
<1>1. /\ pc = "building" /\ work = <<>> /\ pc' = "done" /\ UNCHANGED <<request, work, rules, admitted>>
  BY DEF Finish
<1>2. ProxiesNeverApplied'
  BY <1>1 DEF ReviewInv, ProxiesNeverApplied, InForce, Applied
<1>3. ASSUME NEW i \in DOMAIN request.texts
      PROVE  i \in DOMAIN rules /\ rules[i].source = request.texts[i]
  <2>1. i \in Nat /\ Len(rules) \in Nat
    BY RequestsAreLists, Shaped DEF ReviewInv
  <2>2. DOMAIN work = {}
    BY <1>1
  <2>3. ~(i > Len(rules))
    BY <1>1, <2>2 DEF ReviewInv, TextsKeepTheirAnswers
  <2>. QED
    BY <2>1, <2>3 DEF ReviewInv, TextsKeepTheirAnswers
<1>4. TextsKeepTheirAnswers'
  BY <1>1, <1>3 DEF TextsKeepTheirAnswers
<1>. QED
  BY <1>1, <1>2, <1>4 DEF ReviewInv

LEMMA QueryKeeps == ReviewInv /\ RunQuery => ReviewInv'
<1>. SUFFICES ASSUME ReviewInv, RunQuery PROVE ReviewInv'
  OBVIOUS
<1>1. PICK text \in Queries : admitted' = Admits(text)
  BY DEF RunQuery
<1>2. pc = "done" /\ UNCHANGED <<request, work, rules, pc>>
  BY DEF RunQuery
<1>3. ASSUME NEW expr \in admitted', NEW l \in LiteralsOf(expr)
      PROVE  ~High(l)
  <2> DEFINE findings == UNION {scan_patterns(q) : q \in LiteralsOf(expr)}
  <2>1. RiskOf(findings) # "high"
    BY <1>1 DEF Admits
  <2>2. \A f \in findings : f.risk \in {"review", "high"}
    BY ScansAreRisky
  <2>3. scan_patterns(l) \subseteq findings
    OBVIOUS
  <2>. HIDE DEF findings
  <2>4. \A f \in findings : f.risk # "high"
    BY <2>1, <2>2, RiskIsTheGreatest
  <2>. QED
    BY <2>3, <2>4 DEF High
<1>4. ProxiesNeverApplied'
  <2>1. \A r \in Range(rules') : Harmless(r)
    BY <1>2, ExpressionsInForce DEF ReviewInv
  <2>. QED
    BY <1>3, <2>1 DEF ProxiesNeverApplied, InForce, Applied, Harmless
<1>5. TextsKeepTheirAnswers'
  BY <1>2 DEF ReviewInv, TextsKeepTheirAnswers
<1>. QED
  BY <1>2, <1>4, <1>5 DEF ReviewInv

LEMMA StutteringKeeps == ReviewInv /\ UNCHANGED vars => ReviewInv'
BY DEF ReviewInv, vars, ProxiesNeverApplied, InForce, Applied, TextsKeepTheirAnswers

-----------------------------------------------------------------------------
(* What it comes to.                                                       *)

\* Rules are built one by one, each for the text at the head of the work, and
\* none of them holds a proxy of high risk if it is applied.
THEOREM ReviewIsConsistent == Spec => []ReviewInv
<1>1. ReviewInv /\ [Next]_vars => ReviewInv'
  BY AnswersKeep, UnavailableKeeps, BuildKeeps, FinishKeeps, QueryKeeps, StutteringKeeps DEF Next
<1>. QED
  BY <1>1, ReviewStarts, PTL DEF Spec

\* Whatever items, assessments and repairs the model returns, and whatever the
\* language reads in them, no rule or query in force holds a phrase of high risk.
THEOREM NoProxyIsApplied == Spec => []ProxiesNeverApplied
<1>1. ReviewInv => ProxiesNeverApplied
  BY DEF ReviewInv
<1>. QED
  BY <1>1, ReviewIsConsistent, PTL

\* However many items the model returns and however it numbers them, the rule at a
\* text's position is that text's, built from an item with its number.
THEOREM AnswersFindTheirTexts == Spec => []TextsKeepTheirAnswers
<1>1. ReviewInv => TextsKeepTheirAnswers
  BY DEF ReviewInv
<1>. QED
  BY <1>1, ReviewIsConsistent, PTL
=============================================================================
