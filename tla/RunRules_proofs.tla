-------------------------- MODULE RunRules_proofs --------------------------
(***************************************************************************)
(* What holds of a run's rule edits and screenings however they interleave,*)
(* for any numbers of requests, threads, candidates and rules.             *)
(***************************************************************************)
EXTENDS RunRules, FiniteSetTheorems, TLAPS

USE RunAssumption

-----------------------------------------------------------------------------
(* The numbering of rules.                                                 *)

LEMMA MinOfNaturals ==
  ASSUME NEW S \in SUBSET Nat, S # {}
  PROVE  Min(S) \in S
<1> DEFINE less == {pair \in Nat \X Nat : pair[1] < pair[2]}
<1>1. IsWellFoundedOn(less, Nat)
  BY NatLessThanWellFounded DEF OpToRel
<1>2. PICK x \in S : \A y \in S : <<y, x>> \notin less
  <2> HIDE DEF less
  <2> QED
    BY <1>1, WFMin
<1>3. ASSUME NEW y \in S PROVE x =< y
  <2>1. x \in Nat /\ y \in Nat
    OBVIOUS
  <2>2. CASE y < x
    <3>1. <<y, x>> \in Nat \X Nat /\ <<y, x>>[1] < <<y, x>>[2]
      BY <2>1, <2>2
    <3> QED
      BY <1>2, <3>1
  <2>3. CASE ~ (y < x)
    BY <2>1, <2>3
  <2> QED
    BY <2>2, <2>3
<1> QED
  BY <1>3 DEF Min

\* There are at most n ids among n rules.
LEMMA IdsAreFew ==
  ASSUME NEW S, IsFiniteSet(S)
  PROVE  IsFiniteSet(Ids(S)) /\ Cardinality(Ids(S)) =< Cardinality(S)
<1> DEFINE f == [rule \in S |-> rule.id]
<1>1. f \in Surjection(S, Ids(S))
  BY DEF Surjection, Ids
<1> QED
  BY <1>1, FS_Surjection

\* add_rule's loop ends, at a number that no rule of the set has.
LEMMA NewIdIsFree ==
  ASSUME NEW S, IsFiniteSet(S)
  PROVE  NewId(S) \in Nat \ Ids(S)
<1> DEFINE n == Cardinality(S)
           candidates == (n + 1)..(2 * n + 1)
<1>1. n \in Nat
  BY FS_CardinalityType
<1>2. Cardinality(candidates) = n + 1
  <2> n + 1 \in Int /\ 2 * n + 1 \in Int /\ ~ (n + 1 > 2 * n + 1) /\ (2 * n + 1) - (n + 1) + 1 = n + 1
    BY <1>1
  <2> HIDE DEF n
  <2> QED
    BY FS_Interval
<1>3. ~ (candidates \subseteq Ids(S))
  <2> SUFFICES ASSUME candidates \subseteq Ids(S) PROVE FALSE
    OBVIOUS
  <2>1. Cardinality(candidates) =< Cardinality(Ids(S)) /\ Cardinality(Ids(S)) =< n
    BY IdsAreFew, FS_Subset
  <2>2. Cardinality(Ids(S)) \in Nat
    BY IdsAreFew, FS_CardinalityType
  <2> HIDE DEF n, candidates
  <2> QED
    BY <1>1, <1>2, <2>1, <2>2
<1>4. candidates \ Ids(S) # {} /\ candidates \ Ids(S) \in SUBSET Nat
  BY <1>1, <1>3
<1>5. Min(candidates \ Ids(S)) \in candidates \ Ids(S)
  <2> HIDE DEF n, candidates
  <2> QED
    BY <1>4, MinOfNaturals
<1> QED
  BY <1>4, <1>5 DEF NewId

-----------------------------------------------------------------------------
(* Types.                                                                  *)

LEMMA NoResultType == NoResult \in ResultRows
  BY DEF NoResult, ResultRows, RuleSets

LEMMA InitRun == Init => RunInv
<1> SUFFICES ASSUME Init PROVE RunInv
  OBVIOUS
<1>1. IdleThread.pc = "idle" /\ IdleThread.task = "execute"
  BY DEF IdleThread
<1>2. TypeOK
  BY NoResultType DEF Init, TypeOK, ThreadStates, RequestStates, IdleThread, NewRequest, NoRule, RuleType, RuleSets
<1>3. IsFiniteSet({})
  BY FS_EmptySet
<1>4. Numbered(rules) /\ \A r \in Requests : Numbered(request[r].seen)
  BY <1>3 DEF Init, Numbered, NewRequest
<1>5. tasks # <<>>
  BY DEF Init
<1> QED
  BY <1>2, <1>4, <1>5 DEF RunInv, SomebodyWorks

LEMMA PlanType == PlanRules \in RuleSets /\ Numbered(PlanRules)
<1>1. PlanRules \in RuleSets
  BY DEF PlanRules, RuleSets, RuleType
<1>2. \A x, y \in PlanRules : x.id = y.id => x = y
  BY DEF PlanRules
<1>3. IsFiniteSet(PlanRules)
  <2> DEFINE f == [i \in PlanIds |-> [id |-> i, by |-> "plan"]]
  <2>1. f \in Surjection(PlanIds, PlanRules)
    BY DEF Surjection, PlanRules
  <2> QED
    BY <2>1, FS_Surjection
<1> QED
  BY <1>1, <1>2, <1>3 DEF Numbered

\* A step of one request or thread replaces its state by one of the same type.
LEMMA OneRequest ==
  ASSUME TypeOK, NEW r \in Requests, NEW next \in RequestStates,
         request' = [request EXCEPT ![r] = next]
  PROVE  request' \in [Requests -> RequestStates]
  BY DEF TypeOK

LEMMA OneThread ==
  ASSUME TypeOK, NEW t \in Threads, NEW next \in ThreadStates,
         thread' = [thread EXCEPT ![t] = next]
  PROVE  thread' \in [Threads -> ThreadStates]
  BY DEF TypeOK

LEMMA RequestType ==
  ASSUME RunInv, NEW r \in Requests, Send(r) \/ RequestStep(r)
  PROVE  TypeOK'
<1> DEFINE now == request[r]
<1>0. TypeOK /\ now \in RequestStates /\ {} \in RuleSets
  BY DEF RunInv, TypeOK, RuleSets
<1>1. CASE Send(r)
  <2>1. PICK kind \in {"add", "remove"}, rule \in rules \cup {NoRule} :
           request' = [request EXCEPT ![r] =
               [pc   |-> IF status = "RUNNING" THEN "refused" ELSE "checked",
                kind |-> kind, rule |-> rule, seen |-> {},
                hasty |-> ~(IsSettled /\ InFlight = {})]]
    BY <1>1 DEF Send
  <2>2. rule \in RuleType
    BY <1>0 DEF TypeOK, RuleSets, RuleType, NoRule
  <2>3. [pc |-> IF status = "RUNNING" THEN "refused" ELSE "checked",
         kind |-> kind, rule |-> rule, seen |-> {},
         hasty |-> ~(IsSettled /\ InFlight = {})] \in RequestStates
    BY <1>0, <2>2 DEF RequestStates
  <2> QED
    BY <1>0, <1>1, <2>1, <2>3, OneRequest DEF Send, table, TypeOK
<1>2. CASE ReadRules(r)
  <2>1. PICK pc \in {"read", "refused"}, seen \in {rules, {}} :
           request' = [request EXCEPT ![r] = [now EXCEPT !.pc = pc, !.seen = seen]]
    BY <1>0, <1>2 DEF ReadRules, TypeOK
  <2>2. [now EXCEPT !.pc = pc, !.seen = seen] \in RequestStates
    BY <1>0 DEF RequestStates, TypeOK
  <2> QED
    BY <1>0, <1>2, <2>1, <2>2, OneRequest DEF ReadRules, table, TypeOK
<1>3. CASE RefuseRule(r)
  <2>1. request' = [request EXCEPT ![r] = [now EXCEPT !.pc = "refused", !.seen = {}]]
    BY <1>0, <1>3 DEF RefuseRule, TypeOK
  <2>2. [now EXCEPT !.pc = "refused", !.seen = {}] \in RequestStates
    BY <1>0 DEF RequestStates
  <2> QED
    BY <1>0, <1>3, <2>1, <2>2, OneRequest DEF RefuseRule, table, TypeOK
<1>4. CASE AddRule(r)
  <2> DEFINE rule == [id |-> NewId(now.seen), by |-> r]
             next == [now EXCEPT !.pc = "edited", !.rule = rule, !.seen = {}]
  <2>1. NewId(now.seen) \in Nat
    BY NewIdIsFree DEF RunInv, Numbered
  <2>2. rule \in RuleType
    BY <2>1 DEF RuleType
  <2>3. next \in RequestStates /\ now.seen \cup {rule} \in RuleSets
    <3> HIDE DEF rule
    <3> QED
      BY <1>0, <2>2 DEF RequestStates, RuleSets
  <2>4. request' = [request EXCEPT ![r] = next] /\ rules' = now.seen \cup {rule}
    BY <1>0, <1>4 DEF AddRule, TypeOK
  <2> HIDE DEF next, rule
  <2> QED
    BY <1>0, <1>4, <2>3, <2>4, OneRequest DEF AddRule, TypeOK
<1>5. CASE RemoveRule(r)
  <2>1. request' = [request EXCEPT ![r] = [now EXCEPT !.pc = "edited", !.seen = {}]]
    BY <1>0, <1>5 DEF RemoveRule, TypeOK
  <2>2. [now EXCEPT !.pc = "edited", !.seen = {}] \in RequestStates /\ rules' \in RuleSets
    BY <1>0, <1>5 DEF RequestStates, RemoveRule, RuleSets
  <2> QED
    BY <1>0, <1>5, <2>1, <2>2, OneRequest DEF RemoveRule, TypeOK
<1>6. CASE QueueRescreen(r)
  <2>1. PICK pc \in {"queued", "done"} : request' = [request EXCEPT ![r] = [now EXCEPT !.pc = pc]]
    BY <1>0, <1>6 DEF QueueRescreen, TypeOK
  <2>2. [now EXCEPT !.pc = pc] \in RequestStates
    BY <1>0 DEF RequestStates
  <2> QED
    <3>1. request' \in [Requests -> RequestStates]
      BY <1>0, <2>1, <2>2, OneRequest
    <3>2. /\ UNCHANGED <<rules, shortlist, result, thread>>
          /\ status' \in {status, "QUEUED"} /\ tasks' \in {tasks, Append(tasks, r)}
      BY <1>6 DEF QueueRescreen, table
    <3>3. tasks' \in Seq(Requests \cup {"execute"})
      BY <1>0, <3>2 DEF TypeOK
    <3> QED
      BY <1>0, <3>1, <3>2, <3>3 DEF TypeOK
<1> QED
  BY <1>1, <1>2, <1>3, <1>4, <1>5, <1>6 DEF RequestStep

LEMMA ThreadType ==
  ASSUME RunInv, NEW t \in Threads, ThreadStep(t)
  PROVE  TypeOK'
<1> DEFINE now == thread[t]
<1>0. TypeOK /\ now \in ThreadStates /\ {} \in RuleSets
  BY DEF RunInv, TypeOK, RuleSets
<1>1. CASE Take(t)
  <2>1. Head(tasks) \in Requests \cup {"execute"} /\ Tail(tasks) \in Seq(Requests \cup {"execute"})
    BY <1>0, <1>1 DEF Take, TypeOK
  <2>2. PICK next \in ThreadStates : thread' = [thread EXCEPT ![t] = next]
    <3> DEFINE next == [IdleThread EXCEPT !.task = Head(tasks),
                          !.pc = IF Head(tasks) = "execute" THEN "starting" ELSE "reading"]
    <3>1. next \in ThreadStates
      BY <1>0, <2>1 DEF IdleThread, ThreadStates
    <3>2. thread' = [thread EXCEPT ![t] = next]
      BY <1>1 DEF Take
    <3> QED
      BY <3>1, <3>2
  <2> QED
    <3>1. tasks' = Tail(tasks) /\ UNCHANGED <<status, rules, shortlist, result, request>>
      BY <1>1 DEF Take, table
    <3>2. thread' \in [Threads -> ThreadStates]
      BY <1>0, <2>2, OneThread
    <3> QED
      BY <1>0, <2>1, <3>1, <3>2 DEF TypeOK
<1>2. CASE ReadRuleSet(t)
  <2>1. thread' = [thread EXCEPT ![t] = [now EXCEPT !.pc = "starting", !.rules = rules]]
    BY <1>0, <1>2 DEF ReadRuleSet, TypeOK
  <2>2. [now EXCEPT !.pc = "starting", !.rules = rules] \in ThreadStates
    BY <1>0 DEF ThreadStates, TypeOK
  <2> QED
    BY <1>0, <1>2, <2>1, <2>2, OneThread DEF ReadRuleSet, table, TypeOK
<1>3. CASE Start(t)
  <2>1. PICK pc \in {"compiling", "clearing"} : thread' = [thread EXCEPT ![t] = [now EXCEPT !.pc = pc]]
    BY <1>0, <1>3 DEF Start, TypeOK
  <2>2. [now EXCEPT !.pc = pc] \in ThreadStates
    BY <1>0 DEF ThreadStates
  <2> QED
    BY <1>0, <1>3, <2>1, <2>2, OneThread DEF Start, TypeOK
<1>4. CASE CompileRules(t)
  <2>1. thread' = [thread EXCEPT ![t] = [now EXCEPT !.pc = "clearing", !.rules = PlanRules]]
    BY <1>0, <1>4 DEF CompileRules, TypeOK
  <2>2. [now EXCEPT !.pc = "clearing", !.rules = PlanRules] \in ThreadStates
    BY <1>0, PlanType DEF ThreadStates
  <2> QED
    BY <1>0, <1>4, <2>1, <2>2, PlanType, OneThread DEF CompileRules, TypeOK
<1>5. CASE ClearResults(t)
  <2>1. thread' = [thread EXCEPT ![t] = [now EXCEPT !.pc = "screening", !.todo = Candidates]]
    BY <1>0, <1>5 DEF ClearResults, TypeOK
  <2>2. [now EXCEPT !.pc = "screening", !.todo = Candidates] \in ThreadStates
    BY <1>0 DEF ThreadStates
  <2>3. result' \in [Candidates -> ResultRows]
    BY <1>5, NoResultType DEF ClearResults
  <2> QED
    BY <1>0, <1>5, <2>1, <2>2, <2>3, OneThread DEF ClearResults, TypeOK
<1>6. ASSUME NEW c \in Candidates, PutResult(t, c) PROVE TypeOK'
  <2>1. PICK outcome \in {"eligible", "excluded"}, eligible \in {now.eligible, now.eligible \cup {c}} :
           /\ result' = [result EXCEPT ![c] = [result[c] EXCEPT !.outcome = outcome, !.under = now.rules]]
           /\ thread' = [thread EXCEPT ![t] = [now EXCEPT !.todo = now.todo \ {c}, !.eligible = eligible]]
    BY <1>0, <1>6 DEF PutResult, TypeOK
  <2>2. [now EXCEPT !.todo = now.todo \ {c}, !.eligible = eligible] \in ThreadStates
    BY <1>0 DEF ThreadStates
  <2>3. result[c] \in ResultRows /\ now.rules \in RuleSets
    BY <1>0 DEF TypeOK, ThreadStates
  <2>4. [result[c] EXCEPT !.outcome = outcome, !.under = now.rules] \in ResultRows
    BY <2>3 DEF ResultRows
  <2>5. result' \in [Candidates -> ResultRows]
    BY <1>0, <2>1, <2>4 DEF TypeOK
  <2> QED
    BY <1>0, <1>6, <2>1, <2>2, <2>5, OneThread DEF PutResult, TypeOK
<1>7. ASSUME NEW c \in Candidates, SetScore(t, c) PROVE TypeOK'
  <2>1. thread' = [thread EXCEPT ![t] = [now EXCEPT !.todo = now.todo \ {c}]]
    BY <1>0, <1>7 DEF SetScore, TypeOK
  <2>2. [now EXCEPT !.todo = now.todo \ {c}] \in ThreadStates
    BY <1>0 DEF ThreadStates
  <2>3. result[c] \in ResultRows /\ now.rules \in RuleSets
    BY <1>0 DEF TypeOK, ThreadStates
  <2>4. result[c].outcome # "none" => [result[c] EXCEPT !.scored = {now.rules}] \in ResultRows
    BY <2>3 DEF ResultRows, NoResult
  <2>5. result' \in [Candidates -> ResultRows]
    BY <1>0, <1>7, <2>3, <2>4 DEF SetScore, TypeOK
  <2> QED
    BY <1>0, <1>7, <2>1, <2>2, <2>5, OneThread DEF SetScore, TypeOK
<1>8. CASE Rank(t)
  <2>1. thread' = [thread EXCEPT ![t] = [now EXCEPT !.pc = "scoring", !.todo = now.eligible]]
    BY <1>0, <1>8 DEF Rank, TypeOK
  <2>2. [now EXCEPT !.pc = "scoring", !.todo = now.eligible] \in ThreadStates
    BY <1>0 DEF ThreadStates
  <2> QED
    BY <1>0, <1>8, <2>1, <2>2, OneThread DEF Rank, table, TypeOK
<1>9. CASE CutShortlist(t)
  <2>1. thread' = [thread EXCEPT ![t] = [now EXCEPT !.pc = "completing"]]
    BY <1>0, <1>9 DEF CutShortlist, TypeOK
  <2>2. [now EXCEPT !.pc = "completing"] \in ThreadStates /\ now.rules \in RuleSets
    BY <1>0 DEF ThreadStates
  <2> QED
    BY <1>0, <1>9, <2>1, <2>2, OneThread DEF CutShortlist, TypeOK
<1>10. CASE Complete(t) \/ Fail(t)
  <2>1. IdleThread \in ThreadStates
    BY <1>0 DEF IdleThread, ThreadStates
  <2> QED
    BY <1>0, <1>10, <2>1, OneThread DEF Complete, Fail, TypeOK
<1> QED
  BY <1>1, <1>2, <1>3, <1>4, <1>5, <1>6, <1>7, <1>8, <1>9, <1>10 DEF ThreadStep

-----------------------------------------------------------------------------
(* Numbering and work.                                                     *)

\* Only requests and the compilation write a rule set.
LEMMA NumberedStep ==
  ASSUME RunInv, Next
  PROVE  Numbered(rules)' /\ \A q \in Requests : Numbered(request[q].seen)'
<1> USE DEF table
<1>0. /\ Numbered({}) /\ Numbered(rules) /\ \A q \in Requests : Numbered(request[q].seen)
      /\ request \in [Requests -> RequestStates]
  BY FS_EmptySet DEF Numbered, RunInv, TypeOK
<1>1. ASSUME NEW r \in Requests, AddRule(r)
      PROVE  Numbered(rules)' /\ \A q \in Requests : Numbered(request[q].seen)'
  <2> DEFINE seen == request[r].seen
             rule == [id |-> NewId(seen), by |-> r]
  <2>1. Numbered(seen)
    BY <1>0
  <2>2. \A x \in seen : x.id # rule.id
    BY <2>1, NewIdIsFree DEF Numbered, Ids
  <2>3. IsFiniteSet(seen \cup {rule})
    <3> HIDE DEF rule, seen
    <3> QED
      BY <2>1, FS_AddElement DEF Numbered
  <2>4. Numbered(seen \cup {rule})
    <3> HIDE DEF rule, seen
    <3> QED
      BY <2>1, <2>2, <2>3 DEF Numbered
  <2>5. rules' = seen \cup {rule} /\ \A q \in Requests : request'[q].seen \in {request[q].seen, {}}
    BY <1>0, <1>1 DEF AddRule, RequestStates
  <2> QED
    BY <1>0, <2>4, <2>5
<1>2. ASSUME NEW r \in Requests, RemoveRule(r)
      PROVE  Numbered(rules)' /\ \A q \in Requests : Numbered(request[q].seen)'
  <2>1. rules' \in SUBSET request[r].seen /\ \A q \in Requests : request'[q].seen \in {request[q].seen, {}}
    BY <1>0, <1>2 DEF RemoveRule, RequestStates
  <2>2. Numbered(rules')
    BY <1>0, <2>1, FS_Subset DEF Numbered
  <2> QED
    BY <1>0, <2>1, <2>2
<1>3. ASSUME NEW t \in Threads, CompileRules(t)
      PROVE  Numbered(rules)' /\ \A q \in Requests : Numbered(request[q].seen)'
  BY <1>0, <1>3, PlanType DEF CompileRules
<1>4. ASSUME NEW r \in Requests, Send(r) \/ ReadRules(r) \/ RefuseRule(r) \/ QueueRescreen(r)
      PROVE  Numbered(rules)' /\ \A q \in Requests : Numbered(request[q].seen)'
  <2>1. rules' = rules
    BY <1>4 DEF Send, ReadRules, RefuseRule, QueueRescreen
  <2>2. ASSUME NEW seen \in {request[r].seen, rules, {}}, NEW next, next.seen = seen,
               request' = [request EXCEPT ![r] = next]
        PROVE  \A q \in Requests : Numbered(request[q].seen)'
    BY <1>0, <2>2
  <2>3. CASE Send(r)
    <3>1. PICK kind, rule : request' = [request EXCEPT ![r] =
               [pc   |-> IF status = "RUNNING" THEN "refused" ELSE "checked",
                kind |-> kind, rule |-> rule, seen |-> {},
                hasty |-> ~(IsSettled /\ InFlight = {})]]
      BY <2>3 DEF Send
    <3> QED
      BY <1>0, <2>1, <2>2, <3>1
  <2>4. CASE ReadRules(r)
    <3>1. PICK pc \in {"read", "refused"}, seen \in {rules, {}} :
             request' = [request EXCEPT ![r] = [request[r] EXCEPT !.pc = pc, !.seen = seen]]
      BY <1>0, <2>4 DEF ReadRules
    <3>2. [request[r] EXCEPT !.pc = pc, !.seen = seen].seen = seen
      BY <1>0 DEF RequestStates
    <3> QED
      BY <1>0, <2>1, <2>2, <3>1, <3>2
  <2>5. CASE RefuseRule(r)
    <3>1. request' = [request EXCEPT ![r] = [request[r] EXCEPT !.pc = "refused", !.seen = {}]]
      BY <1>0, <2>5 DEF RefuseRule
    <3>2. [request[r] EXCEPT !.pc = "refused", !.seen = {}].seen = {}
      BY <1>0 DEF RequestStates
    <3> QED
      BY <1>0, <2>1, <2>2, <3>1, <3>2
  <2>6. CASE QueueRescreen(r)
    <3>1. PICK pc : request' = [request EXCEPT ![r] = [request[r] EXCEPT !.pc = pc]]
      BY <1>0, <2>6 DEF QueueRescreen
    <3>2. [request[r] EXCEPT !.pc = pc].seen = request[r].seen
      BY <1>0 DEF RequestStates
    <3> QED
      BY <1>0, <2>1, <2>2, <3>1, <3>2
  <2> QED
    BY <1>4, <2>3, <2>4, <2>5, <2>6
<1>5. ASSUME NEW t \in Threads, ThreadStep(t), ~ CompileRules(t)
      PROVE  Numbered(rules)' /\ \A q \in Requests : Numbered(request[q].seen)'
  <2>1. UNCHANGED <<rules, request>>
    BY <1>5 DEF ThreadStep, Take, ReadRuleSet, Start, ClearResults, PutResult, Rank, SetScore,
                CutShortlist, Complete, Fail
  <2> QED
    BY <1>0, <2>1
<1> QED
  BY <1>1, <1>2, <1>3, <1>4, <1>5 DEF Next, RequestStep

\* A status is unsettled only by somebody who has still to settle it.
LEMMA WorkStep ==
  ASSUME RunInv, Next
  PROVE  (IsSettled \/ SomebodyWorks)'
<1> USE DEF RunInv, TypeOK, table
<1>1. ASSUME NEW r \in Requests, QueueRescreen(r) PROVE SomebodyWorks'
  <2>1. CASE request[r].pc = "edited"
    <3>1. request'[r].pc = "queued"
      BY <1>1, <2>1 DEF QueueRescreen, RequestStates
    <3> QED
      BY <3>1 DEF SomebodyWorks
  <2>2. CASE request[r].pc = "queued"
    <3>1. tasks' = Append(tasks, r)
      BY <1>1, <2>2 DEF QueueRescreen
    <3>2. tasks' # <<>>
      BY <3>1
    <3> QED
      BY <3>2 DEF SomebodyWorks
  <2> QED
    BY <1>1, <2>1, <2>2 DEF QueueRescreen
<1>2. ASSUME NEW r \in Requests, Send(r) \/ ReadRules(r) \/ RefuseRule(r) \/ AddRule(r) \/ RemoveRule(r)
      PROVE  (IsSettled \/ SomebodyWorks)'
  <2>1. UNCHANGED <<status, tasks, thread>>
    BY <1>2 DEF Send, ReadRules, RefuseRule, AddRule, RemoveRule
  <2>2. \A q \in Requests : request[q].pc = "queued" => request'[q].pc = "queued"
    BY <1>2 DEF Send, ReadRules, RefuseRule, AddRule, RemoveRule
  <2> QED
    BY <2>1, <2>2 DEF IsSettled, SomebodyWorks
<1>3. ASSUME NEW t \in Threads, ThreadStep(t), ~ Complete(t), ~ Fail(t) PROVE SomebodyWorks'
  <2>1. CASE Take(t)
    BY <2>1 DEF Take, IdleThread, SomebodyWorks
  <2>2. CASE ReadRuleSet(t) \/ Start(t) \/ CompileRules(t) \/ ClearResults(t) \/ Rank(t) \/ CutShortlist(t)
    <3>1. thread'[t].pc # "idle"
      BY <2>2 DEF ReadRuleSet, Start, CompileRules, ClearResults, Rank, CutShortlist, ThreadStates
    <3> QED
      BY <3>1 DEF SomebodyWorks
  <2>3. ASSUME NEW c \in Candidates, PutResult(t, c) \/ SetScore(t, c) PROVE SomebodyWorks'
    <3>1. thread'[t].pc = thread[t].pc /\ thread[t].pc # "idle"
      BY <2>3 DEF PutResult, SetScore, ThreadStates
    <3> QED
      BY <3>1 DEF SomebodyWorks
  <2> QED
    BY <1>3, <2>1, <2>2, <2>3 DEF ThreadStep
<1>4. ASSUME NEW t \in Threads, Complete(t) \/ Fail(t) PROVE IsSettled'
  BY <1>4 DEF Complete, Fail, IsSettled
<1> QED
  BY <1>1, <1>2, <1>3, <1>4 DEF Next, RequestStep

\* The inductive invariant of a run: see RunInv.
THEOREM RunInductive == Spec => []RunInv
<1>1. ASSUME RunInv, [Next]_vars PROVE RunInv'
  <2>1. CASE Next
    <3>1. TypeOK'
      BY <1>1, <2>1, RequestType, ThreadType DEF Next
    <3>2. Numbered(rules)' /\ (\A q \in Requests : Numbered(request[q].seen)') /\ (IsSettled \/ SomebodyWorks)'
      BY <1>1, <2>1, NumberedStep, WorkStep
    <3> QED
      BY <3>1, <3>2 DEF RunInv
  <2>2. CASE UNCHANGED vars
    BY <1>1, <2>2 DEF vars, table, RunInv, TypeOK, Numbered, IsSettled, SomebodyWorks
  <2> QED
    BY <1>1, <2>1, <2>2
<1> QED
  BY <1>1, InitRun, PTL DEF Spec

\* Every variable keeps its type.
THEOREM RunTypeCorrect == Spec => []TypeOK
<1>1. RunInv => TypeOK
  BY DEF RunInv
<1> QED
  BY <1>1, RunInductive, PTL

\* However edits and screenings interleave, no two rules of a run share an id
\* (add_rule, and the whole-set writes of add_rule and remove_rule).
THEOREM RuleIdsAreUnique == Spec => []IdsAreUnique
<1>1. RunInv => IdsAreUnique
  BY DEF RunInv, IdsAreUnique, Numbered
<1> QED
  BY <1>1, RunInductive, PTL

\* A run that nobody works on is complete or failed: the API queues before it
\* submits, and both ways out of execute_run and rescreen settle the status.
THEOREM QuietRunsSettle == Spec => []QuietRunsAreSettled
<1>1. RunInv => QuietRunsAreSettled
  BY DEF RunInv, QuietRunsAreSettled, Quiet, InFlight, SomebodyWorks
<1> QED
  BY <1>1, RunInductive, PTL

-----------------------------------------------------------------------------
(* Patient clients.                                                        *)

\* A request's step changes that request only, and once sent it stays sent.
LEMMA RequestSteps ==
  ASSUME RunInv, NEW r \in Requests, RequestStep(r)
  PROVE  /\ \A q \in Requests \ {r} : request'[q] = request[q]
         /\ request[r].pc \in {"checked", "read", "edited", "queued"}
         /\ request'[r].pc \in {"read", "refused", "edited", "queued", "done"}
         /\ request'[r].kind = request[r].kind /\ request'[r].hasty = request[r].hasty
         /\ UNCHANGED <<shortlist, result, thread>>
<1> USE DEF RunInv, TypeOK, RequestStates, table
<1>1. CASE ReadRules(r)  BY <1>1 DEF ReadRules
<1>2. CASE RefuseRule(r)  BY <1>2 DEF RefuseRule
<1>3. CASE AddRule(r)  BY <1>3 DEF AddRule
<1>4. CASE RemoveRule(r)  BY <1>4 DEF RemoveRule
<1>5. CASE QueueRescreen(r)  BY <1>5 DEF QueueRescreen
<1> QED  BY <1>1, <1>2, <1>3, <1>4, <1>5 DEF RequestStep

\* A thread's step changes no request, and no other thread.
LEMMA ThreadSteps ==
  ASSUME RunInv, NEW t \in Threads, ThreadStep(t)
  PROVE  UNCHANGED request /\ \A u \in Threads \ {t} : thread'[u] = thread[u]
BY DEF RunInv, TypeOK, table, ThreadStep, Take, ReadRuleSet, Start, CompileRules, ClearResults,
       PutResult, Rank, SetScore, CutShortlist, Complete, Fail

\* What a client sends is known to be hasty or not from then on.
LEMMA SendSteps ==
  ASSUME RunInv, NEW r \in Requests, Send(r)
  PROVE  /\ \A q \in Requests \ {r} : request'[q] = request[q]
         /\ request[r].pc = "new"
         /\ request'[r].pc = IF status = "RUNNING" THEN "refused" ELSE "checked"
         /\ request'[r].hasty = ~(IsSettled /\ InFlight = {})
         /\ request'[r].rule \in rules \cup {NoRule}
         /\ request'[r].kind = "remove" => request'[r].rule \in rules
         /\ UNCHANGED <<status, rules, shortlist, result, tasks, thread>>
<1>1. PICK kind \in {"add", "remove"}, rule \in rules \cup {NoRule} :
        /\ (kind = "add") <=> (rule = NoRule)
        /\ request' = [request EXCEPT ![r] =
             [pc   |-> IF status = "RUNNING" THEN "refused" ELSE "checked",
              kind |-> kind, rule |-> rule, seen |-> {},
              hasty |-> ~(IsSettled /\ InFlight = {})]]
  BY DEF Send
<1> DEFINE sent == [pc   |-> IF status = "RUNNING" THEN "refused" ELSE "checked",
                    kind |-> kind, rule |-> rule, seen |-> {},
                    hasty |-> ~(IsSettled /\ InFlight = {})]
<1>2. request'[r] = sent /\ \A q \in Requests \ {r} : request'[q] = request[q]
  BY <1>1 DEF RunInv, TypeOK
<1>3. request'[r].hasty = ~(IsSettled /\ InFlight = {})  BY <1>2
<1>4. request'[r].kind = kind /\ request'[r].rule = rule
  BY <1>2
<1>5. request'[r].pc = IF status = "RUNNING" THEN "refused" ELSE "checked"  BY <1>2
<1> HIDE DEF sent
<1> QED  BY <1>1, <1>2, <1>3, <1>4, <1>5 DEF Send, table

\* Haste is remembered.
LEMMA PatienceIsNew ==
  ASSUME RunInv, NobodyIsHastyAtFirst, Next
  PROVE  (Patient' => Patient) /\ NobodyIsHastyAtFirst'
<1> USE DEF Patient, NobodyIsHastyAtFirst
<1>1. ASSUME NEW r \in Requests, Send(r)
      PROVE  (Patient' => Patient) /\ NobodyIsHastyAtFirst'
  <2>1. ~request[r].hasty /\ request'[r].pc # "new"  BY <1>1, SendSteps
  <2> QED  BY <1>1, <2>1, SendSteps
<1>2. ASSUME NEW r \in Requests, RequestStep(r)
      PROVE  (Patient' => Patient) /\ NobodyIsHastyAtFirst'
  <2>1. \A q \in Requests : request'[q].hasty = request[q].hasty  BY <1>2, RequestSteps
  <2>2. \A q \in Requests : request'[q].pc = "new" => request[q].pc = "new"
    BY <1>2, RequestSteps
  <2> QED  BY <2>1, <2>2
<1>3. ASSUME NEW t \in Threads, ThreadStep(t)
      PROVE  (Patient' => Patient) /\ NobodyIsHastyAtFirst'
  BY <1>3, ThreadSteps
<1> QED  BY <1>1, <1>2, <1>3 DEF Next

LEMMA EditingAlone ==
  ASSUME OneThingAtATime, NEW r \in InFlight
  PROVE  /\ tasks = <<>> /\ Active = {} /\ InFlight = {r}
         /\ IF request[r].pc = "queued" THEN status = "QUEUED" ELSE IsSettled
BY DEF OneThingAtATime, InFlight

LEMMA ScreeningAlone ==
  ASSUME OneThingAtATime, NEW t \in Active
  PROVE  /\ tasks = <<>> /\ InFlight = {} /\ Active = {t}
         /\ status = IF thread[t].pc \in {"reading", "starting"} THEN "QUEUED" ELSE "RUNNING"
BY DEF OneThingAtATime

LEMMA WaitingAlone ==
  ASSUME OneThingAtATime, tasks # <<>>
  PROVE  /\ InFlight = {} /\ Active = {} /\ status = "QUEUED"
         /\ \E task \in Requests \cup {"execute"} : tasks = <<task>>
BY DEF OneThingAtATime

LEMMA SettledAlone ==
  ASSUME OneThingAtATime, IsSettled, InFlight = {}
  PROVE  tasks = <<>> /\ Active = {}
BY DEF OneThingAtATime, IsSettled

-----------------------------------------------------------------------------
(* The steps of requests.                                                  *)

LEMMA SendOrderly ==
  ASSUME RunInv, Orderly, NEW r \in Requests, Send(r), ~request'[r].hasty
  PROVE  Orderly'
<1> USE DEF Orderly
<1>1. IsSettled /\ InFlight = {} /\ tasks = <<>> /\ Active = {}  BY SendSteps, SettledAlone
<1>2. /\ UNCHANGED <<status, rules, shortlist, result, tasks, thread>>
      /\ request[r].pc = "new" /\ request'[r].pc = "checked"
      /\ \A q \in Requests \ {r} : request'[q] = request[q]
      /\ request'[r].rule \in rules \cup {NoRule}
      /\ request'[r].kind = "remove" => request'[r].rule \in rules
  BY <1>1, SendSteps DEF IsSettled
<1>3. InFlight' = {r} /\ Active' = {} /\ Edited' = Edited /\ r \notin Edited
  BY <1>1, <1>2 DEF InFlight, Active, Edited
<1>4. OneThingAtATime'  BY <1>1, <1>2, <1>3 DEF OneThingAtATime, IsSettled
<1>5. ExecutionIsFirst'
  <2>1. ~UnderWay("execute")'  BY <1>1, <1>2, <1>3 DEF UnderWay, Active
  <2> QED  BY <2>1 DEF ExecutionIsFirst
<1>6. RulesAreBroughtIn'
  <2>1. \A x \in rules \cup {NoRule} : x.by \in Requests => x.by \in Edited /\ request[x.by].kind = "add"
    BY DEF RulesAreBroughtIn, NoRule
  <2>2. \A q \in Edited : q \in Requests \ {r}  BY <1>3 DEF Edited
  <2> QED  BY <1>2, <1>3, <2>1, <2>2 DEF RulesAreBroughtIn
<1>7. EditsAreMade'
  <2> SUFFICES ASSUME NEW q \in Requests
               PROVE  /\ request'[q].pc = "read" => request'[q].seen = rules'
                      /\ request'[q].pc \in {"checked", "read"} /\ request'[q].kind = "remove" =>
                            request'[q].rule \in rules'
                      /\ q \in Edited' => EditHolds(q)'
    BY DEF EditsAreMade
  <2>1. q \in Edited => EditHolds(q) /\ q # r  BY <1>3 DEF EditsAreMade
  <2>2. q \in Edited => EditHolds(q)'
    <3> SUFFICES ASSUME q \in Edited PROVE EditHolds(q)'
      OBVIOUS
    <3>1. \A w \in Edited : request'[w] = request[w]  BY <1>2, <1>3 DEF Edited
    <3> QED  BY <1>2, <1>3, <2>1, <3>1 DEF EditHolds
  <2> QED  BY <1>2, <1>3, <2>2 DEF EditsAreMade
<1>8. ScreeningIsCurrent'  BY <1>3 DEF ScreeningIsCurrent
<1>9. CompleteIsCurrent'  BY <1>1, <1>2 DEF CompleteIsCurrent, Scored, InFlight
<1> QED  BY <1>4, <1>5, <1>6, <1>7, <1>8, <1>9

\* A request that is read or refused.
LEMMA ReadOrderly ==
  ASSUME RunInv, Orderly, NEW r \in Requests, ReadRules(r) \/ RefuseRule(r)
  PROVE  Orderly'
<1> USE DEF Orderly, table
<1>1. /\ UNCHANGED <<status, rules, shortlist, result, tasks, thread>>
      /\ request[r].pc \in {"checked", "read"} /\ request'[r].pc \in {"read", "refused"}
      /\ \A q \in Requests \ {r} : request'[q] = request[q]
      /\ request'[r].kind = request[r].kind /\ request'[r].rule = request[r].rule
      /\ request'[r].pc = "read" => request'[r].seen = rules
  <2>1. CASE ReadRules(r)  BY <2>1 DEF ReadRules, RunInv, TypeOK, RequestStates
  <2>2. CASE RefuseRule(r)  BY <2>2 DEF RefuseRule, RunInv, TypeOK, RequestStates
  <2> QED  BY <2>1, <2>2
<1>2. r \in InFlight  BY <1>1 DEF InFlight
<1>3. tasks = <<>> /\ Active = {} /\ InFlight = {r} /\ IsSettled  BY <1>1, <1>2, EditingAlone
<1>4. InFlight' \subseteq {r} /\ Active' = {} /\ Edited' = Edited /\ r \notin Edited
  BY <1>1, <1>3 DEF InFlight, Active, Edited
<1>5. OneThingAtATime'
  <2>1. ~ \E q \in InFlight' : request'[q].pc = "queued"  BY <1>1, <1>4
  <2>2. IsSettled'  BY <1>1, <1>3 DEF IsSettled
  <2> QED  BY <1>1, <1>3, <1>4, <2>1, <2>2 DEF OneThingAtATime
<1>6. ExecutionIsFirst'
  <2>1. ~UnderWay("execute")'  BY <1>1, <1>3, <1>4 DEF UnderWay, Active
  <2> QED  BY <2>1 DEF ExecutionIsFirst
<1>7. \A w \in Edited : request'[w] = request[w]  BY <1>1, <1>4 DEF Edited
<1>8. RulesAreBroughtIn'  BY <1>1, <1>4, <1>7 DEF RulesAreBroughtIn
<1>9. EditsAreMade'
  <2> SUFFICES ASSUME NEW q \in Requests
               PROVE  /\ request'[q].pc = "read" => request'[q].seen = rules'
                      /\ request'[q].pc \in {"checked", "read"} /\ request'[q].kind = "remove" =>
                            request'[q].rule \in rules'
                      /\ q \in Edited' => EditHolds(q)'
    BY DEF EditsAreMade
  <2>1. q \in Edited => EditHolds(q)'
    <3> SUFFICES ASSUME q \in Edited PROVE EditHolds(q)'
      OBVIOUS
    <3>1. EditHolds(q)  BY DEF EditsAreMade
    <3> QED  BY <1>1, <1>4, <1>7, <3>1 DEF EditHolds
  <2> QED  BY <1>1, <1>4, <2>1 DEF EditsAreMade
<1>10. ScreeningIsCurrent'  BY <1>4 DEF ScreeningIsCurrent
<1>11. CompleteIsCurrent'
  <2>1. InFlight \cap Edited = {}  BY <1>3, <1>4
  <2> QED  BY <1>1, <1>3, <2>1 DEF CompleteIsCurrent, Scored
<1> QED  BY <1>5, <1>6, <1>8, <1>9, <1>10, <1>11

LEMMA AddOrderly ==
  ASSUME RunInv, Orderly, NEW r \in Requests, AddRule(r)
  PROVE  Orderly'
<1> USE DEF Orderly, table
<1> DEFINE rule == [id |-> NewId(request[r].seen), by |-> r]
<1>1. /\ UNCHANGED <<status, shortlist, result, tasks, thread>>
      /\ rules' = request[r].seen \cup {rule}
      /\ request[r].pc = "read" /\ request'[r].pc = "edited" /\ request[r].kind = "add"
      /\ request'[r].kind = "add" /\ request'[r].rule = rule
      /\ \A q \in Requests \ {r} : request'[q] = request[q]
  BY DEF AddRule, RunInv, TypeOK, RequestStates
<1>2. rule.by = r  OBVIOUS
<1> HIDE DEF rule
<1>3. r \in InFlight  BY <1>1 DEF InFlight
<1>4. tasks = <<>> /\ Active = {} /\ InFlight = {r} /\ IsSettled  BY <1>1, <1>3, EditingAlone
<1>5. InFlight' = {r} /\ Active' = {} /\ Edited' = Edited \cup {r} /\ r \notin Edited
  BY <1>1, <1>4 DEF InFlight, Active, Edited
<1>6. rules' = rules \cup {rule}  BY <1>1 DEF EditsAreMade
<1>7. \A w \in Edited : request'[w] = request[w]  BY <1>1, <1>5 DEF Edited
<1>8. OneThingAtATime'
  <2>1. ~ \E q \in InFlight' : request'[q].pc = "queued"  BY <1>1, <1>5
  <2>2. IsSettled'  BY <1>1, <1>4 DEF IsSettled
  <2> QED  BY <1>1, <1>4, <1>5, <2>1, <2>2 DEF OneThingAtATime
<1>9. ExecutionIsFirst'
  <2>1. ~UnderWay("execute")'  BY <1>1, <1>4, <1>5 DEF UnderWay, Active
  <2> QED  BY <2>1 DEF ExecutionIsFirst
<1>10. RulesAreBroughtIn'
  <2> SUFFICES ASSUME NEW x \in rules' \cup {request'[q].rule : q \in {w \in Requests : request'[w].kind = "remove"}},
                      x.by \in Requests
               PROVE  x.by \in Edited' /\ request'[x.by].kind = "add"
    BY DEF RulesAreBroughtIn
  <2>1. CASE x = rule  BY <1>1, <1>2, <1>5, <2>1
  <2>2. CASE x # rule
    <3>1. x \in rules \cup {request[q].rule : q \in {w \in Requests : request[w].kind = "remove"}}
      BY <1>1, <1>6, <2>2
    <3>2. x.by \in Edited /\ request[x.by].kind = "add"  BY <3>1 DEF RulesAreBroughtIn
    <3> QED  BY <1>5, <1>7, <3>2
  <2> QED  BY <2>1, <2>2
<1>11. EditsAreMade'
  <2> SUFFICES ASSUME NEW q \in Requests
               PROVE  /\ request'[q].pc \notin {"checked", "read"}
                      /\ q \in Edited' => EditHolds(q)'
    BY DEF EditsAreMade
  <2>1. request'[q].pc \notin {"checked", "read"}  BY <1>1, <1>5 DEF InFlight
  <2>2. CASE q = r  BY <1>1, <1>6, <2>1, <2>2 DEF EditHolds
  <2>3. ASSUME q # r, q \in Edited
        PROVE  EditHolds(q)'
    <3>1. EditHolds(q) /\ request'[q] = request[q]  BY <1>7, <2>3 DEF EditsAreMade
    <3>2. request[q].kind # "add" => request[q].rule # rule
      <4> SUFFICES ASSUME request[q].kind # "add", request[q].rule = rule PROVE FALSE
        OBVIOUS
      <4>1. request[q].kind = "remove"  BY DEF RunInv, TypeOK, RequestStates
      <4>2. r \in Edited  BY <1>2, <4>1 DEF RulesAreBroughtIn
      <4> QED  BY <1>5, <4>2
    <3>3. CASE request[q].kind = "add"  BY <1>5, <1>6, <1>7, <3>1, <3>3 DEF EditHolds
    <3>4. CASE request[q].kind # "add"  BY <1>6, <3>1, <3>2, <3>4 DEF EditHolds
    <3> QED  BY <3>3, <3>4
  <2> QED  BY <1>5, <2>1, <2>2, <2>3
<1>12. ScreeningIsCurrent'  BY <1>5 DEF ScreeningIsCurrent
<1>13. CompleteIsCurrent'  BY <1>5 DEF CompleteIsCurrent
<1> QED  BY <1>8, <1>9, <1>10, <1>11, <1>12, <1>13

\* The rule that a client has been shown is the one that its number removes.
LEMMA RemoveOrderly ==
  ASSUME RunInv, Orderly, NEW r \in Requests, RemoveRule(r)
  PROVE  Orderly'
<1> USE DEF Orderly, table
<1>1. /\ UNCHANGED <<status, shortlist, result, tasks, thread>>
      /\ rules' = {x \in request[r].seen : x.id # request[r].rule.id}
      /\ request[r].pc = "read" /\ request'[r].pc = "edited" /\ request[r].kind = "remove"
      /\ request'[r].kind = "remove" /\ request'[r].rule = request[r].rule
      /\ \A q \in Requests \ {r} : request'[q] = request[q]
  BY DEF RemoveRule, RunInv, TypeOK, RequestStates
<1>2. request[r].rule \in rules /\ request[r].seen = rules  BY <1>1 DEF EditsAreMade
<1>3. r \in InFlight  BY <1>1 DEF InFlight
<1>4. tasks = <<>> /\ Active = {} /\ InFlight = {r} /\ IsSettled  BY <1>1, <1>3, EditingAlone
<1>5. InFlight' = {r} /\ Active' = {} /\ Edited' = Edited \cup {r} /\ r \notin Edited
  BY <1>1, <1>4 DEF InFlight, Active, Edited
<1>6. rules' = rules \ {request[r].rule}
  <2>1. \A x \in rules : x.id = request[r].rule.id <=> x = request[r].rule
    BY <1>2 DEF RunInv, Numbered
  <2> QED  BY <1>1, <1>2, <2>1
<1>7. \A w \in Edited : request'[w] = request[w]  BY <1>1, <1>5 DEF Edited
<1>8. OneThingAtATime'
  <2>1. ~ \E q \in InFlight' : request'[q].pc = "queued"  BY <1>1, <1>5
  <2>2. IsSettled'  BY <1>1, <1>4 DEF IsSettled
  <2> QED  BY <1>1, <1>4, <1>5, <2>1, <2>2 DEF OneThingAtATime
<1>9. ExecutionIsFirst'
  <2>1. ~UnderWay("execute")'  BY <1>1, <1>4, <1>5 DEF UnderWay, Active
  <2> QED  BY <2>1 DEF ExecutionIsFirst
<1>10. RulesAreBroughtIn'
  <2> SUFFICES ASSUME NEW x \in rules' \cup {request'[q].rule : q \in {w \in Requests : request'[w].kind = "remove"}},
                      x.by \in Requests
               PROVE  x.by \in Edited' /\ request'[x.by].kind = "add"
    BY DEF RulesAreBroughtIn
  <2>1. x \in rules \cup {request[q].rule : q \in {w \in Requests : request[w].kind = "remove"}}
    BY <1>1, <1>6
  <2>2. x.by \in Edited /\ request[x.by].kind = "add"  BY <2>1 DEF RulesAreBroughtIn
  <2> QED  BY <1>5, <1>7, <2>2
<1>11. EditsAreMade'
  <2> SUFFICES ASSUME NEW q \in Requests
               PROVE  /\ request'[q].pc \notin {"checked", "read"}
                      /\ q \in Edited' => EditHolds(q)'
    BY DEF EditsAreMade
  <2>1. request'[q].pc \notin {"checked", "read"}  BY <1>1, <1>5 DEF InFlight
  <2>2. CASE q = r  BY <1>1, <1>6, <2>1, <2>2 DEF EditHolds
  <2>3. ASSUME q # r, q \in Edited
        PROVE  EditHolds(q)'
    <3>1. EditHolds(q) /\ request'[q] = request[q]  BY <1>7, <2>3 DEF EditsAreMade
    <3>2. CASE request[q].kind = "add" /\ request[q].rule = request[r].rule
      BY <1>1, <1>5, <3>1, <3>2 DEF EditHolds
    <3>3. CASE request[q].kind = "add" /\ request[q].rule # request[r].rule
      BY <1>5, <1>6, <1>7, <3>1, <3>3 DEF EditHolds
    <3>4. CASE request[q].kind # "add"  BY <1>6, <3>1, <3>4 DEF EditHolds
    <3> QED  BY <3>2, <3>3, <3>4
  <2> QED  BY <1>5, <2>1, <2>2, <2>3
<1>12. ScreeningIsCurrent'  BY <1>5 DEF ScreeningIsCurrent
<1>13. CompleteIsCurrent'  BY <1>5 DEF CompleteIsCurrent
<1> QED  BY <1>8, <1>9, <1>10, <1>11, <1>12, <1>13

LEMMA QueueOrderly ==
  ASSUME RunInv, Orderly, NEW r \in Requests, QueueRescreen(r)
  PROVE  Orderly'
<1> USE DEF Orderly, table
<1>1. /\ UNCHANGED <<rules, shortlist, result, thread>>
      /\ \A q \in Requests \ {r} : request'[q] = request[q]
      /\ request'[r].kind = request[r].kind /\ request'[r].rule = request[r].rule
      /\ \/ /\ request[r].pc = "edited" /\ request'[r].pc = "queued"
            /\ status' = "QUEUED" /\ tasks' = tasks
         \/ /\ request[r].pc = "queued" /\ request'[r].pc = "done"
            /\ status' = status /\ tasks' = Append(tasks, r)
  <2>1. request \in [Requests -> RequestStates]  BY DEF RunInv, TypeOK
  <2>2. CASE request[r].pc = "edited"  BY <2>1, <2>2 DEF QueueRescreen, RequestStates
  <2>3. CASE request[r].pc = "queued"  BY <2>1, <2>3 DEF QueueRescreen, RequestStates
  <2> QED  BY <2>2, <2>3 DEF QueueRescreen
<1>2. r \in InFlight  BY <1>1 DEF InFlight
<1>3. tasks = <<>> /\ Active = {} /\ InFlight = {r}
      /\ IF request[r].pc = "queued" THEN status = "QUEUED" ELSE IsSettled
  BY <1>2, EditingAlone
<1>4. Active' = {} /\ Edited' = Edited  BY <1>1, <1>3 DEF Active, Edited
<1>5. \/ tasks' = <<>> /\ InFlight' = {r} /\ request'[r].pc = "queued" /\ status' = "QUEUED"
      \/ tasks' = <<r>> /\ InFlight' = {} /\ status' = "QUEUED"
  <2>1. Append(<<>>, r) = <<r>>  OBVIOUS
  <2> QED  BY <1>1, <1>3, <2>1 DEF InFlight
<1>6. OneThingAtATime'  BY <1>4, <1>5 DEF OneThingAtATime
<1>7. ExecutionIsFirst'
  <2>1. ~UnderWay("execute")'  BY <1>4, <1>5 DEF UnderWay, Active
  <2> QED  BY <2>1 DEF ExecutionIsFirst
<1>8. RulesAreBroughtIn'
  <2>1. \A q \in Requests : request'[q].kind = request[q].kind /\ request'[q].rule = request[q].rule
    BY <1>1
  <2> QED  BY <1>1, <1>4, <2>1 DEF RulesAreBroughtIn
<1>9. EditsAreMade'
  <2> SUFFICES ASSUME NEW q \in Requests
               PROVE  /\ request'[q].pc \notin {"checked", "read"}
                      /\ q \in Edited' => EditHolds(q)'
    BY DEF EditsAreMade
  <2>1. \A w \in Requests : request'[w].kind = request[w].kind /\ request'[w].rule = request[w].rule
    BY <1>1
  <2>2. q \in Edited => EditHolds(q)  BY DEF EditsAreMade
  <2>3. ASSUME q \in Edited PROVE EditHolds(q)'
    <3>1. Edited \subseteq Requests  BY DEF Edited
    <3>2. CASE request[q].kind = "add"  BY <1>1, <1>4, <2>1, <2>2, <2>3, <3>1, <3>2 DEF EditHolds
    <3>3. CASE request[q].kind # "add"  BY <1>1, <2>1, <2>2, <2>3, <3>3 DEF EditHolds
    <3> QED  BY <3>2, <3>3
  <2>4. request'[q].pc \notin {"checked", "read"}  BY <1>5 DEF InFlight
  <2> QED  BY <1>4, <2>3, <2>4
<1>10. ScreeningIsCurrent'  BY <1>4 DEF ScreeningIsCurrent
<1>11. CompleteIsCurrent'  BY <1>5 DEF CompleteIsCurrent
<1> QED  BY <1>6, <1>7, <1>8, <1>9, <1>10, <1>11

-----------------------------------------------------------------------------
(* The steps of threads.                                                   *)

\* What only edits change.
LEMMA EditsLeft ==
  ASSUME RunInv, Orderly, UNCHANGED <<request, rules>>
  PROVE  RulesAreBroughtIn' /\ EditsAreMade' /\ InFlight' = InFlight
<1>1. Edited' = Edited /\ InFlight' = InFlight  BY DEF Edited, InFlight
<1>2. RulesAreBroughtIn'  BY <1>1 DEF Orderly, RulesAreBroughtIn
<1>3. \A r \in Requests : EditHolds(r) => EditHolds(r)'
  <2> SUFFICES ASSUME NEW r \in Requests, EditHolds(r) PROVE EditHolds(r)'
    OBVIOUS
  <2>1. CASE request[r].kind = "add"  BY <1>1, <2>1 DEF EditHolds
  <2>2. CASE request[r].kind # "add"  BY <2>2 DEF EditHolds
  <2> QED  BY <2>1, <2>2
<1>4. EditsAreMade'  BY <1>1, <1>3 DEF Orderly, EditsAreMade
<1> QED  BY <1>1, <1>2, <1>4

\* A screening that goes on stays the only thing that happens.
LEMMA GoesOn ==
  ASSUME RunInv, Orderly, NEW t \in Threads, thread[t].pc # "idle",
         NEW next, thread' = [thread EXCEPT ![t] = next],
         next.pc # "idle", next.task = thread[t].task, UNCHANGED <<tasks, request>>,
         status' = IF next.pc \in {"reading", "starting"} THEN "QUEUED" ELSE "RUNNING"
  PROVE  /\ OneThingAtATime' /\ ExecutionIsFirst' /\ CompleteIsCurrent'
         /\ thread'[t] = next /\ (IsCurrent(thread[t])' => ScreeningIsCurrent')
<1>1. t \in Active  BY DEF Active
<1>2. tasks = <<>> /\ InFlight = {} /\ Active = {t}  BY <1>1, ScreeningAlone DEF Orderly
<1>3. thread'[t] = next /\ \A u \in Threads \ {t} : thread'[u] = thread[u]
  BY DEF RunInv, TypeOK
<1>4. Active' = {t} /\ InFlight' = {}  BY <1>2, <1>3 DEF Active, InFlight
<1>5. OneThingAtATime'  BY <1>2, <1>3, <1>4 DEF OneThingAtATime
<1>6. ExecutionIsFirst'
  <2>1. UnderWay("execute")' => UnderWay("execute")  BY <1>2, <1>3, <1>4 DEF UnderWay, Active
  <2> QED  BY <2>1 DEF Orderly, ExecutionIsFirst
<1>7. CompleteIsCurrent'  BY <1>4 DEF CompleteIsCurrent
<1> QED  BY <1>3, <1>4, <1>5, <1>6, <1>7 DEF ScreeningIsCurrent

\* What is known of a thread that works.
LEMMA Working ==
  ASSUME RunInv, Orderly, NEW t \in Threads, thread[t].pc # "idle"
  PROVE  /\ IsCurrent(thread[t]) /\ thread[t] \in ThreadStates
         /\ status = IF thread[t].pc \in {"reading", "starting"} THEN "QUEUED" ELSE "RUNNING"
<1>1. t \in Active  BY DEF Active
<1> QED  BY <1>1, ScreeningAlone DEF Orderly, ScreeningIsCurrent, RunInv, TypeOK

LEMMA TakeOrderly ==
  ASSUME RunInv, Orderly, NEW t \in Threads, Take(t)
  PROVE  Orderly'
<1> DEFINE next == [IdleThread EXCEPT !.task = Head(tasks),
                      !.pc = IF Head(tasks) = "execute" THEN "starting" ELSE "reading"]
<1>1. /\ tasks # <<>> /\ tasks' = Tail(tasks) /\ UNCHANGED <<status, rules, shortlist, result, request>>
      /\ thread' = [thread EXCEPT ![t] = next]
  BY DEF Take, table
<1>2. PICK task \in Requests \cup {"execute"} : tasks = <<task>>
  BY <1>1, WaitingAlone DEF Orderly
<1>3. InFlight = {} /\ Active = {} /\ status = "QUEUED"  BY <1>1, WaitingAlone DEF Orderly
<1>4. /\ next.task = task /\ next.rules = {} /\ next.eligible = {}
      /\ next.pc = IF task = "execute" THEN "starting" ELSE "reading"
  BY <1>2 DEF IdleThread
<1> HIDE DEF next
<1>5. thread'[t] = next /\ \A u \in Threads \ {t} : thread'[u] = thread[u]
  BY <1>1 DEF RunInv, TypeOK
<1>6. Active' = {t} /\ tasks' = <<>>
  <2>1. \A u \in Threads \ {t} : thread'[u].pc = "idle"  BY <1>3, <1>5 DEF Active
  <2>2. thread'[t].pc # "idle"  BY <1>4, <1>5
  <2> QED  BY <1>1, <1>2, <2>1, <2>2 DEF Active
<1>7. RulesAreBroughtIn' /\ EditsAreMade' /\ InFlight' = {}  BY <1>1, <1>3, EditsLeft
<1>8. OneThingAtATime'  BY <1>1, <1>3, <1>4, <1>5, <1>6, <1>7 DEF OneThingAtATime
<1>9. ExecutionIsFirst'
  <2>1. UnderWay("execute")' => task = "execute"  BY <1>4, <1>5, <1>6 DEF UnderWay, Active
  <2>2. task = "execute" => UnderWay("execute")
    <3>1. tasks[1] = task /\ 1 \in DOMAIN tasks  BY <1>2
    <3> QED  BY <3>1 DEF UnderWay
  <2> QED  BY <1>1, <2>1, <2>2 DEF Orderly, ExecutionIsFirst
<1>10. IsCurrent(thread[t])'  BY <1>4, <1>5 DEF IsCurrent
<1>11. ScreeningIsCurrent'  BY <1>6, <1>10 DEF ScreeningIsCurrent
<1>12. CompleteIsCurrent'  BY <1>6 DEF CompleteIsCurrent
<1> QED  BY <1>7, <1>8, <1>9, <1>11, <1>12 DEF Orderly

LEMMA StartOrderly ==
  ASSUME RunInv, Orderly, NEW t \in Threads, ReadRuleSet(t) \/ Start(t)
  PROVE  Orderly'
<1> DEFINE now == thread[t]
<1>0. now.pc # "idle" /\ now \in ThreadStates /\ thread \in [Threads -> ThreadStates]
  BY DEF ReadRuleSet, Start, RunInv, TypeOK
<1>1. IsCurrent(now) /\ status = IF now.pc \in {"reading", "starting"} THEN "QUEUED" ELSE "RUNNING"
  BY <1>0, Working
<1>2. CASE ReadRuleSet(t)
  <2> DEFINE next == [now EXCEPT !.pc = "starting", !.rules = rules]
  <2>1. /\ thread' = [thread EXCEPT ![t] = next] /\ now.pc = "reading"
        /\ UNCHANGED <<status, rules, shortlist, result, tasks, request>>
    BY <1>0, <1>2 DEF ReadRuleSet, table
  <2>2. next.pc = "starting" /\ next.task = now.task /\ next.rules = rules /\ next.eligible = now.eligible
    BY <1>0 DEF ThreadStates
  <2> HIDE DEF next
  <2>3. /\ OneThingAtATime' /\ ExecutionIsFirst' /\ CompleteIsCurrent'
        /\ thread'[t] = next /\ (IsCurrent(thread[t])' => ScreeningIsCurrent')
    BY <1>0, <1>1, <2>1, <2>2, GoesOn
  <2>4. IsCurrent(thread[t])'  BY <1>1, <2>1, <2>2, <2>3 DEF IsCurrent
  <2> QED  BY <2>1, <2>3, <2>4, EditsLeft DEF Orderly
<1>3. CASE Start(t)
  <2> DEFINE next == [now EXCEPT !.pc = IF now.task = "execute" THEN "compiling" ELSE "clearing"]
  <2>1. /\ thread' = [thread EXCEPT ![t] = next] /\ now.pc = "starting" /\ status' = "RUNNING"
        /\ UNCHANGED <<rules, shortlist, result, tasks, request>>
    BY <1>0, <1>3 DEF Start
  <2>2. /\ next.pc = IF now.task = "execute" THEN "compiling" ELSE "clearing"
        /\ next.task = now.task /\ next.rules = now.rules /\ next.eligible = now.eligible
    BY <1>0 DEF ThreadStates
  <2> HIDE DEF next
  <2>3. /\ OneThingAtATime' /\ ExecutionIsFirst' /\ CompleteIsCurrent'
        /\ thread'[t] = next /\ (IsCurrent(thread[t])' => ScreeningIsCurrent')
    BY <1>0, <1>1, <2>1, <2>2, GoesOn
  <2>4. IsCurrent(thread[t])'  BY <1>1, <2>1, <2>2, <2>3 DEF IsCurrent
  <2> QED  BY <2>1, <2>3, <2>4, EditsLeft DEF Orderly
<1> QED  BY <1>2, <1>3

\* Compilation replaces the rules, before anyone has edited them.
LEMMA CompileOrderly ==
  ASSUME RunInv, Orderly, NEW t \in Threads, CompileRules(t)
  PROVE  Orderly'
<1> DEFINE now == thread[t]
           next == [now EXCEPT !.pc = "clearing", !.rules = PlanRules]
<1>0. now.pc = "compiling" /\ now \in ThreadStates /\ thread \in [Threads -> ThreadStates]
  BY DEF CompileRules, RunInv, TypeOK
<1>1. IsCurrent(now) /\ status = "RUNNING"  BY <1>0, Working
<1>2. /\ thread' = [thread EXCEPT ![t] = next] /\ rules' = PlanRules
      /\ UNCHANGED <<status, shortlist, result, tasks, request>>
  BY <1>0 DEF CompileRules
<1>3. next.pc = "clearing" /\ next.task = now.task /\ next.rules = PlanRules /\ next.eligible = now.eligible
  BY <1>0 DEF ThreadStates
<1>4. UnderWay("execute")  BY <1>0, <1>1 DEF UnderWay, IsCurrent
<1>5. \A r \in Requests : request[r].pc = "new"  BY <1>4 DEF Orderly, ExecutionIsFirst
<1> HIDE DEF next
<1>6. /\ OneThingAtATime' /\ ExecutionIsFirst' /\ CompleteIsCurrent'
      /\ thread'[t] = next /\ (IsCurrent(thread[t])' => ScreeningIsCurrent')
  BY <1>0, <1>1, <1>2, <1>3, GoesOn
<1>7. IsCurrent(thread[t])'  BY <1>0, <1>1, <1>2, <1>3, <1>6 DEF IsCurrent
<1>8. RulesAreBroughtIn'
  <2>1. \A x \in PlanRules : x.by \notin Requests  BY DEF PlanRules
  <2>2. Edited' = Edited  BY <1>2 DEF Edited
  <2> QED  BY <1>2, <2>1, <2>2 DEF Orderly, RulesAreBroughtIn
<1>9. EditsAreMade'
  <2>1. Edited' = {}  BY <1>2, <1>5 DEF Edited
  <2> QED  BY <1>2, <1>5, <2>1 DEF EditsAreMade
<1> QED  BY <1>6, <1>7, <1>8, <1>9 DEF Orderly

LEMMA ClearOrderly ==
  ASSUME RunInv, Orderly, NEW t \in Threads, ClearResults(t)
  PROVE  Orderly'
<1> DEFINE now == thread[t]
           next == [now EXCEPT !.pc = "screening", !.todo = Candidates]
<1>0. now.pc = "clearing" /\ now \in ThreadStates /\ thread \in [Threads -> ThreadStates]
  BY DEF ClearResults, RunInv, TypeOK
<1>1. IsCurrent(now) /\ status = "RUNNING"  BY <1>0, Working
<1>2. /\ thread' = [thread EXCEPT ![t] = next] /\ result' = [c \in Candidates |-> NoResult]
      /\ UNCHANGED <<status, rules, shortlist, tasks, request>>
  BY <1>0 DEF ClearResults
<1>3. /\ next.pc = "screening" /\ next.task = now.task /\ next.rules = now.rules
      /\ next.eligible = now.eligible /\ next.todo = Candidates
  BY <1>0 DEF ThreadStates
<1> HIDE DEF next
<1>4. /\ OneThingAtATime' /\ ExecutionIsFirst' /\ CompleteIsCurrent'
      /\ thread'[t] = next /\ (IsCurrent(thread[t])' => ScreeningIsCurrent')
  BY <1>0, <1>1, <1>2, <1>3, GoesOn
<1>5. next.rules = rules /\ next.eligible = {}  BY <1>0, <1>1, <1>3 DEF IsCurrent
<1>6. \A c \in Candidates : result'[c] = NoResult /\ result'[c].outcome # "eligible"
  BY <1>2 DEF NoResult
<1>7. IsCurrent(thread[t])'  BY <1>2, <1>3, <1>4, <1>5, <1>6 DEF IsCurrent
<1> QED  BY <1>2, <1>4, <1>7, EditsLeft DEF Orderly

LEMMA PutOrderly ==
  ASSUME RunInv, Orderly, NEW t \in Threads, NEW c \in Candidates, PutResult(t, c)
  PROVE  Orderly'
<1> DEFINE now == thread[t]
<1>0. /\ now.pc = "screening" /\ c \in now.todo
      /\ now \in ThreadStates /\ thread \in [Threads -> ThreadStates] /\ result \in [Candidates -> ResultRows]
  BY DEF PutResult, RunInv, TypeOK
<1>1. IsCurrent(now) /\ status = "RUNNING"  BY <1>0, Working
<1>2. PICK outcome \in {"eligible", "excluded"} :
        /\ result' = [result EXCEPT ![c] = [result[c] EXCEPT !.outcome = outcome, !.under = now.rules]]
        /\ thread' = [thread EXCEPT ![t] =
              [now EXCEPT !.todo = now.todo \ {c},
                          !.eligible = IF outcome = "eligible" THEN now.eligible \cup {c} ELSE now.eligible]]
        /\ UNCHANGED <<status, rules, shortlist, tasks, request>>
  BY <1>0 DEF PutResult
<1> DEFINE next == [now EXCEPT !.todo = now.todo \ {c},
                      !.eligible = IF outcome = "eligible" THEN now.eligible \cup {c} ELSE now.eligible]
<1>3. /\ next.pc = "screening" /\ next.task = now.task /\ next.rules = now.rules
      /\ next.todo = now.todo \ {c}
      /\ next.eligible = IF outcome = "eligible" THEN now.eligible \cup {c} ELSE now.eligible
  BY <1>0 DEF ThreadStates
<1>a. thread' = [thread EXCEPT ![t] = next]  BY <1>2
<1> HIDE DEF next
<1>4. /\ OneThingAtATime' /\ ExecutionIsFirst' /\ CompleteIsCurrent'
      /\ thread'[t] = next /\ (IsCurrent(thread[t])' => ScreeningIsCurrent')
  BY <1>0, <1>1, <1>2, <1>3, <1>a, GoesOn
<1>5. /\ now.rules = rules
      /\ \A d \in Candidates : IF d \in now.todo THEN result[d] = NoResult ELSE Screened(d, rules)
      /\ now.eligible = {d \in Candidates : result[d].outcome = "eligible"}
  BY <1>0, <1>1 DEF IsCurrent
<1>6. result'[c] = Row(outcome, rules, {}) /\ \A d \in Candidates \ {c} : result'[d] = result[d]
  <2>1. result[c] = NoResult  BY <1>0, <1>5
  <2> DEFINE row == [NoResult EXCEPT !.outcome = outcome, !.under = rules]
  <2>2. row = Row(outcome, rules, {})
    <3>1. row \in [outcome : {outcome}, under : {rules}, scored : {{}}]  BY DEF NoResult
    <3> HIDE DEF row
    <3> QED  BY <3>1 DEF Row
  <2>3. result' = [result EXCEPT ![c] = row]  BY <1>2, <1>5, <2>1
  <2> HIDE DEF row
  <2> QED  BY <1>0, <2>2, <2>3
<1>7. \A d \in Candidates : IF d \in next.todo THEN result'[d] = NoResult ELSE Screened(d, rules)'
  <2>1. Screened(c, rules)'  BY <1>2, <1>6 DEF Screened
  <2>2. \A d \in Candidates \ {c} : Screened(d, rules) => Screened(d, rules)'
    BY <1>2, <1>6 DEF Screened
  <2> QED  BY <1>3, <1>5, <1>6, <2>1, <2>2
<1>8. next.eligible = {d \in Candidates : result'[d].outcome = "eligible"}
  <2>1. result'[c].outcome = outcome  BY <1>6 DEF Row
  <2>2. result[c].outcome # "eligible"  BY <1>0, <1>5 DEF NoResult
  <2> QED  BY <1>3, <1>5, <1>6, <2>1, <2>2
<1>9. IsCurrent(thread[t])'  BY <1>2, <1>3, <1>4, <1>5, <1>7, <1>8 DEF IsCurrent
<1> QED  BY <1>2, <1>4, <1>9, EditsLeft DEF Orderly

LEMMA RankOrderly ==
  ASSUME RunInv, Orderly, NEW t \in Threads, Rank(t)
  PROVE  Orderly'
<1> DEFINE now == thread[t]
           next == [now EXCEPT !.pc = "scoring", !.todo = now.eligible]
<1>0. /\ now.pc = "screening" /\ now.todo = {}
      /\ now \in ThreadStates /\ thread \in [Threads -> ThreadStates]
  BY DEF Rank, RunInv, TypeOK
<1>1. IsCurrent(now) /\ status = "RUNNING"  BY <1>0, Working
<1>2. /\ thread' = [thread EXCEPT ![t] = next]
      /\ UNCHANGED <<status, rules, shortlist, result, tasks, request>>
  BY <1>0 DEF Rank, table
<1>3. /\ next.pc = "scoring" /\ next.task = now.task /\ next.rules = now.rules
      /\ next.todo = now.eligible
  BY <1>0 DEF ThreadStates
<1> HIDE DEF next
<1>4. /\ OneThingAtATime' /\ ExecutionIsFirst' /\ CompleteIsCurrent'
      /\ thread'[t] = next /\ (IsCurrent(thread[t])' => ScreeningIsCurrent')
  BY <1>0, <1>1, <1>2, <1>3, GoesOn
<1>5. /\ now.rules = rules /\ \A c \in Candidates : Screened(c, rules)
      /\ now.eligible = {c \in Candidates : result[c].outcome = "eligible"}
  BY <1>0, <1>1 DEF IsCurrent
<1>6. \A c \in Candidates :
        IF c \in next.todo THEN result[c] = Row("eligible", rules, {}) ELSE Scored(c, rules)
  <2> SUFFICES ASSUME NEW c \in Candidates
               PROVE  IF c \in next.todo THEN result[c] = Row("eligible", rules, {}) ELSE Scored(c, rules)
    OBVIOUS
  <2>1. PICK outcome \in {"eligible", "excluded"} : result[c] = Row(outcome, rules, {})
    BY <1>5 DEF Screened
  <2>2. result[c].outcome = outcome  BY <2>1 DEF Row
  <2> QED  BY <1>3, <1>5, <2>1, <2>2 DEF Scored
<1>7. IsCurrent(thread[t])'  BY <1>2, <1>3, <1>4, <1>5, <1>6 DEF IsCurrent, Scored
<1> QED  BY <1>2, <1>4, <1>7, EditsLeft DEF Orderly

LEMMA ScoreOrderly ==
  ASSUME RunInv, Orderly, NEW t \in Threads, NEW c \in Candidates, SetScore(t, c)
  PROVE  Orderly'
<1> DEFINE now == thread[t]
           next == [now EXCEPT !.todo = now.todo \ {c}]
<1>0. /\ now.pc = "scoring" /\ c \in now.todo
      /\ now \in ThreadStates /\ thread \in [Threads -> ThreadStates] /\ result \in [Candidates -> ResultRows]
  BY DEF SetScore, RunInv, TypeOK
<1>1. IsCurrent(now) /\ status = "RUNNING"  BY <1>0, Working
<1>2. /\ thread' = [thread EXCEPT ![t] = next]
      /\ UNCHANGED <<status, rules, shortlist, tasks, request>>
  BY <1>0 DEF SetScore
<1>3. /\ next.pc = "scoring" /\ next.task = now.task /\ next.rules = now.rules
      /\ next.todo = now.todo \ {c}
  BY <1>0 DEF ThreadStates
<1> HIDE DEF next
<1>4. /\ OneThingAtATime' /\ ExecutionIsFirst' /\ CompleteIsCurrent'
      /\ thread'[t] = next /\ (IsCurrent(thread[t])' => ScreeningIsCurrent')
  BY <1>0, <1>1, <1>2, <1>3, GoesOn
<1>5. /\ now.rules = rules
      /\ \A d \in Candidates :
            IF d \in now.todo THEN result[d] = Row("eligible", rules, {}) ELSE Scored(d, rules)
  BY <1>0, <1>1 DEF IsCurrent
<1>6. result'[c] = Row("eligible", rules, {rules}) /\ \A d \in Candidates \ {c} : result'[d] = result[d]
  <2>1. result[c] = Row("eligible", rules, {})  BY <1>0, <1>5
  <2>2. Row("eligible", rules, {}).outcome # "none"
        /\ [Row("eligible", rules, {}) EXCEPT !.scored = {rules}] = Row("eligible", rules, {rules})
    BY DEF Row
  <2>3. result' = [result EXCEPT ![c] =
           IF result[c].outcome = "none" THEN result[c] ELSE [result[c] EXCEPT !.scored = {now.rules}]]
    BY DEF SetScore
  <2> QED  BY <1>0, <1>5, <2>1, <2>2, <2>3
<1>7. \A d \in Candidates :
        IF d \in next.todo THEN result'[d] = Row("eligible", rules, {}) ELSE Scored(d, rules)'
  <2>1. Scored(c, rules)'  BY <1>2, <1>6 DEF Scored
  <2>2. \A d \in Candidates \ {c} : Scored(d, rules) => Scored(d, rules)'
    BY <1>2, <1>6 DEF Scored
  <2> QED  BY <1>3, <1>5, <1>6, <2>1, <2>2
<1>8. (\A d \in Candidates :
        IF d \in thread[t].todo THEN result[d] = Row("eligible", rules, {}) ELSE Scored(d, rules))'
  BY <1>2, <1>4, <1>7 DEF Row
<1>9. IsCurrent(thread[t])'  BY <1>2, <1>3, <1>4, <1>5, <1>8 DEF IsCurrent
<1> QED  BY <1>2, <1>4, <1>9, EditsLeft DEF Orderly

LEMMA CutOrderly ==
  ASSUME RunInv, Orderly, NEW t \in Threads, CutShortlist(t)
  PROVE  Orderly'
<1> DEFINE now == thread[t]
           next == [now EXCEPT !.pc = "completing"]
<1>0. /\ now.pc = "scoring" /\ now.todo = {}
      /\ now \in ThreadStates /\ thread \in [Threads -> ThreadStates]
  BY DEF CutShortlist, RunInv, TypeOK
<1>1. IsCurrent(now) /\ status = "RUNNING"  BY <1>0, Working
<1>2. /\ thread' = [thread EXCEPT ![t] = next] /\ shortlist' = {now.rules}
      /\ UNCHANGED <<status, rules, result, tasks, request>>
  BY <1>0 DEF CutShortlist
<1>3. next.pc = "completing" /\ next.task = now.task /\ next.rules = now.rules
  BY <1>0 DEF ThreadStates
<1> HIDE DEF next
<1>4. /\ OneThingAtATime' /\ ExecutionIsFirst' /\ CompleteIsCurrent'
      /\ thread'[t] = next /\ (IsCurrent(thread[t])' => ScreeningIsCurrent')
  BY <1>0, <1>1, <1>2, <1>3, GoesOn
<1>5. now.rules = rules /\ \A c \in Candidates : Scored(c, rules)
  BY <1>0, <1>1 DEF IsCurrent
<1>6. \A c \in Candidates : Scored(c, rules)'  BY <1>2, <1>5 DEF Scored
<1>7. IsCurrent(thread[t])'  BY <1>2, <1>3, <1>4, <1>5, <1>6 DEF IsCurrent
<1> QED  BY <1>2, <1>4, <1>7, EditsLeft DEF Orderly

LEMMA EndOrderly ==
  ASSUME RunInv, Orderly, NEW t \in Threads, Complete(t) \/ Fail(t)
  PROVE  Orderly'
<1>0. thread[t].pc # "idle" /\ thread \in [Threads -> ThreadStates]
  BY DEF Complete, Fail, RunInv, TypeOK
<1>1. t \in Active  BY <1>0 DEF Active
<1>2. tasks = <<>> /\ InFlight = {} /\ Active = {t} /\ IsCurrent(thread[t])
  BY <1>0, <1>1, ScreeningAlone, Working DEF Orderly
<1>3. /\ thread' = [thread EXCEPT ![t] = IdleThread] /\ status' \in {"COMPLETE", "FAILED"}
      /\ status' = "COMPLETE" => thread[t].pc = "completing"
      /\ UNCHANGED <<rules, shortlist, result, tasks, request>>
  BY DEF Complete, Fail
<1>4. thread'[t].pc = "idle" /\ \A u \in Threads \ {t} : thread'[u] = thread[u]
  BY <1>0, <1>3 DEF IdleThread
<1>5. Active' = {}  BY <1>2, <1>4 DEF Active
<1>6. RulesAreBroughtIn' /\ EditsAreMade' /\ InFlight' = {}  BY <1>2, <1>3, EditsLeft
<1>7. OneThingAtATime'  BY <1>2, <1>3, <1>5, <1>6 DEF OneThingAtATime, IsSettled
<1>8. ExecutionIsFirst'
  <2>1. ~UnderWay("execute")'  BY <1>2, <1>3, <1>5 DEF UnderWay, Active
  <2> QED  BY <2>1 DEF ExecutionIsFirst
<1>9. ScreeningIsCurrent'  BY <1>5 DEF ScreeningIsCurrent
<1>10. CompleteIsCurrent'
  BY <1>2, <1>3 DEF CompleteIsCurrent, IsCurrent, Scored
<1> QED  BY <1>6, <1>7, <1>8, <1>9, <1>10 DEF Orderly

-----------------------------------------------------------------------------
(* The theorems.                                                           *)

LEMMA InitOrderly == Init => PatientInv
<1> SUFFICES ASSUME Init PROVE PatientInv
  OBVIOUS
<1> USE DEF Init, IdleThread, NewRequest, NoRule
<1>1. Active = {} /\ InFlight = {} /\ Edited = {}  BY DEF Active, InFlight, Edited
<1>2. \A r \in Requests : request[r].pc = "new" /\ request[r].kind = "add" /\ ~request[r].hasty  OBVIOUS
<1>3. OneThingAtATime  BY <1>1 DEF OneThingAtATime
<1>4. ExecutionIsFirst  BY <1>2 DEF ExecutionIsFirst
<1>5. RulesAreBroughtIn  BY <1>2 DEF RulesAreBroughtIn
<1>6. EditsAreMade  BY <1>1, <1>2 DEF EditsAreMade
<1>7. ScreeningIsCurrent  BY <1>1 DEF ScreeningIsCurrent
<1>8. CompleteIsCurrent  BY DEF CompleteIsCurrent
<1> QED  BY <1>2, <1>3, <1>4, <1>5, <1>6, <1>7, <1>8 DEF PatientInv, Orderly, NobodyIsHastyAtFirst

LEMMA PatientStep ==
  ASSUME RunInv, PatientInv, Next
  PROVE  PatientInv'
<1>1. (Patient' => Patient) /\ NobodyIsHastyAtFirst'  BY PatienceIsNew DEF PatientInv
<1> SUFFICES ASSUME Patient' PROVE Orderly'
  BY <1>1 DEF PatientInv
<1>2. Orderly  BY <1>1 DEF PatientInv
<1>3. ASSUME NEW r \in Requests, Send(r) \/ RequestStep(r)
      PROVE  Orderly'
  <2>1. CASE Send(r)
    <3>1. ~request'[r].hasty  BY DEF Patient
    <3> QED  BY <1>2, <2>1, <3>1, SendOrderly
  <2>2. CASE ReadRules(r) \/ RefuseRule(r)  BY <1>2, <2>2, ReadOrderly
  <2>3. CASE AddRule(r)        BY <1>2, <2>3, AddOrderly
  <2>4. CASE RemoveRule(r)     BY <1>2, <2>4, RemoveOrderly
  <2>5. CASE QueueRescreen(r)  BY <1>2, <2>5, QueueOrderly
  <2> QED  BY <1>3, <2>1, <2>2, <2>3, <2>4, <2>5 DEF RequestStep
<1>4. ASSUME NEW t \in Threads, ThreadStep(t)
      PROVE  Orderly'
  <2>1. CASE Take(t)                     BY <1>2, <2>1, TakeOrderly
  <2>2. CASE ReadRuleSet(t) \/ Start(t)  BY <1>2, <2>2, StartOrderly
  <2>3. CASE CompileRules(t)             BY <1>2, <2>3, CompileOrderly
  <2>4. CASE ClearResults(t)             BY <1>2, <2>4, ClearOrderly
  <2>5. ASSUME NEW c \in Candidates, PutResult(t, c) PROVE Orderly'  BY <1>2, <2>5, PutOrderly
  <2>6. ASSUME NEW c \in Candidates, SetScore(t, c) PROVE Orderly'   BY <1>2, <2>6, ScoreOrderly
  <2>7. CASE Rank(t)                     BY <1>2, <2>7, RankOrderly
  <2>8. CASE CutShortlist(t)             BY <1>2, <2>8, CutOrderly
  <2>9. CASE Complete(t) \/ Fail(t)      BY <1>2, <2>9, EndOrderly
  <2> QED  BY <1>4, <2>1, <2>2, <2>3, <2>4, <2>5, <2>6, <2>7, <2>8, <2>9 DEF ThreadStep
<1> QED  BY <1>3, <1>4 DEF Next

\* To patient clients the run does one thing at a time, each with the current rules.
THEOREM PatientInductive == Spec => []PatientInv
<1>1. ASSUME UNCHANGED vars PROVE PatientInv' = PatientInv
  BY <1>1
  DEF vars, table, PatientInv, NobodyIsHastyAtFirst, Patient, Orderly, OneThingAtATime, ExecutionIsFirst,
      UnderWay, RulesAreBroughtIn, EditsAreMade, EditHolds, ScreeningIsCurrent, IsCurrent, CompleteIsCurrent,
      Screened, Scored, Active, InFlight, Edited, IsSettled
<1>2. RunInv /\ PatientInv /\ [Next]_vars => PatientInv'  BY <1>1, PatientStep
<1> QED  BY <1>2, InitOrderly, RunInductive, PTL DEF Spec

\* add_run_rule, remove_run_rule and rescreen: the edits of clients that wait for the
\* run to settle hold, no earlier completion is shown for them, and once nothing is
\* under way the results, scores and shortlist of a complete run are those of its rules.
THEOREM PatientEdits == Spec => []PatientEditsTakeEffect
<1>1. ASSUME RunInv, PatientInv PROVE PatientEditsTakeEffect
  <2> SUFFICES ASSUME Patient
               PROVE  AcceptedEditsHold /\ NoStaleComplete /\ ResultsAreCurrent
    BY DEF PatientEditsTakeEffect
  <2>1. Orderly  BY <1>1 DEF PatientInv
  <2>2. AcceptedEditsHold
    <3> SUFFICES ASSUME NEW r \in Requests, request[r].pc = "done"
                 PROVE  EditHolds(r)
      BY DEF AcceptedEditsHold, EditHolds, Edited
    <3> QED  BY <2>1 DEF Orderly, EditsAreMade, Edited
  <2>3. NoStaleComplete
    <3> SUFFICES ASSUME NEW r \in Requests, UnderWay(r)
                 PROVE  status # "COMPLETE"
      BY DEF NoStaleComplete
    <3>1. tasks # <<>> \/ Active # {}  BY DEF UnderWay, Active
    <3> QED  BY <2>1, <3>1 DEF Orderly, OneThingAtATime
  <2>4. ResultsAreCurrent
    <3> SUFFICES ASSUME Quiet, status = "COMPLETE"
                 PROVE  /\ shortlist = {rules}
                        /\ \A c \in Candidates :
                              /\ result[c].outcome # "none" /\ result[c].under = rules
                              /\ result[c].scored = IF result[c].outcome = "eligible" THEN {rules} ELSE {}
      BY DEF ResultsAreCurrent
    <3>1. tasks = <<>> /\ Active = {} /\ InFlight = {}  BY DEF Quiet, Active
    <3>2. shortlist = {rules} /\ \A c \in Candidates : Scored(c, rules)
      BY <2>1, <3>1 DEF Orderly, CompleteIsCurrent
    <3> SUFFICES ASSUME NEW c \in Candidates
                 PROVE  /\ result[c].outcome # "none" /\ result[c].under = rules
                        /\ result[c].scored = IF result[c].outcome = "eligible" THEN {rules} ELSE {}
      BY <3>2
    <3>3. CASE result[c] = Row("eligible", rules, {rules})  BY <3>3 DEF Row
    <3>4. CASE result[c] = Row("excluded", rules, {})  BY <3>4 DEF Row
    <3> QED  BY <3>2, <3>3, <3>4 DEF Scored
  <2> QED  BY <2>2, <2>3, <2>4
<1> QED  BY <1>1, RunInductive, PatientInductive, PTL
=============================================================================
