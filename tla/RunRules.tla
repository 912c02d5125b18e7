------------------------------ MODULE RunRules ------------------------------
(***************************************************************************)
(* One analysis run of the screening pipeline: requests that edit its rule *)
(* set (add_run_rule and remove_run_rule of api/main.py, each in a thread  *)
(* of the HTTP server) and the pool that screens it (execute_run and       *)
(* rescreen of pipeline/runner.py), over the tables runs and run_results.  *)
(*                                                                         *)
(* A statement on the store is atomic (one lock); nothing larger is.       *)
(***************************************************************************)
EXTENDS Sequences, FiniteSetsExt

CONSTANTS
    Requests,     \* the edits that clients send, additions or removals
    Threads,      \* the job pool
    Candidates,   \* the batch's ready candidates
    PlanIds,      \* the numbers of the rules the run's plan compiles to, or of
                  \* those copied from another run
    MayFail       \* may screening and ranking throw?

ASSUME RunAssumption ==
    /\ PlanIds \in SUBSET (Nat \ {0}) /\ IsFiniteSet(PlanIds)
    /\ MayFail \in BOOLEAN
    /\ "plan" \notin Requests /\ "execute" \notin Requests

VARIABLES
    status,      \* runs.status
    rules,       \* runs.rules_json, {} when there is none
    shortlist,   \* the rule set behind runs.shortlist_json, if there is one
    result,      \* run_results, a row per candidate
    tasks,       \* the pool's queue: "execute", or the request to rescreen for
    thread,      \* the threads of the pool
    request      \* the requests

table == <<status, rules, shortlist, result>>
vars  == <<table, tasks, thread, request>>

\* A rule: its id, and who brought it in (which stands for its text).
PlanRules == {[id |-> i, by |-> "plan"] : i \in PlanIds}
NoRule    == [id |-> 0, by |-> "plan"]
Ids(set)  == {rule.id : rule \in set}

\* A mistaken NewId: counts the rules and does not look at their ids.
NewIdByCount(set) == Cardinality(set) + 1

\* add_rule: rule_<n + 1> for the n rules there are, or the next free number.
NewId(set) == LET n == Cardinality(set) IN Min(((n + 1)..(2 * n + 1)) \ Ids(set))

\* No row: cleared, or never written.  scored: the rule set behind score_json.
NoResult   == [outcome |-> "none", under |-> {}, scored |-> {}]
IdleThread == [pc |-> "idle", task |-> "execute", rules |-> {}, todo |-> {}, eligible |-> {}]
NewRequest == [pc |-> "new", kind |-> "add", rule |-> NoRule, seen |-> {}, hasty |-> FALSE]

\* POST /runs: create_run, then the execution is handed to the pool.
Init ==
    /\ status = "QUEUED"
    /\ rules = {} /\ shortlist = {}
    /\ result = [c \in Candidates |-> NoResult]
    /\ tasks = <<"execute">>
    /\ thread = [t \in Threads |-> IdleThread]
    /\ request = [r \in Requests |-> NewRequest]

-----------------------------------------------------------------------------
(* Requests.  "Over" is 202 or an error answered.                          *)

IsSettled == status \in {"COMPLETE", "FAILED"}
InFlight  == {r \in Requests : request[r].pc \notin {"new", "done", "refused"}}

\* 409 while the run is RUNNING.  A client removes a rule it has been shown.
\* hasty is history: the run was not settled, or another edit was not over.
Send(r) ==
    /\ request[r].pc = "new"
    /\ \E kind \in {"add", "remove"}, rule \in rules \cup {NoRule} :
        /\ (kind = "add") <=> (rule = NoRule)
        /\ request' = [request EXCEPT ![r] =
               [pc   |-> IF status = "RUNNING" THEN "refused" ELSE "checked",
                kind |-> kind, rule |-> rule, seen |-> {},
                hasty |-> ~(IsSettled /\ InFlight = {})]]
    /\ UNCHANGED <<table, tasks, thread>>

\* Removing a rule that is not there is a KeyError, answered with 404.
ReadRules(r) ==
    /\ request[r].pc = "checked"
    /\ LET found == request[r].kind = "add" \/ request[r].rule.id \in Ids(rules)
       IN request' = [request EXCEPT ![r] = [@ EXCEPT
              !.pc = IF found THEN "read" ELSE "refused",
              !.seen = IF found THEN rules ELSE {}]]
    /\ UNCHANGED <<table, tasks, thread>>

\* The review of a new rule refuses it (RuleRejected, 422), or the model call fails.
RefuseRule(r) ==
    /\ request[r].pc = "read" /\ request[r].kind = "add"
    /\ request' = [request EXCEPT ![r].pc = "refused", ![r].seen = {}]
    /\ UNCHANGED <<table, tasks, thread>>

\* add_rule and remove_rule write the whole set they read.
AddRule(r) ==
    /\ request[r].pc = "read" /\ request[r].kind = "add"
    /\ LET rule == [id |-> NewId(request[r].seen), by |-> r]
       IN /\ rules' = request[r].seen \cup {rule}
          /\ request' = [request EXCEPT ![r] = [@ EXCEPT !.pc = "edited", !.rule = rule, !.seen = {}]]
    /\ UNCHANGED <<status, shortlist, result, tasks, thread>>

RemoveRule(r) ==
    /\ request[r].pc = "read" /\ request[r].kind = "remove"
    /\ rules' = {rule \in request[r].seen : rule.id # request[r].rule.id}
    /\ request' = [request EXCEPT ![r] = [@ EXCEPT !.pc = "edited", !.seen = {}]]
    /\ UNCHANGED <<status, shortlist, result, tasks, thread>>

\* A mistaken answer: the status is left to the rescreening.
SubmitOnly(r) ==
    /\ request[r].pc = "edited"
    /\ tasks' = Append(tasks, r)
    /\ request' = [request EXCEPT ![r].pc = "done"]
    /\ UNCHANGED <<table, thread>>

\* A mistaken order: the status is written after the task has been submitted.
SubmitThenQueue(r) ==
    \/ /\ request[r].pc = "edited"
       /\ tasks' = Append(tasks, r)
       /\ request' = [request EXCEPT ![r].pc = "queued"]
       /\ UNCHANGED <<table, thread>>
    \/ /\ request[r].pc = "queued"
       /\ status' = "QUEUED"
       /\ request' = [request EXCEPT ![r].pc = "done"]
       /\ UNCHANGED <<rules, shortlist, result, tasks, thread>>

\* update_run(status=QUEUED), then pool.submit, then the 202.
QueueRescreen(r) ==
    \/ /\ request[r].pc = "edited"
       /\ status' = "QUEUED"
       /\ request' = [request EXCEPT ![r].pc = "queued"]
       /\ UNCHANGED <<rules, shortlist, result, tasks, thread>>
    \/ /\ request[r].pc = "queued"
       /\ tasks' = Append(tasks, r)
       /\ request' = [request EXCEPT ![r].pc = "done"]
       /\ UNCHANGED <<table, thread>>

RequestStep(r) ==
    \/ ReadRules(r) \/ RefuseRule(r) \/ AddRule(r) \/ RemoveRule(r) \/ QueueRescreen(r)

-----------------------------------------------------------------------------
(* Threads of the pool.                                                    *)

Take(t) ==
    /\ thread[t].pc = "idle" /\ tasks # <<>>
    /\ thread' = [thread EXCEPT ![t] = [IdleThread EXCEPT
           !.task = Head(tasks),
           !.pc = IF Head(tasks) = "execute" THEN "starting" ELSE "reading"]]
    /\ tasks' = Tail(tasks)
    /\ UNCHANGED <<table, request>>

\* rescreen: the rule set it will screen with, before the run is RUNNING.
ReadRuleSet(t) ==
    /\ thread[t].pc = "reading"
    /\ thread' = [thread EXCEPT ![t].pc = "starting", ![t].rules = rules]
    /\ UNCHANGED <<table, tasks, request>>

Start(t) ==
    /\ thread[t].pc = "starting"
    /\ status' = "RUNNING"
    /\ thread' = [thread EXCEPT ![t].pc = IF thread[t].task = "execute" THEN "compiling" ELSE "clearing"]
    /\ UNCHANGED <<rules, shortlist, result, tasks, request>>

\* execute_run: _compile_rules, or _copy_rules from another run.
CompileRules(t) ==
    /\ thread[t].pc = "compiling"
    /\ rules' = PlanRules
    /\ thread' = [thread EXCEPT ![t].pc = "clearing", ![t].rules = PlanRules]
    /\ UNCHANGED <<status, shortlist, result, tasks, request>>

ClearResults(t) ==
    /\ thread[t].pc = "clearing"
    /\ result' = [c \in Candidates |-> NoResult]
    /\ thread' = [thread EXCEPT ![t].pc = "screening", ![t].todo = Candidates]
    /\ UNCHANGED <<status, rules, shortlist, tasks, request>>

\* put_result: COALESCE keeps the score a row already has.
PutResult(t, c) ==
    /\ thread[t].pc = "screening" /\ c \in thread[t].todo
    /\ \E outcome \in {"eligible", "excluded"} :
        /\ result' = [result EXCEPT ![c] = [@ EXCEPT !.outcome = outcome, !.under = thread[t].rules]]
        /\ thread' = [thread EXCEPT
               ![t].todo = @ \ {c},
               ![t].eligible = IF outcome = "eligible" THEN @ \cup {c} ELSE @]
    /\ UNCHANGED <<status, rules, shortlist, tasks, request>>

\* _rank scores the candidates that this screening found eligible.
Rank(t) ==
    /\ thread[t].pc = "screening" /\ thread[t].todo = {}
    /\ thread' = [thread EXCEPT ![t].pc = "scoring", ![t].todo = thread[t].eligible]
    /\ UNCHANGED <<table, tasks, request>>

\* A mistaken score: it is inserted where there is no row.
SetScoreAnyway(t, c) ==
    /\ thread[t].pc = "scoring" /\ c \in thread[t].todo
    /\ result' = [result EXCEPT ![c].scored = {thread[t].rules}]
    /\ thread' = [thread EXCEPT ![t].todo = @ \ {c}]
    /\ UNCHANGED <<status, rules, shortlist, tasks, request>>

\* set_result_score updates the row if there is one.
SetScore(t, c) ==
    /\ thread[t].pc = "scoring" /\ c \in thread[t].todo
    /\ result' = [result EXCEPT ![c] =
           IF @.outcome = "none" THEN @ ELSE [@ EXCEPT !.scored = {thread[t].rules}]]
    /\ thread' = [thread EXCEPT ![t].todo = @ \ {c}]
    /\ UNCHANGED <<status, rules, shortlist, tasks, request>>

CutShortlist(t) ==
    /\ thread[t].pc = "scoring" /\ thread[t].todo = {}
    /\ shortlist' = {thread[t].rules}
    /\ thread' = [thread EXCEPT ![t].pc = "completing"]
    /\ UNCHANGED <<status, rules, result, tasks, request>>

Complete(t) ==
    /\ thread[t].pc = "completing"
    /\ status' = "COMPLETE"
    /\ thread' = [thread EXCEPT ![t] = IdleThread]
    /\ UNCHANGED <<rules, shortlist, result, tasks, request>>

\* A mistaken handler: the exception ends the task and is only logged.
FailQuietly(t) ==
    /\ MayFail
    /\ thread[t].pc \in {"compiling", "clearing", "screening", "scoring"}
    /\ thread' = [thread EXCEPT ![t] = IdleThread]
    /\ UNCHANGED <<table, tasks, request>>

\* The except clause of execute_run and rescreen.
Fail(t) ==
    /\ MayFail
    /\ thread[t].pc \in {"compiling", "clearing", "screening", "scoring"}
    /\ status' = "FAILED"
    /\ thread' = [thread EXCEPT ![t] = IdleThread]
    /\ UNCHANGED <<rules, shortlist, result, tasks, request>>

ThreadStep(t) ==
    \/ Take(t) \/ ReadRuleSet(t) \/ Start(t) \/ CompileRules(t) \/ ClearResults(t)
    \/ \E c \in Candidates : PutResult(t, c) \/ SetScore(t, c)
    \/ Rank(t) \/ CutShortlist(t) \/ Complete(t) \/ Fail(t)

Next ==
    \/ \E r \in Requests : Send(r) \/ RequestStep(r)
    \/ \E t \in Threads : ThreadStep(t)

Spec == Init /\ [][Next]_vars

\* A request or a task that has begun goes on: every model call has a timeout.
FairSpec ==
    /\ Spec
    /\ \A r \in Requests : WF_vars(RequestStep(r))
    /\ \A t \in Threads : WF_vars(ThreadStep(t))

-----------------------------------------------------------------------------
(* Properties.                                                             *)

RuleType == [id : Nat, by : Requests \cup {"plan"}]
RuleSets == SUBSET RuleType

ResultRows ==
    {row \in [outcome : {"none", "eligible", "excluded"}, under : RuleSets, scored : SUBSET RuleSets] :
        row.outcome = "none" => row = NoResult}
ThreadStates ==
    [pc : {"idle", "reading", "starting", "compiling", "clearing", "screening", "scoring", "completing"},
     task : Requests \cup {"execute"}, rules : RuleSets,
     todo : SUBSET Candidates, eligible : SUBSET Candidates]
RequestStates ==
    [pc : {"new", "checked", "read", "edited", "queued", "done", "refused"},
     kind : {"add", "remove"}, rule : RuleType, seen : RuleSets,
     hasty : BOOLEAN]

TypeOK ==
    /\ status \in {"QUEUED", "RUNNING", "COMPLETE", "FAILED"}
    /\ rules \in RuleSets /\ shortlist \in SUBSET RuleSets
    /\ result \in [Candidates -> ResultRows]
    /\ tasks \in Seq(Requests \cup {"execute"})
    /\ thread \in [Threads -> ThreadStates]
    /\ request \in [Requests -> RequestStates]

\* A task that is waiting for a thread, or in its hands.
UnderWay(task) ==
    \/ \E i \in DOMAIN tasks : tasks[i] = task
    \/ \E t \in Threads : thread[t].pc # "idle" /\ thread[t].task = task
Quiet == InFlight = {} /\ tasks = <<>> /\ \A t \in Threads : thread[t].pc = "idle"

\* However edits and screenings interleave, a run nobody works on is complete
\* or failed: a client that polls its status does not wait for ever.
QuietRunsAreSettled == Quiet => IsSettled

\* No two rules of a run have the same id, so a removal removes one rule.
IdsAreUnique == \A x, y \in rules : x.id = y.id => x = y

\* What makes these two inductive: a rule set that a request has read is as good
\* as the stored one, and an unsettled run has somebody who will settle it.
Numbered(set) == IsFiniteSet(set) /\ \A x, y \in set : x.id = y.id => x = y
SomebodyWorks ==
    \/ \E r \in Requests : request[r].pc = "queued"
    \/ tasks # <<>>
    \/ \E t \in Threads : thread[t].pc # "idle"
RunInv ==
    /\ TypeOK
    /\ Numbered(rules) /\ \A r \in Requests : Numbered(request[r].seen)
    /\ IsSettled \/ SomebodyWorks

\* Every screening ends: from some time on the run is complete or failed.
RunSettles == <>[]IsSettled

\* add_run_rule's docstring: a rule that is not refused "is compiled, added".
\* After the 202 it is in the run's set until a removal of it is accepted, and a
\* rule whose removal has been accepted is not.
AcceptedEditsHold ==
    \A r \in Requests : request[r].pc = "done" =>
        IF request[r].kind = "add"
        THEN \/ request[r].rule \in rules
             \/ \E q \in Requests :
                   /\ request[q].kind = "remove" /\ request[q].rule = request[r].rule
                   /\ request[q].pc \in {"edited", "queued", "done"}
        ELSE request[r].rule \notin rules

\* add_run_rule: "a client polling straight after the 202 cannot read the
\* previous screening's 'complete'".  While an accepted edit waits for its
\* screening or is being screened, the run is not complete.
NoStaleComplete ==
    \A r \in Requests : request[r].pc = "done" /\ UnderWay(r) => status # "COMPLETE"

\* rescreen: the run is screened and ranked "with the run's current rule set".
\* Once a run is complete and nothing is under way, all its results, scores and
\* its shortlist come from the rules it shows.
ResultsAreCurrent ==
    Quiet /\ status = "COMPLETE" =>
        /\ shortlist = {rules}
        /\ \A c \in Candidates :
               /\ result[c].outcome # "none" /\ result[c].under = rules
               /\ result[c].scored = IF result[c].outcome = "eligible" THEN {rules} ELSE {}

\* To clients that send an edit only when the run has settled after the one
\* before, all three promises are kept: their edits hold, no earlier completion is
\* shown for them, and the results follow them.
Patient == \A r \in Requests : ~request[r].hasty
PatientEditsTakeEffect == Patient => AcceptedEditsHold /\ NoStaleComplete /\ ResultsAreCurrent

-----------------------------------------------------------------------------
(* Why: to patient clients one thing happens at a time, an edit, a task    *)
(* that waits or a screening.                                              *)

Active == {t \in Threads : thread[t].pc # "idle"}
Edited == {r \in Requests : request[r].pc \in {"edited", "queued", "done"}}

OneThingAtATime ==
    \/ /\ tasks = <<>> /\ Active = {}
       /\ \A q, r \in InFlight : q = r
       /\ IF \E r \in InFlight : request[r].pc = "queued" THEN status = "QUEUED" ELSE IsSettled
    \/ /\ InFlight = {} /\ Active = {} /\ status = "QUEUED"
       /\ \E task \in Requests \cup {"execute"} : tasks = <<task>>
    \/ /\ InFlight = {} /\ tasks = <<>>
       /\ \E t \in Threads :
             /\ Active = {t}
             /\ status = IF thread[t].pc \in {"reading", "starting"} THEN "QUEUED" ELSE "RUNNING"

\* The execution is over before the first edit is sent.
ExecutionIsFirst ==
    UnderWay("execute") => \A r \in Requests : request[r].pc = "new"

\* A rule that a request brought in, wherever it is known, has been added.
RulesAreBroughtIn ==
    \A x \in rules \cup {request[r].rule : r \in {q \in Requests : request[q].kind = "remove"}} :
        x.by \in Requests => x.by \in Edited /\ request[x.by].kind = "add"

\* An edit is made to the rules that were shown, and holds.
EditHolds(r) ==
    IF request[r].kind = "add"
    THEN \/ request[r].rule \in rules
         \/ \E q \in Edited : request[q].kind = "remove" /\ request[q].rule = request[r].rule
    ELSE request[r].rule \notin rules
EditsAreMade ==
    \A r \in Requests :
        /\ request[r].pc = "read" => request[r].seen = rules
        /\ request[r].pc \in {"checked", "read"} /\ request[r].kind = "remove" =>
              request[r].rule \in rules
        /\ r \in Edited => EditHolds(r)

\* The rows of the candidates, as far as a screening with these rules has come.
Row(outcome, set, scored) == [outcome |-> outcome, under |-> set, scored |-> scored]
Screened(c, set) == \E outcome \in {"eligible", "excluded"} : result[c] = Row(outcome, set, {})
Scored(c, set) ==
    result[c] \in {Row("eligible", set, {set}), Row("excluded", set, {})}
IsCurrent(now) ==
    /\ \/ now.pc \in {"reading", "compiling"} \/ (now.pc = "starting" /\ now.task = "execute")
       \/ now.rules = rules
    /\ now.pc = "compiling" => now.task = "execute"
    /\ now.pc \in {"reading", "starting", "compiling", "clearing"} => now.eligible = {}
    /\ now.pc = "screening" =>
          /\ \A c \in Candidates : IF c \in now.todo THEN result[c] = NoResult ELSE Screened(c, rules)
          /\ now.eligible = {c \in Candidates : result[c].outcome = "eligible"}
    /\ now.pc = "scoring" =>
          \A c \in Candidates :
              IF c \in now.todo THEN result[c] = Row("eligible", rules, {}) ELSE Scored(c, rules)
    /\ now.pc = "completing" => shortlist = {rules} /\ \A c \in Candidates : Scored(c, rules)
ScreeningIsCurrent == \A t \in Active : IsCurrent(thread[t])

\* A complete run stays current until the next edit is made.
CompleteIsCurrent ==
    tasks = <<>> /\ Active = {} /\ InFlight \cap Edited = {} /\ status = "COMPLETE" =>
        shortlist = {rules} /\ \A c \in Candidates : Scored(c, rules)

NobodyIsHastyAtFirst == \A r \in Requests : request[r].pc = "new" => ~request[r].hasty

Orderly ==
    /\ OneThingAtATime /\ ExecutionIsFirst /\ RulesAreBroughtIn
    /\ EditsAreMade /\ ScreeningIsCurrent /\ CompleteIsCurrent
PatientInv == NobodyIsHastyAtFirst /\ (Patient => Orderly)
=============================================================================
