------------------------------ MODULE LlmClient ------------------------------
(***************************************************************************)
(* The inference client (llm/client.py): pipeline threads share one        *)
(* RetryingClient over a RoutingClient over OpenAICompatClients.  Each of  *)
(* these finds out which request style its server accepts, in two fields   *)
(* that the threads read and write without a lock.                         *)
(*                                                                         *)
(* A style is a pair of a structured-output mode and whether the extra     *)
(* fields are sent.  The text of requests and replies is left out.         *)
(***************************************************************************)
EXTENDS Naturals, SequencesExt

CONSTANTS
    Threads,
    Tasks, CompileTasks,   \* the tasks that are called, and those routed apart
    Accepts,               \* [task |-> the styles its server takes for it]
    HasExtras,             \* whether the settings ask for extra fields at all
    Attempts,              \* max_retries + 1
    Concurrency,           \* llm_max_concurrency
    MaxFaults, MaxCalls    \* bounds: faults in all, calls of a thread

SCHEMA_MODES == <<"json_schema", "json_object_schema", "guided_json", "json_object">>
Modes  == ToSet(SCHEMA_MODES)
Styles == [mode : Modes, extras : BOOLEAN]

ASSUME ClientAssumption ==
    /\ Attempts \in Nat \ {0} /\ Concurrency \in Nat \ {0} /\ HasExtras \in BOOLEAN
    /\ CompileTasks \subseteq Tasks /\ Accepts \in [Tasks -> SUBSET Styles]

VARIABLES
    mode, extras,   \* _schema_mode and _send_extras, by server; "none" at first
    free,           \* permits left in each client's semaphore
    pc, task, attempt,
    seen,           \* the mode that the call under way has read
    tries,          \* the styles it has yet to try, the current one first
    calls,          \* how many calls each thread has made
    met,            \* history: how many faults the thread's current call has met
    faults

settings == <<mode, extras>>
vars == <<mode, extras, free, pc, task, attempt, seen, tries, calls, met, faults>>

\* RoutingClient: the compile passes have a server of their own.
Server(t) == IF task[t] \in CompileTasks THEN "compile" ELSE "bulk"
Servers   == {"bulk", "compile"}

Init ==
    /\ mode = [s \in Servers |-> "none"]
    /\ extras = [s \in Servers |-> "none"]
    /\ free = [s \in Servers |-> Concurrency]
    /\ pc = [t \in Threads |-> "idle"]
    /\ task \in [Threads -> Tasks]
    /\ attempt = [t \in Threads |-> 0]
    /\ seen = [t \in Threads |-> "none"]
    /\ tries = [t \in Threads |-> <<>>]
    /\ calls = [t \in Threads |-> 0]
    /\ met = [t \in Threads |-> 0]
    /\ faults = 0

Goto(t, label) == pc' = [pc EXCEPT ![t] = label]

-----------------------------------------------------------------------------
\* RetryingClient.json_call begins.
Call(t) ==
    /\ pc[t] \in {"idle", "answered", "failed"} /\ calls[t] < MaxCalls
    /\ calls' = [calls EXCEPT ![t] = @ + 1]
    /\ \E k \in Tasks : task' = [task EXCEPT ![t] = k]
    /\ attempt' = [attempt EXCEPT ![t] = 1]
    /\ met' = [met EXCEPT ![t] = 0]
    /\ Goto(t, "begun")
    /\ UNCHANGED <<settings, free, seen, tries, faults>>

\* json_call: what has been remembered of the mode,
ReadMode(t) ==
    /\ pc[t] = "begun"
    /\ seen' = [seen EXCEPT ![t] = mode[Server(t)]]
    /\ Goto(t, "read")
    /\ UNCHANGED <<settings, free, task, attempt, tries, calls, met, faults>>

\* The extras to try: with none to send, only the bare request, which is the same.
ExtrasToTry(known) ==
    IF known = "none" THEN (IF HasExtras THEN <<TRUE, FALSE>> ELSE <<FALSE>>)
    ELSE <<known = "sent">>

\* The styles to try, mode by mode.
StylesToTry(modes, options) ==
    [i \in 1..(Len(modes) * Len(options)) |->
        [mode   |-> modes[((i - 1) \div Len(options)) + 1],
         extras |-> options[((i - 1) % Len(options)) + 1]]]

\* and what of the extras.
ReadExtras(t) ==
    /\ pc[t] = "read"
    /\ tries' = [tries EXCEPT ![t] =
                    StylesToTry(IF seen[t] = "none" THEN SCHEMA_MODES ELSE <<seen[t]>>,
                                ExtrasToTry(extras[Server(t)]))]
    /\ Goto(t, "next")
    /\ UNCHANGED <<settings, free, task, attempt, seen, calls, met, faults>>

\* _post: one of the client's permits for the time of the request.
Post(t) ==
    /\ pc[t] = "next" /\ tries[t] # <<>> /\ free[Server(t)] > 0
    /\ free' = [free EXCEPT ![Server(t)] = @ - 1]
    /\ Goto(t, "posted")
    /\ UNCHANGED <<settings, task, attempt, seen, tries, calls, met, faults>>

\* The call fails at once.
GivesUp(t) ==
    /\ Goto(t, "failed")
    /\ UNCHANGED attempt
\* RetryingClient: an LLMError is met by another attempt, if there is one left.
AttemptFails(t) ==
    /\ Goto(t, IF attempt[t] < Attempts THEN "begun" ELSE "failed")
    /\ attempt' = [attempt EXCEPT ![t] = IF @ < Attempts THEN @ + 1 ELSE @]

\* "no supported JSON mode on this server"
NoStyleLeft(t) ==
    /\ pc[t] = "next" /\ tries[t] = <<>>
    /\ AttemptFails(t)
    /\ UNCHANGED <<settings, free, task, seen, tries, calls, met, faults>>

\* A mistaken release: a rejected request keeps its permit.
ReleaseUnlessRejected(t) ==
    free' = IF Head(tries[t]) \in Accepts[task[t]] THEN [free EXCEPT ![Server(t)] = @ + 1] ELSE free
Release(t) == free' = [free EXCEPT ![Server(t)] = @ + 1]

Probing(t) == mode[Server(t)] = "none" \/ extras[Server(t)] = "none"

\* The server does not take the style.  A rejection is only expected while neither
\* field is settled, by now: another thread may have settled them.
Rejected(t) ==
    /\ pc[t] = "posted" /\ Head(tries[t]) \notin Accepts[task[t]]
    /\ Release(t)
    /\ IF Probing(t) THEN /\ tries' = [tries EXCEPT ![t] = Tail(@)]
                          /\ Goto(t, "next")
                          /\ UNCHANGED attempt
       ELSE AttemptFails(t) /\ UNCHANGED tries
    /\ UNCHANGED <<settings, task, seen, calls, met, faults>>

Accepted(t) ==
    /\ pc[t] = "posted" /\ Head(tries[t]) \in Accepts[task[t]]
    /\ Release(t)
    /\ Goto(t, "accepted")
    /\ UNCHANGED <<settings, task, attempt, seen, tries, calls, met, faults>>

\* An unreachable or failing server, a truncated answer, or none after the
\* reasoning: an LLMError that no other style would cure.  What is not even a
\* reply in the server's form raises another error, which is not met by a retry.
Fault(t) ==
    /\ pc[t] = "posted" /\ faults < MaxFaults
    /\ faults' = faults + 1
    /\ met' = [met EXCEPT ![t] = @ + 1]
    /\ Release(t)
    /\ AttemptFails(t) \/ GivesUp(t)
    /\ UNCHANGED <<settings, task, seen, tries, calls>>

\* A mistaken memory: the mode that was tried first.
RememberFirst(t) ==
    /\ pc[t] = "accepted"
    /\ mode' = [mode EXCEPT ![Server(t)] = IF seen[t] = "none" THEN SCHEMA_MODES[1] ELSE seen[t]]
    /\ Goto(t, "half")
    /\ UNCHANGED <<extras, free, task, attempt, seen, tries, calls, met, faults>>
\* The style is remembered, one field
RememberMode(t) ==
    /\ pc[t] = "accepted"
    /\ mode' = [mode EXCEPT ![Server(t)] = Head(tries[t]).mode]
    /\ Goto(t, "half")
    /\ UNCHANGED <<extras, free, task, attempt, seen, tries, calls, met, faults>>

\* after the other;
RememberExtras(t) ==
    /\ pc[t] = "half"
    /\ extras' = [extras EXCEPT ![Server(t)] = IF Head(tries[t]).extras THEN "sent" ELSE "bare"]
    /\ Goto(t, "parse")
    /\ UNCHANGED <<mode, free, task, attempt, seen, tries, calls, met, faults>>

\* parse_json_lenient finds an object in the answer,
Parse(t) ==
    /\ pc[t] = "parse"
    /\ Goto(t, "answered")
    /\ UNCHANGED <<settings, free, task, attempt, seen, tries, calls, met, faults>>

\* or does not.
Garbage(t) ==
    /\ pc[t] = "parse" /\ faults < MaxFaults
    /\ faults' = faults + 1
    /\ met' = [met EXCEPT ![t] = @ + 1]
    /\ AttemptFails(t)
    /\ UNCHANGED <<settings, free, task, seen, tries, calls>>

Moves(t) ==
    \/ ReadMode(t) \/ ReadExtras(t) \/ Post(t) \/ NoStyleLeft(t) \/ Rejected(t) \/ Accepted(t)
    \/ RememberMode(t) \/ RememberExtras(t) \/ Parse(t)
Next == \E t \in Threads : Call(t) \/ Moves(t) \/ Fault(t) \/ Garbage(t)

\* A thread goes on: the server answers a request, or the client's timeout strikes.
\* Who waits for a permit gets one when nobody else wants it, which is enough
\* because a pass over a batch makes a limited number of calls.
Spec == Init /\ [][Next]_vars /\ \A t \in Threads : WF_vars(Moves(t))
-----------------------------------------------------------------------------
(* Properties.                                                             *)

Settled(s) == mode[s] # "none" /\ extras[s] # "none"
Remembered(s) == [mode |-> mode[s], extras |-> extras[s] = "sent"]
Writing(s) == \E t \in Threads : Server(t) = s /\ pc[t] = "half"

\* client.py: "which structured-output style the server accepts" is negotiated once
\* and remembered: what the two fields hold, when nobody is writing them, is a
\* style that the server takes for some task, whatever threads probed at once.
RememberedIsAccepted ==
    \A s \in Servers : Settled(s) /\ ~Writing(s) =>
        \E k \in Tasks : /\ Remembered(s) \in Accepts[k]
                         /\ (k \in CompileTasks <=> s = "compile")

\* A server that takes some style never fails a call of its own accord: a call
\* fails because the server failed it in between, never because other threads
\* settled the style while its own probe was under way.
NegotiationFailsNoOne ==
    \A t \in Threads : pc[t] = "failed" /\ Accepts[task[t]] # {} => met[t] > 0

\* Threads that probe at once settle on a style that works, to the cost of none.
NegotiationIsSafe == RememberedIsAccepted /\ NegotiationFailsNoOne

\* Every call ends, for all the permits that others hold.
CallsEnd == \A t \in Threads : pc[t] = "begun" ~> pc[t] \in {"answered", "failed"}
-----------------------------------------------------------------------------
(* Why it is safe, on servers that take a style for every task or for none. *)

\* "which structured-output style the server accepts": a matter of the server.
UniformServers ==
    \A j, k \in Tasks : (j \in CompileTasks <=> k \in CompileTasks) => Accepts[j] = Accepts[k]
\* client.py: with no extra field to send "the bare attempt is the same request".
SameRequest ==
    ~HasExtras => \A k \in Tasks, m \in Modes :
        [mode |-> m, extras |-> TRUE] \in Accepts[k] => [mode |-> m, extras |-> FALSE] \in Accepts[k]

Takes(s) == UNION {Accepts[k] : k \in {j \in Tasks : j \in CompileTasks <=> s = "compile"}}
Offered  == {style \in Styles : style.extras => HasExtras}
Usable(s) == Offered \cap Takes(s) # {}

\* The style that a probe which finds nothing remembered comes to first.
ComesFirst(style, accepted) ==
    /\ style \in Offered \cap accepted
    /\ \E p \in 1..4 :
          /\ style.mode = SCHEMA_MODES[p]
          /\ \A q \in 1..4, other \in Offered \cap accepted :
                other.mode = SCHEMA_MODES[q] => p < q \/ (p = q /\ (other.extras => style.extras))
First(s) == CHOOSE style \in Styles : ComesFirst(style, Takes(s))

\* A list of styles of which this is the first one that is accepted.
LeadsTo(styles, style, accepted) ==
    \E i \in 1..Len(styles) : styles[i] = style /\ \A j \in 1..(i - 1) : styles[j] \notin accepted

ClientTypes ==
    /\ mode \in [Servers -> Modes \cup {"none"}]
    /\ extras \in [Servers -> {"none", "sent", "bare"}]
    /\ pc \in [Threads -> {"idle", "begun", "read", "next", "posted", "accepted", "half",
                           "parse", "answered", "failed"}]
    /\ task \in [Threads -> Tasks]
    /\ attempt \in [Threads -> Nat] /\ met \in [Threads -> Nat]
    /\ seen \in [Threads -> Modes \cup {"none"}]
    /\ tries \in [Threads -> Seq(Styles)]

\* Each field holds its half of the server's first style, or nothing.
FieldsAgree ==
    \A s \in Servers :
        /\ mode[s] # "none" => Usable(s) /\ mode[s] = First(s).mode
        /\ extras[s] # "none" => Usable(s) /\ (extras[s] = "sent" <=> First(s).extras)

\* What a thread has read leads it to that style,
ProbesConverge ==
    \A t \in Threads :
        /\ pc[t] = "read" /\ seen[t] # "none" =>
              Usable(Server(t)) /\ seen[t] = First(Server(t)).mode
        /\ pc[t] \in {"next", "posted"} /\ Usable(Server(t)) =>
              LeadsTo(tries[t], First(Server(t)), Takes(Server(t)))
        /\ pc[t] = "posted" => tries[t] # <<>>
        /\ pc[t] \in {"accepted", "half"} =>
              Usable(Server(t)) /\ Head(tries[t]) = First(Server(t))

\* and at once if others have settled it in the first attempt's way.
SecondAttemptsHit ==
    \A t \in Threads :
        attempt[t] >= 2 /\ met[t] = 0 /\ Usable(Server(t)) =>
            /\ pc[t] \in {"begun", "read"} => Settled(Server(t))
            /\ pc[t] = "read" => seen[t] # "none"
            /\ pc[t] \in {"next", "posted"} => Head(tries[t]) = First(Server(t))

ClientInv ==
    /\ ClientTypes /\ FieldsAgree /\ ProbesConverge /\ SecondAttemptsHit
    /\ NegotiationFailsNoOne
=============================================================================
