-------------------------- MODULE LlmClient_proofs ---------------------------
(***************************************************************************)
(* Proofs about the inference client: threads that probe a server at once  *)
(* agree on its style and fail no call, on servers that take the same      *)
(* styles for all their tasks, when every call may be tried twice.         *)
(***************************************************************************)
EXTENDS LlmClient, TLAPS

USE ClientAssumption

-----------------------------------------------------------------------------
(* The styles and their order.                                             *)

\* There are four modes, no two the same.
LEMMA FourModes ==
    /\ Len(SCHEMA_MODES) = 4 /\ SCHEMA_MODES \in Seq(Modes)
    /\ \A m \in Modes : \E p \in 1..4 : m = SCHEMA_MODES[p]
    /\ \A p \in 1..4 : SCHEMA_MODES[p] \in Modes /\ SCHEMA_MODES[p] # "none"
    /\ \A p, q \in 1..4 : SCHEMA_MODES[p] = SCHEMA_MODES[q] => p = q
<1>1. DOMAIN SCHEMA_MODES = 1..4  BY DEF SCHEMA_MODES
<1>2. SCHEMA_MODES[1] = "json_schema" /\ SCHEMA_MODES[2] = "json_object_schema"
      /\ SCHEMA_MODES[3] = "guided_json" /\ SCHEMA_MODES[4] = "json_object"
  BY DEF SCHEMA_MODES
<1>3. Modes = {SCHEMA_MODES[p] : p \in 1..4}  BY <1>1 DEF Modes, ToSet
<1>4. Len(SCHEMA_MODES) = 4  BY DEF SCHEMA_MODES
<1>5. SCHEMA_MODES \in Seq(Modes)
  <2>1. \A p \in 1..4 : SCHEMA_MODES[p] \in Modes  BY <1>3
  <2>2. Modes = {"json_schema", "json_object_schema", "guided_json", "json_object"}
    BY <1>2, <1>3
  <2> QED  BY <2>2 DEF SCHEMA_MODES
<1>6. \A p, q \in 1..4 : SCHEMA_MODES[p] = SCHEMA_MODES[q] => p = q  BY <1>2
<1>7. \A p \in 1..4 : SCHEMA_MODES[p] # "none"  BY <1>2
<1> QED  BY <1>3, <1>4, <1>5, <1>6, <1>7

\* A set of styles that are offered and accepted has one that comes first.
LEMMA OneComesFirst ==
    ASSUME NEW accepted, Offered \cap accepted # {}
    PROVE  \E style \in Styles : ComesFirst(style, accepted)
<1> DEFINE Has(p) == \E style \in Offered \cap accepted : style.mode = SCHEMA_MODES[p]
<1>1. \E p \in 1..4 : Has(p)
  BY FourModes DEF Offered, Styles
<1>2. \E p \in 1..4 : Has(p) /\ \A q \in 1..4 : Has(q) => p <= q
  <2> HIDE DEF Has
  <2>1. CASE Has(1)  BY <2>1
  <2>2. CASE ~Has(1) /\ Has(2)  BY <2>2
  <2>3. CASE ~Has(1) /\ ~Has(2) /\ Has(3)  BY <2>3
  <2>4. CASE ~Has(1) /\ ~Has(2) /\ ~Has(3)  BY <1>1, <2>4
  <2> QED  BY <2>1, <2>2, <2>3, <2>4
<1>3. PICK p \in 1..4 : Has(p) /\ \A q \in 1..4 : Has(q) => p <= q  BY <1>2
<1>4. CASE \E style \in Offered \cap accepted : style.mode = SCHEMA_MODES[p] /\ style.extras
  <2>1. PICK style \in Offered \cap accepted : style.mode = SCHEMA_MODES[p] /\ style.extras
    BY <1>4
  <2> QED  BY <1>3, <2>1 DEF ComesFirst, Offered
<1>5. CASE ~ \E style \in Offered \cap accepted : style.mode = SCHEMA_MODES[p] /\ style.extras
  <2>1. PICK style \in Offered \cap accepted : style.mode = SCHEMA_MODES[p]  BY <1>3
  <2> QED  BY <1>3, <1>5, <2>1 DEF ComesFirst, Offered
<1> QED  BY <1>4, <1>5

LEMMA FirstComesFirst ==
    ASSUME NEW s, Usable(s)
    PROVE  First(s) \in Styles /\ ComesFirst(First(s), Takes(s))
<1>1. \E style \in Styles : ComesFirst(style, Takes(s))  BY OneComesFirst DEF Usable
<1> QED  BY <1>1 DEF First

LEMMA FirstIsTaken ==
    ASSUME NEW s, Usable(s)
    PROVE  First(s) \in Takes(s) /\ First(s) \in Offered
BY FirstComesFirst DEF ComesFirst

-----------------------------------------------------------------------------
(* The lists of styles.                                                    *)

\* With one answer about the extras there is one style for each mode,
LEMMA OneOption ==
    ASSUME NEW modes \in Seq(Modes), NEW e \in BOOLEAN
    PROVE  /\ StylesToTry(modes, <<e>>) \in Seq(Styles)
           /\ Len(StylesToTry(modes, <<e>>)) = Len(modes)
           /\ \A i \in 1..Len(modes) :
                 StylesToTry(modes, <<e>>)[i] = [mode |-> modes[i], extras |-> e]
<1>1. Len(<<e>>) = 1 /\ Len(modes) * 1 = Len(modes) /\ Len(modes) \in Nat  OBVIOUS
<1>2. \A i \in 1..Len(modes) : ((i - 1) \div 1) + 1 = i /\ ((i - 1) % 1) + 1 = 1  BY <1>1
<1>3. StylesToTry(modes, <<e>>) = [i \in 1..Len(modes) |-> [mode |-> modes[i], extras |-> e]]
  BY <1>1, <1>2 DEF StylesToTry
<1>4. \A i \in 1..Len(modes) : [mode |-> modes[i], extras |-> e] \in Styles  BY DEF Styles
<1> DEFINE styles == [i \in 1..Len(modes) |-> [mode |-> modes[i], extras |-> e]]
<1>5. styles \in Seq(Styles) /\ Len(styles) = Len(modes)  BY <1>1, <1>4
<1> QED  BY <1>3, <1>5

\* and with two answers there are two.
LEMMA TwoOptions ==
    ASSUME NEW modes \in Seq(Modes)
    PROVE  /\ StylesToTry(modes, <<TRUE, FALSE>>) \in Seq(Styles)
           /\ Len(StylesToTry(modes, <<TRUE, FALSE>>)) = 2 * Len(modes)
           /\ \A i \in 1..(2 * Len(modes)) : \E p \in 1..Len(modes) :
                 \/ /\ i = 2 * p - 1
                    /\ StylesToTry(modes, <<TRUE, FALSE>>)[i] = [mode |-> modes[p], extras |-> TRUE]
                 \/ /\ i = 2 * p
                    /\ StylesToTry(modes, <<TRUE, FALSE>>)[i] = [mode |-> modes[p], extras |-> FALSE]
<1> DEFINE both == <<TRUE, FALSE>>
           list == StylesToTry(modes, both)
<1>1. Len(both) = 2 /\ both[1] = TRUE /\ both[2] = FALSE /\ Len(modes) \in Nat  OBVIOUS
<1>2. list = [i \in 1..(2 * Len(modes)) |->
                 [mode |-> modes[((i - 1) \div 2) + 1], extras |-> both[((i - 1) % 2) + 1]]]
  BY <1>1 DEF StylesToTry
<1>3. ASSUME NEW i \in 1..(2 * Len(modes))
      PROVE  \E p \in 1..Len(modes) :
                 \/ i = 2 * p - 1 /\ list[i] = [mode |-> modes[p], extras |-> TRUE]
                 \/ i = 2 * p /\ list[i] = [mode |-> modes[p], extras |-> FALSE]
  <2> DEFINE p == ((i - 1) \div 2) + 1
  <2>1. p \in 1..Len(modes)  BY <1>1
  <2>2. \/ i = 2 * p - 1 /\ ((i - 1) % 2) + 1 = 1
        \/ i = 2 * p /\ ((i - 1) % 2) + 1 = 2
    BY <1>1
  <2>3. list[i] = [mode |-> modes[p], extras |-> both[((i - 1) % 2) + 1]]  BY <1>2
  <2> HIDE DEF p, list
  <2> QED  BY <1>1, <2>1, <2>2, <2>3
<1>4. \A i \in 1..(2 * Len(modes)) : list[i] \in Styles
  <2> HIDE DEF list
  <2> SUFFICES ASSUME NEW i \in 1..(2 * Len(modes))
               PROVE  list[i] \in Styles
    OBVIOUS
  <2>1. PICK p \in 1..Len(modes) :
            list[i] \in {[mode |-> modes[p], extras |-> TRUE], [mode |-> modes[p], extras |-> FALSE]}
    BY <1>3
  <2>2. modes[p] \in Modes  BY <1>1
  <2>3. /\ [mode |-> modes[p], extras |-> TRUE] \in Styles
        /\ [mode |-> modes[p], extras |-> FALSE] \in Styles
    BY <2>2 DEF Styles
  <2> QED  BY <2>1, <2>3
<1>5. list \in Seq(Styles) /\ Len(list) = 2 * Len(modes)
  <2>1. 2 * Len(modes) \in Nat  BY <1>1
  <2> HIDE DEF both
  <2>2. DOMAIN list = 1..(2 * Len(modes)) /\ list = [i \in 1..(2 * Len(modes)) |-> list[i]]
    BY <1>2
  <2> HIDE DEF list
  <2> QED  BY <1>4, <2>1, <2>2
<1> QED  BY <1>3, <1>5

\* What a thread tries, whatever it remembers of a server's first style, comes to
\* that style before it comes to another one that the server accepts.
LEMMA ListsLeadToTheFirst ==
    ASSUME NEW accepted, NEW style \in Styles, ComesFirst(style, accepted),
           NEW modes \in {SCHEMA_MODES, <<style.mode>>},
           NEW options \in {ExtrasToTry("none"), <<style.extras>>}
    PROVE  LeadsTo(StylesToTry(modes, options), style, accepted)
<1> DEFINE list == StylesToTry(modes, options)
<1>1. style.mode \in Modes /\ style.extras \in BOOLEAN /\ (style.extras => HasExtras)
      /\ style = [mode |-> style.mode, extras |-> style.extras]
  BY DEF Styles, ComesFirst, Offered
<1>2. modes \in Seq(Modes)
  <2>1. <<style.mode>> \in Seq(Modes)  BY <1>1
  <2> QED  BY <2>1, FourModes
<1>3. PICK p \in 1..4 :
        /\ style.mode = SCHEMA_MODES[p]
        /\ \A q \in 1..4, other \in Offered \cap accepted :
              other.mode = SCHEMA_MODES[q] => p < q \/ (p = q /\ (other.extras => style.extras))
  BY DEF ComesFirst
<1>4. PICK r \in 1..Len(modes) :
        /\ modes[r] = style.mode
        /\ \A j \in 1..(r - 1) : j \in 1..(p - 1) /\ modes[j] = SCHEMA_MODES[j]
  <2>1. CASE modes = SCHEMA_MODES  BY <1>3, <2>1, FourModes
  <2>2. CASE modes = <<style.mode>>  BY <2>2
  <2> QED  BY <2>1, <2>2
<1>5. ASSUME NEW j \in 1..(r - 1), NEW e \in BOOLEAN, e => HasExtras
      PROVE  [mode |-> modes[j], extras |-> e] \notin accepted
  <2> DEFINE other == [mode |-> SCHEMA_MODES[j], extras |-> e]
  <2>1. j \in 1..(p - 1) /\ modes[j] = SCHEMA_MODES[j] /\ j \in 1..4 /\ ~(p < j) /\ p # j
    BY <1>4
  <2>2. other \in Offered  BY <1>5, <2>1, FourModes DEF Offered, Styles
  <2>3. other.mode = SCHEMA_MODES[j]  OBVIOUS
  <2> HIDE DEF other
  <2>4. other \notin accepted  BY <1>3, <2>1, <2>2, <2>3
  <2> QED  BY <2>1, <2>4 DEF other
<1>6. CASE options = <<style.extras>>
  <2>1. /\ Len(list) = Len(modes)
        /\ \A i \in 1..Len(modes) : list[i] = [mode |-> modes[i], extras |-> style.extras]
    BY <1>1, <1>2, <1>6, OneOption
  <2> HIDE DEF list
  <2>2. list[r] = style  BY <1>1, <1>4, <2>1
  <2>3. \A j \in 1..(r - 1) : list[j] \notin accepted
    <3> SUFFICES ASSUME NEW j \in 1..(r - 1)
                 PROVE  list[j] \notin accepted
      OBVIOUS
    <3>1. [mode |-> modes[j], extras |-> style.extras] \notin accepted  BY <1>1, <1>5
    <3>2. j \in 1..Len(modes)  BY <1>2
    <3> QED  BY <2>1, <3>1, <3>2
  <2> QED  BY <2>1, <2>2, <2>3 DEF LeadsTo, list
<1>7. CASE options = <<FALSE>> /\ ~HasExtras
  BY <1>1, <1>6, <1>7
<1>8. CASE options = <<TRUE, FALSE>> /\ HasExtras
  <2>1. /\ Len(list) = 2 * Len(modes)
        /\ \A i \in 1..(2 * Len(modes)) : \E n \in 1..Len(modes) :
              \/ i = 2 * n - 1 /\ list[i] = [mode |-> modes[n], extras |-> TRUE]
              \/ i = 2 * n /\ list[i] = [mode |-> modes[n], extras |-> FALSE]
    BY <1>2, <1>8, TwoOptions
  <2> HIDE DEF list
  <2>a. Len(modes) \in Nat  BY <1>2
  <2> DEFINE at == IF style.extras THEN 2 * r - 1 ELSE 2 * r
  <2>2. at \in 1..Len(list) /\ at \in Nat  BY <2>1, <2>a
  <2>3. list[at] = style
    <3>1. PICK n \in 1..Len(modes) :
              \/ at = 2 * n - 1 /\ list[at] = [mode |-> modes[n], extras |-> TRUE]
              \/ at = 2 * n /\ list[at] = [mode |-> modes[n], extras |-> FALSE]
      BY <2>1, <2>2
    <3>2. CASE style.extras
      <4>1. at = 2 * r - 1  BY <3>2
      <4>2. at # 2 * n /\ (at = 2 * n - 1 => n = r)  BY <4>1, <2>a
      <4> QED  BY <1>1, <1>4, <3>1, <3>2, <4>2
    <3>3. CASE ~style.extras
      <4>1. at = 2 * r  BY <3>3
      <4>2. at # 2 * n - 1 /\ (at = 2 * n => n = r)  BY <4>1, <2>a
      <4> QED  BY <1>1, <1>4, <3>1, <3>3, <4>2
    <3> QED  BY <3>2, <3>3
  <2>4. ASSUME NEW j \in 1..(at - 1)
        PROVE  list[j] \notin accepted
    <3>1. j \in 1..(2 * Len(modes))  BY <2>1, <2>2
    <3>2. PICK n \in 1..Len(modes) :
              \/ j = 2 * n - 1 /\ list[j] = [mode |-> modes[n], extras |-> TRUE]
              \/ j = 2 * n /\ list[j] = [mode |-> modes[n], extras |-> FALSE]
      BY <2>1, <3>1
    <3>3. CASE n \in 1..(r - 1)  BY <1>5, <1>8, <3>2, <3>3
    <3>4. CASE n \notin 1..(r - 1)
      <4>1. n = r /\ j = 2 * n - 1 /\ ~style.extras  BY <2>a, <3>2, <3>4
      <4>2. list[j] = [mode |-> SCHEMA_MODES[p], extras |-> TRUE]
        <5>1. list[j] = [mode |-> modes[n], extras |-> TRUE]  BY <2>a, <3>2, <4>1
        <5> QED  BY <1>3, <1>4, <4>1, <5>1
      <4>3. list[j] \in Offered /\ list[j].mode = SCHEMA_MODES[p] /\ list[j].extras
        BY <1>8, <4>2, FourModes DEF Offered, Styles
      <4> QED  BY <1>3, <4>1, <4>3
    <3> QED  BY <3>3, <3>4
  <2> QED  BY <2>2, <2>3, <2>4 DEF LeadsTo, list
<1> QED  BY <1>6, <1>7, <1>8 DEF ExtrasToTry

\* A thread that remembers both halves has one style to try.
LEMMA SettledTriesOne ==
    ASSUME NEW m \in Modes, NEW e \in BOOLEAN
    PROVE  Head(StylesToTry(<<m>>, <<e>>)) = [mode |-> m, extras |-> e]
<1>1. <<m>> \in Seq(Modes) /\ Len(<<m>>) = 1 /\ <<m>>[1] = m  OBVIOUS
<1> DEFINE modes == <<m>>
<1>a. modes \in Seq(Modes) /\ 1 \in 1..Len(modes) /\ modes[1] = m  BY <1>1
<1> HIDE DEF modes
<1>2. StylesToTry(modes, <<e>>)[1] = [mode |-> m, extras |-> e]  BY <1>a, OneOption
<1>3. StylesToTry(modes, <<e>>) \in Seq(Styles)  BY <1>a, OneOption
<1> USE DEF modes
<1> QED  BY <1>2, <1>3

-----------------------------------------------------------------------------
(* Tasks and their servers.                                                *)

\* What a call's server accepts of its task it accepts of all its tasks.
LEMMA TakesTheTask ==
    ASSUME UniformServers, ClientTypes, NEW t \in Threads
    PROVE  /\ Takes(Server(t)) = Accepts[task[t]]
           /\ Server(t) \in Servers
<1>1. task[t] \in Tasks  BY DEF ClientTypes
<1>2. Server(t) \in Servers /\ (Server(t) = "compile" <=> task[t] \in CompileTasks)
  BY DEF Server, Servers
<1>3. \A k \in Tasks : (k \in CompileTasks <=> Server(t) = "compile") => Accepts[k] = Accepts[task[t]]
  BY <1>1, <1>2 DEF UniformServers
<1>4. Takes(Server(t)) = Accepts[task[t]]  BY <1>1, <1>2, <1>3 DEF Takes
<1> QED  BY <1>2, <1>4

\* A server that accepts a style accepts one that is offered to it.
LEMMA AcceptingIsUsable ==
    ASSUME SameRequest, UniformServers, ClientTypes, NEW t \in Threads, Accepts[task[t]] # {}
    PROVE  Usable(Server(t))
<1>1. Takes(Server(t)) = Accepts[task[t]] /\ task[t] \in Tasks
  BY TakesTheTask DEF ClientTypes
<1>2. PICK style \in Styles : style \in Accepts[task[t]]  BY <1>1
<1>3. CASE style \in Offered  BY <1>1, <1>2, <1>3 DEF Usable
<1>4. CASE style \notin Offered
  <2>1. style.extras /\ ~HasExtras /\ style.mode \in Modes
        /\ style = [mode |-> style.mode, extras |-> TRUE]
    BY <1>4 DEF Offered, Styles
  <2>2. [mode |-> style.mode, extras |-> FALSE] \in Accepts[task[t]]
    BY <1>1, <1>2, <2>1 DEF SameRequest
  <2>3. [mode |-> style.mode, extras |-> FALSE] \in Offered  BY <2>1 DEF Offered, Styles
  <2> QED  BY <1>1, <2>2, <2>3 DEF Usable
<1> QED  BY <1>3, <1>4

\* The head of a list that leads to a style: the style itself, or one to pass over.
LEMMA HeadsAndTails ==
    ASSUME NEW accepted, NEW style \in accepted, NEW list \in Seq(Styles),
           LeadsTo(list, style, accepted)
    PROVE  /\ list # <<>>
           /\ Head(list) \in accepted => Head(list) = style
           /\ Head(list) \notin accepted => LeadsTo(Tail(list), style, accepted)
<1>1. PICK i \in 1..Len(list) : list[i] = style /\ \A j \in 1..(i - 1) : list[j] \notin accepted
  BY DEF LeadsTo
<1>2. list # <<>> /\ Head(list) = list[1] /\ Len(list) \in Nat  BY <1>1
<1>3. CASE i = 1  BY <1>1, <1>2, <1>3
<1>4. CASE i > 1
  <2>1. list[1] \notin accepted  BY <1>1, <1>4
  <2>2. Len(Tail(list)) = Len(list) - 1 /\ \A j \in 1..(Len(list) - 1) : Tail(list)[j] = list[j + 1]
    BY <1>2
  <2>3. i - 1 \in 1..Len(Tail(list)) /\ Tail(list)[i - 1] = style  BY <1>1, <1>4, <2>2
  <2>4. \A j \in 1..((i - 1) - 1) : Tail(list)[j] \notin accepted
    <3> SUFFICES ASSUME NEW j \in 1..((i - 1) - 1)
                 PROVE  Tail(list)[j] \notin accepted
      OBVIOUS
    <3>1. Tail(list)[j] = list[j + 1] /\ j + 1 \in 1..(i - 1)  BY <2>2
    <3> QED  BY <1>1, <3>1
  <2> QED  BY <1>2, <2>1, <2>3, <2>4 DEF LeadsTo
<1> QED  BY <1>1, <1>3, <1>4

-----------------------------------------------------------------------------
(* The invariant, thread by thread.                                        *)

ThreadGood(t) ==
    /\ pc[t] = "read" /\ seen[t] # "none" =>
          Usable(Server(t)) /\ seen[t] = First(Server(t)).mode
    /\ pc[t] \in {"next", "posted"} /\ Usable(Server(t)) =>
          LeadsTo(tries[t], First(Server(t)), Takes(Server(t)))
    /\ pc[t] = "posted" => tries[t] # <<>>
    /\ pc[t] \in {"accepted", "half"} =>
          Usable(Server(t)) /\ Head(tries[t]) = First(Server(t))
    /\ attempt[t] >= 2 /\ met[t] = 0 /\ Usable(Server(t)) =>
          /\ pc[t] \in {"begun", "read"} => Settled(Server(t))
          /\ pc[t] = "read" => seen[t] # "none"
          /\ pc[t] \in {"next", "posted"} => Head(tries[t]) = First(Server(t))
    /\ pc[t] = "failed" /\ Accepts[task[t]] # {} => met[t] > 0

LEMMA InvByThread ==
    ClientInv <=> ClientTypes /\ FieldsAgree /\ \A t \in Threads : ThreadGood(t)
BY DEF ClientInv, ProbesConverge, SecondAttemptsHit, NegotiationFailsNoOne, ThreadGood

\* What a step leaves alone of a thread.
Left(t) ==
    /\ pc'[t] = pc[t] /\ task'[t] = task[t] /\ attempt'[t] = attempt[t] /\ met'[t] = met[t]
    /\ seen'[t] = seen[t] /\ tries'[t] = tries[t]
\* What is settled stays settled.
StaysSettled == \A s \in Servers : Settled(s) => Settled(s)'

LEMMA LeftGood ==
    ASSUME ClientTypes, NEW t \in Threads, ThreadGood(t), Left(t), StaysSettled
    PROVE  ThreadGood(t)'
<1>1. Server(t)' = Server(t) /\ Server(t) \in Servers  BY DEF Left, Server, Servers
<1>2. Settled(Server(t)) => Settled(Server(t))'
  BY <1>1 DEF StaysSettled, Settled
<1> QED  BY <1>1, <1>2 DEF Left, ThreadGood

\* A step of one thread that leaves the others alone keeps the invariant when the
\* fields agree and that thread does well.
LEMMA OneThreadMoves ==
    ASSUME ClientInv, ClientTypes', FieldsAgree', StaysSettled,
           NEW t \in Threads, ThreadGood(t)', \A u \in Threads \ {t} : Left(u)
    PROVE  ClientInv'
<1>1. \A u \in Threads \ {t} : ThreadGood(u)'  BY LeftGood, InvByThread
<1>2. \A u \in Threads : ThreadGood(u)'  BY <1>1
<1>3. ClientInv' <=> ClientTypes' /\ FieldsAgree' /\ \A u \in Threads : ThreadGood(u)'
  BY DEF ClientInv, ProbesConverge, SecondAttemptsHit, NegotiationFailsNoOne, ThreadGood
<1> QED  BY <1>2, <1>3

\* A step that writes neither field leaves them in agreement.
LEMMA FieldsLeft ==
    ASSUME FieldsAgree, UNCHANGED settings
    PROVE  FieldsAgree' /\ StaysSettled
BY DEF FieldsAgree, StaysSettled, Settled, settings

-----------------------------------------------------------------------------
(* The steps.                                                              *)

LEMMA InvInit == Init => ClientInv
<1> SUFFICES ASSUME Init PROVE ClientInv
  OBVIOUS
<1>1. ClientTypes  BY DEF Init, ClientTypes
<1>2. FieldsAgree  BY DEF Init, FieldsAgree
<1>3. \A t \in Threads : ThreadGood(t)  BY DEF Init, ThreadGood
<1> QED  BY <1>1, <1>2, <1>3, InvByThread

Places == {"idle", "begun", "read", "next", "posted", "accepted", "half", "parse", "answered", "failed"}

\* The end of an attempt: another one, or the end of the call.
LEMMA AttemptEnds ==
    ASSUME ClientTypes, NEW t \in Threads, AttemptFails(t) \/ GivesUp(t)
    PROVE  /\ pc' \in [Threads -> Places] /\ attempt' \in [Threads -> Nat]
           /\ pc'[t] \in {"begun", "failed"}
           /\ \A u \in Threads \ {t} : pc'[u] = pc[u] /\ attempt'[u] = attempt[u]
<1>0. pc \in [Threads -> Places] /\ attempt \in [Threads -> Nat]  BY DEF ClientTypes, Places
<1>1. CASE GivesUp(t)  BY <1>0, <1>1 DEF GivesUp, Goto, Places
<1>2. CASE AttemptFails(t)
  <2> DEFINE end == IF attempt[t] < Attempts THEN "begun" ELSE "failed"
             n == IF attempt[t] < Attempts THEN attempt[t] + 1 ELSE attempt[t]
  <2>1. end \in {"begun", "failed"} /\ end \in Places /\ n \in Nat  BY <1>0 DEF Places
  <2>2. pc' = [pc EXCEPT ![t] = end] /\ attempt' = [attempt EXCEPT ![t] = n]
    BY <1>2 DEF AttemptFails, Goto
  <2> HIDE DEF end, n
  <2> QED  BY <1>0, <2>1, <2>2
<1> QED  BY <1>1, <1>2

\* Every step keeps the types.
LEMMA TypesStep ==
    ASSUME ClientInv, NEW t \in Threads, Call(t) \/ Moves(t) \/ Fault(t) \/ Garbage(t)
    PROVE  ClientTypes'
<1> USE DEF ClientTypes, settings, Goto
<1>0. ClientTypes /\ Server(t) \in Servers  BY DEF ClientInv, Server, Servers
<1>1. CASE Call(t)  BY <1>0, <1>1 DEF Call
<1>2. CASE ReadMode(t)  BY <1>0, <1>2 DEF ReadMode
<1>3. CASE ReadExtras(t)
  <2> DEFINE modes == IF seen[t] = "none" THEN SCHEMA_MODES ELSE <<seen[t]>>
             known == extras[Server(t)]
  <2>1. modes \in Seq(Modes)
    <3>1. seen[t] \in Modes => <<seen[t]>> \in Seq(Modes)  OBVIOUS
    <3> QED  BY <1>0, <3>1, FourModes
  <2>2. \/ ExtrasToTry(known) = <<TRUE, FALSE>>
        \/ ExtrasToTry(known) = <<FALSE>>
        \/ ExtrasToTry(known) = <<known = "sent">> /\ (known = "sent") \in BOOLEAN
    BY DEF ExtrasToTry
  <2> HIDE DEF modes, known
  <2>3. StylesToTry(modes, ExtrasToTry(known)) \in Seq(Styles)
    BY <2>1, <2>2, OneOption, TwoOptions
  <2>4. tries' = [tries EXCEPT ![t] = StylesToTry(modes, ExtrasToTry(known))]
    BY <1>3 DEF ReadExtras, modes, known
  <2> QED  BY <1>0, <1>3, <2>3, <2>4 DEF ReadExtras
<1>4. CASE Post(t)  BY <1>0, <1>4 DEF Post
<1>5. CASE NoStyleLeft(t)  BY <1>0, <1>5 DEF NoStyleLeft, AttemptFails
<1>6. CASE Rejected(t)
  <2>1. tries[t] # <<>>  BY <1>6 DEF Rejected, ClientInv, ProbesConverge
  <2>2. Tail(tries[t]) \in Seq(Styles)  BY <1>0, <2>1
  <2>3. tries' \in [Threads -> Seq(Styles)]  BY <1>0, <1>6, <2>2 DEF Rejected
  <2> QED  BY <1>0, <1>6, <2>3, AttemptEnds DEF Rejected, Places
<1>7. CASE Accepted(t)  BY <1>0, <1>7 DEF Accepted
<1>8. CASE RememberMode(t)
  <2>1. tries[t] \in Seq(Styles) /\ Usable(Server(t)) /\ Head(tries[t]) = First(Server(t))
    BY <1>0, <1>8 DEF RememberMode, ClientInv, ProbesConverge
  <2>2. First(Server(t)).mode \in Modes  BY <2>1, FirstComesFirst DEF Styles
  <2> QED  BY <1>0, <1>8, <2>1, <2>2 DEF RememberMode
<1>9. CASE RememberExtras(t)  BY <1>0, <1>9 DEF RememberExtras
<1>10. CASE Parse(t)  BY <1>0, <1>10 DEF Parse
<1>11. CASE Fault(t)  BY <1>0, <1>11, AttemptEnds DEF Fault, Places
<1>12. CASE Garbage(t)  BY <1>0, <1>12, AttemptEnds DEF Garbage, Places
<1> QED
  BY <1>1, <1>2, <1>3, <1>4, <1>5, <1>6, <1>7, <1>8, <1>9, <1>10, <1>11, <1>12 DEF Moves

(* No step but Call changes the thread's task; only the last two write the fields. *)

LEMMA CallGood ==
    ASSUME ClientInv, NEW t \in Threads, Call(t)
    PROVE  FieldsAgree' /\ StaysSettled /\ ThreadGood(t)' /\ \A u \in Threads \ {t} : Left(u)
<1> USE DEF settings, Goto
<1>0. ClientTypes /\ FieldsAgree /\ ThreadGood(t) /\ Server(t) \in Servers
  BY InvByThread DEF Server, Servers
<1>1. UNCHANGED settings  BY DEF Call
<1>2. FieldsAgree' /\ StaysSettled  BY <1>0, <1>1, FieldsLeft
<1>3. \A u \in Threads \ {t} : Left(u)  BY <1>0, AttemptEnds DEF ClientTypes, Left, Call
<1>4. ThreadGood(t)'
  <2>1. pc'[t] = "begun" /\ attempt'[t] = 1  BY <1>0 DEF Call, ClientTypes
  <2> QED  BY <2>1 DEF ThreadGood
<1> QED  BY <1>2, <1>3, <1>4

LEMMA ReadModeGood ==
    ASSUME ClientInv, NEW t \in Threads, ReadMode(t)
    PROVE  FieldsAgree' /\ StaysSettled /\ ThreadGood(t)' /\ \A u \in Threads \ {t} : Left(u)
<1> USE DEF settings, Goto
<1>0. ClientTypes /\ FieldsAgree /\ ThreadGood(t) /\ Server(t) \in Servers
  BY InvByThread DEF Server, Servers
<1>1. UNCHANGED settings  BY DEF ReadMode
<1>2. FieldsAgree' /\ StaysSettled  BY <1>0, <1>1, FieldsLeft
<1>3. \A u \in Threads \ {t} : Left(u)  BY <1>0, AttemptEnds DEF ClientTypes, Left, ReadMode
<1>4. Server(t)' = Server(t)  BY DEF ReadMode, Server
<1>5. ThreadGood(t)'
  <2>1. /\ pc[t] = "begun" /\ pc'[t] = "read" /\ seen'[t] = mode[Server(t)]
        /\ attempt'[t] = attempt[t] /\ met'[t] = met[t] /\ (Settled(Server(t)) => Settled(Server(t))')
    BY <1>0, <1>4 DEF ReadMode, ClientTypes, Settled
  <2>2. mode[Server(t)] # "none" => Usable(Server(t)) /\ mode[Server(t)] = First(Server(t)).mode
    BY <1>0 DEF FieldsAgree
  <2> QED  BY <1>0, <1>4, <2>1, <2>2 DEF ThreadGood, Settled
<1> QED  BY <1>2, <1>3, <1>5

LEMMA ReadExtrasGood ==
    ASSUME ClientInv, NEW t \in Threads, ReadExtras(t)
    PROVE  FieldsAgree' /\ StaysSettled /\ ThreadGood(t)' /\ \A u \in Threads \ {t} : Left(u)
<1> USE DEF settings, Goto
<1>0. ClientTypes /\ FieldsAgree /\ ThreadGood(t) /\ Server(t) \in Servers
  BY InvByThread DEF Server, Servers
<1>1. UNCHANGED settings  BY DEF ReadExtras
<1>2. FieldsAgree' /\ StaysSettled  BY <1>0, <1>1, FieldsLeft
<1>3. \A u \in Threads \ {t} : Left(u)  BY <1>0, AttemptEnds DEF ClientTypes, Left, ReadExtras
<1>4. Server(t)' = Server(t)  BY DEF ReadExtras, Server
<1> DEFINE modes   == IF seen[t] = "none" THEN SCHEMA_MODES ELSE <<seen[t]>>
           options == ExtrasToTry(extras[Server(t)])
<1>5. /\ pc[t] = "read" /\ pc'[t] = "next" /\ tries'[t] = StylesToTry(modes, options)
      /\ attempt'[t] = attempt[t] /\ met'[t] = met[t]
  BY <1>0 DEF ReadExtras, ClientTypes
<1>6. CASE Usable(Server(t))
  <2> DEFINE style == First(Server(t))
  <2>1. style \in Styles /\ ComesFirst(style, Takes(Server(t)))  BY <1>6, FirstComesFirst
  <2>2. style.mode \in Modes /\ style.extras \in BOOLEAN
        /\ style = [mode |-> style.mode, extras |-> style.extras]
    BY <2>1 DEF Styles
  <2>3. modes \in {SCHEMA_MODES, <<style.mode>>}  BY <1>0, <1>5 DEF ThreadGood
  <2>4. extras[Server(t)] # "none" => options = <<style.extras>>
    <3>1. extras[Server(t)] # "none" => (extras[Server(t)] = "sent" <=> style.extras)
      BY <1>0 DEF FieldsAgree
    <3>2. extras[Server(t)] # "none" => (extras[Server(t)] = "sent") = style.extras
      BY <2>2, <3>1
    <3> QED  BY <3>2 DEF ExtrasToTry
  <2>5. options \in {ExtrasToTry("none"), <<style.extras>>}  BY <2>4
  <2>6. LeadsTo(tries'[t], style, Takes(Server(t)))
    BY <1>5, <2>1, <2>3, <2>5, ListsLeadToTheFirst
  <2>7. attempt[t] >= 2 /\ met[t] = 0 => Head(tries'[t]) = style
    <3> SUFFICES ASSUME attempt[t] >= 2, met[t] = 0 PROVE Head(tries'[t]) = style
      OBVIOUS
    <3>1. Settled(Server(t)) /\ seen[t] # "none" /\ seen[t] = style.mode
      BY <1>0, <1>5, <1>6 DEF ThreadGood
    <3>2. modes = <<style.mode>> /\ options = <<style.extras>>
      BY <2>4, <3>1 DEF Settled
    <3> QED  BY <1>5, <2>2, <3>2, SettledTriesOne
  <2> QED  BY <1>0, <1>4, <1>5, <1>6, <2>6, <2>7, <1>2, <1>3 DEF ThreadGood
<1>7. CASE ~Usable(Server(t))  BY <1>2, <1>3, <1>4, <1>5, <1>7 DEF ThreadGood
<1> QED  BY <1>6, <1>7

LEMMA PostGood ==
    ASSUME ClientInv, NEW t \in Threads, Post(t)
    PROVE  FieldsAgree' /\ StaysSettled /\ ThreadGood(t)' /\ \A u \in Threads \ {t} : Left(u)
<1> USE DEF settings, Goto
<1>0. ClientTypes /\ FieldsAgree /\ ThreadGood(t) /\ Server(t) \in Servers
  BY InvByThread DEF Server, Servers
<1>1. UNCHANGED settings  BY DEF Post
<1>2. FieldsAgree' /\ StaysSettled  BY <1>0, <1>1, FieldsLeft
<1>3. \A u \in Threads \ {t} : Left(u)  BY <1>0, AttemptEnds DEF ClientTypes, Left, Post
<1>4. Server(t)' = Server(t)  BY DEF Post, Server
<1>5. ThreadGood(t)'
  <2>1. /\ pc[t] = "next" /\ pc'[t] = "posted" /\ tries[t] # <<>> /\ tries'[t] = tries[t]
        /\ attempt'[t] = attempt[t] /\ met'[t] = met[t]
    BY <1>0 DEF Post, ClientTypes
  <2> QED  BY <1>0, <1>4, <2>1 DEF ThreadGood
<1> QED  BY <1>2, <1>3, <1>5

LEMMA NoStyleLeftGood ==
    ASSUME UniformServers, SameRequest, ClientInv, NEW t \in Threads, NoStyleLeft(t)
    PROVE  FieldsAgree' /\ StaysSettled /\ ThreadGood(t)' /\ \A u \in Threads \ {t} : Left(u)
<1> USE DEF settings, Goto
<1>0. ClientTypes /\ FieldsAgree /\ ThreadGood(t) /\ Server(t) \in Servers
  BY InvByThread DEF Server, Servers
<1>1. UNCHANGED settings  BY DEF NoStyleLeft
<1>2. FieldsAgree' /\ StaysSettled  BY <1>0, <1>1, FieldsLeft
<1>3. \A u \in Threads \ {t} : Left(u)  BY <1>0, AttemptEnds DEF ClientTypes, Left, NoStyleLeft
<1>4. Server(t)' = Server(t)  BY DEF NoStyleLeft, Server
<1>5. ~Usable(Server(t))
  <2> SUFFICES ASSUME Usable(Server(t)) PROVE FALSE
    OBVIOUS
  <2>1. LeadsTo(tries[t], First(Server(t)), Takes(Server(t))) /\ tries[t] = <<>>
    BY <1>0 DEF NoStyleLeft, ThreadGood
  <2> QED  BY <2>1 DEF LeadsTo
<1>6. Accepts[task[t]] = {}  BY <1>0, <1>5, AcceptingIsUsable
<1>7. pc'[t] \in {"begun", "failed"} /\ task' = task  BY <1>0, AttemptEnds DEF NoStyleLeft
<1> QED  BY <1>2, <1>3, <1>4, <1>5, <1>6, <1>7 DEF ThreadGood

LEMMA RejectedGood ==
    ASSUME Attempts >= 2, UniformServers, SameRequest, ClientInv, NEW t \in Threads, Rejected(t)
    PROVE  FieldsAgree' /\ StaysSettled /\ ThreadGood(t)' /\ \A u \in Threads \ {t} : Left(u)
<1> USE DEF settings, Goto
<1>0. ClientTypes /\ FieldsAgree /\ ThreadGood(t) /\ Server(t) \in Servers
  BY InvByThread DEF Server, Servers
<1>1. UNCHANGED settings  BY DEF Rejected
<1>2. FieldsAgree' /\ StaysSettled  BY <1>0, <1>1, FieldsLeft
<1>3. \A u \in Threads \ {t} : Left(u)  BY <1>0, AttemptEnds DEF ClientTypes, Left, Rejected
<1>4. Server(t)' = Server(t)  BY DEF Rejected, Server
<1>5. /\ pc[t] = "posted" /\ Head(tries[t]) \notin Accepts[task[t]] /\ task' = task
      /\ met'[t] = met[t] /\ attempt[t] \in Nat /\ tries[t] \in Seq(Styles)
      /\ Takes(Server(t)) = Accepts[task[t]]
  BY <1>0, TakesTheTask DEF Rejected, ClientTypes
<1>6. Usable(Server(t)) =>
        /\ LeadsTo(tries[t], First(Server(t)), Takes(Server(t)))
        /\ First(Server(t)) \in Takes(Server(t))
  BY <1>0, <1>5, FirstIsTaken DEF ThreadGood
<1>7. met[t] = 0 /\ Usable(Server(t)) => ~(attempt[t] >= 2)
  BY <1>0, <1>5, <1>6 DEF ThreadGood
<1>8. CASE Probing(t)
  <2>1. pc'[t] = "next" /\ tries'[t] = Tail(tries[t]) /\ attempt'[t] = attempt[t]
    BY <1>0, <1>8 DEF Rejected, ClientTypes
  <2>2. Usable(Server(t)) => LeadsTo(Tail(tries[t]), First(Server(t)), Takes(Server(t)))
    BY <1>5, <1>6, HeadsAndTails
  <2> QED  BY <1>2, <1>3, <1>4, <1>5, <1>7, <2>1, <2>2 DEF ThreadGood
<1>9. CASE ~Probing(t)
  <2>1. AttemptFails(t)  BY <1>9 DEF Rejected
  <2>2. pc'[t] \in {"begun", "failed"}  BY <1>0, <2>1, AttemptEnds
  <2>3. Settled(Server(t)) /\ Settled(Server(t))'
    BY <1>0, <1>1, <1>4, <1>9 DEF Probing, Settled
  <2>4. attempt[t] < 2 => pc'[t] = "begun"
    BY <1>0, <1>5, <2>1 DEF AttemptFails, ClientTypes
  <2>5. pc'[t] = "failed" /\ Accepts[task[t]] # {} => met[t] > 0
    <3>1. Accepts[task[t]] # {} => Usable(Server(t))  BY <1>0, AcceptingIsUsable
    <3>2. met[t] \in Nat  BY <1>0 DEF ClientTypes
    <3> QED  BY <1>5, <1>7, <2>4, <3>1, <3>2
  <2> QED  BY <1>2, <1>3, <1>4, <1>5, <2>2, <2>3, <2>5 DEF ThreadGood, Settled
<1> QED  BY <1>8, <1>9

LEMMA AcceptedGood ==
    ASSUME UniformServers, SameRequest, ClientInv, NEW t \in Threads, Accepted(t)
    PROVE  FieldsAgree' /\ StaysSettled /\ ThreadGood(t)' /\ \A u \in Threads \ {t} : Left(u)
<1> USE DEF settings, Goto
<1>0. ClientTypes /\ FieldsAgree /\ ThreadGood(t) /\ Server(t) \in Servers
  BY InvByThread DEF Server, Servers
<1>1. UNCHANGED settings  BY DEF Accepted
<1>2. FieldsAgree' /\ StaysSettled  BY <1>0, <1>1, FieldsLeft
<1>3. \A u \in Threads \ {t} : Left(u)  BY <1>0, AttemptEnds DEF ClientTypes, Left, Accepted
<1>4. Server(t)' = Server(t)  BY DEF Accepted, Server
<1>5. /\ pc[t] = "posted" /\ pc'[t] = "accepted" /\ Head(tries[t]) \in Accepts[task[t]]
      /\ tries'[t] = tries[t] /\ Takes(Server(t)) = Accepts[task[t]] /\ tries[t] \in Seq(Styles)
  BY <1>0, TakesTheTask DEF Accepted, ClientTypes
<1>6. Usable(Server(t))  BY <1>0, <1>5, AcceptingIsUsable
<1>7. Head(tries[t]) = First(Server(t))
  <2>1. LeadsTo(tries[t], First(Server(t)), Takes(Server(t)))  BY <1>0, <1>5, <1>6 DEF ThreadGood
  <2> QED  BY <1>5, <1>6, <2>1, HeadsAndTails, FirstIsTaken
<1> QED  BY <1>2, <1>3, <1>4, <1>5, <1>6, <1>7 DEF ThreadGood

LEMMA FaultGood ==
    ASSUME ClientInv, NEW t \in Threads, Fault(t)
    PROVE  FieldsAgree' /\ StaysSettled /\ ThreadGood(t)' /\ \A u \in Threads \ {t} : Left(u)
<1> USE DEF settings, Goto
<1>0. ClientTypes /\ FieldsAgree /\ ThreadGood(t) /\ Server(t) \in Servers
  BY InvByThread DEF Server, Servers
<1>1. UNCHANGED settings  BY DEF Fault
<1>2. FieldsAgree' /\ StaysSettled  BY <1>0, <1>1, FieldsLeft
<1>3. \A u \in Threads \ {t} : Left(u)  BY <1>0, AttemptEnds DEF ClientTypes, Left, Fault
<1>4. pc'[t] \in {"begun", "failed"} /\ met'[t] > 0
  BY <1>0, AttemptEnds DEF Fault, ClientTypes
<1> QED  BY <1>2, <1>3, <1>4 DEF ThreadGood

LEMMA GarbageGood ==
    ASSUME ClientInv, NEW t \in Threads, Garbage(t)
    PROVE  FieldsAgree' /\ StaysSettled /\ ThreadGood(t)' /\ \A u \in Threads \ {t} : Left(u)
<1> USE DEF settings, Goto
<1>0. ClientTypes /\ FieldsAgree /\ ThreadGood(t) /\ Server(t) \in Servers
  BY InvByThread DEF Server, Servers
<1>1. UNCHANGED settings  BY DEF Garbage
<1>2. FieldsAgree' /\ StaysSettled  BY <1>0, <1>1, FieldsLeft
<1>3. \A u \in Threads \ {t} : Left(u)  BY <1>0, AttemptEnds DEF ClientTypes, Left, Garbage
<1>4. pc'[t] \in {"begun", "failed"} /\ met'[t] > 0
  BY <1>0, AttemptEnds DEF Garbage, ClientTypes
<1> QED  BY <1>2, <1>3, <1>4 DEF ThreadGood

LEMMA ParseGood ==
    ASSUME ClientInv, NEW t \in Threads, Parse(t)
    PROVE  FieldsAgree' /\ StaysSettled /\ ThreadGood(t)' /\ \A u \in Threads \ {t} : Left(u)
<1> USE DEF settings, Goto
<1>0. ClientTypes /\ FieldsAgree /\ ThreadGood(t) /\ Server(t) \in Servers
  BY InvByThread DEF Server, Servers
<1>1. UNCHANGED settings  BY DEF Parse
<1>2. FieldsAgree' /\ StaysSettled  BY <1>0, <1>1, FieldsLeft
<1>3. \A u \in Threads \ {t} : Left(u)  BY <1>0, AttemptEnds DEF ClientTypes, Left, Parse
<1>4. pc'[t] = "answered"  BY <1>0 DEF Parse, ClientTypes
<1> QED  BY <1>2, <1>3, <1>4 DEF ThreadGood

LEMMA RememberModeGood ==
    ASSUME ClientInv, NEW t \in Threads, RememberMode(t)
    PROVE  FieldsAgree' /\ StaysSettled /\ ThreadGood(t)' /\ \A u \in Threads \ {t} : Left(u)
<1> USE DEF Goto
<1>0. ClientTypes /\ FieldsAgree /\ ThreadGood(t) /\ Server(t) \in Servers
  BY InvByThread DEF Server, Servers
<1>1. /\ pc[t] = "accepted" /\ pc'[t] = "half" /\ UNCHANGED <<extras, task, tries, attempt, seen, met>>
      /\ mode' = [mode EXCEPT ![Server(t)] = Head(tries[t]).mode]
  BY <1>0 DEF RememberMode, ClientTypes
<1>2. Usable(Server(t)) /\ Head(tries[t]) = First(Server(t))  BY <1>0, <1>1 DEF ThreadGood
<1>3. First(Server(t)).mode # "none"
  <2>1. First(Server(t)).mode \in Modes  BY <1>2, FirstComesFirst DEF Styles
  <2> QED  BY <2>1, FourModes
<1>4. \A s \in Servers : IF s = Server(t) THEN mode'[s] = First(s).mode ELSE mode'[s] = mode[s]
  BY <1>0, <1>1, <1>2 DEF ClientTypes
<1>5. FieldsAgree'  BY <1>0, <1>1, <1>2, <1>4 DEF FieldsAgree
<1>6. StaysSettled  BY <1>1, <1>3, <1>4 DEF StaysSettled, Settled
<1>7. Server(t)' = Server(t)  BY <1>1 DEF Server
<1>8. ThreadGood(t)'  BY <1>0, <1>1, <1>2, <1>7 DEF ThreadGood
<1>9. \A u \in Threads \ {t} : Left(u)  BY <1>0, <1>1 DEF RememberMode, ClientTypes, Left
<1> QED  BY <1>5, <1>6, <1>8, <1>9

LEMMA RememberExtrasGood ==
    ASSUME ClientInv, NEW t \in Threads, RememberExtras(t)
    PROVE  FieldsAgree' /\ StaysSettled /\ ThreadGood(t)' /\ \A u \in Threads \ {t} : Left(u)
<1> USE DEF Goto
<1>0. ClientTypes /\ FieldsAgree /\ ThreadGood(t) /\ Server(t) \in Servers
  BY InvByThread DEF Server, Servers
<1>1. /\ pc[t] = "half" /\ pc'[t] = "parse" /\ UNCHANGED mode
      /\ extras' = [extras EXCEPT ![Server(t)] = IF Head(tries[t]).extras THEN "sent" ELSE "bare"]
  BY <1>0 DEF RememberExtras, ClientTypes
<1>2. Usable(Server(t)) /\ Head(tries[t]) = First(Server(t))  BY <1>0, <1>1 DEF ThreadGood
<1>3. \A s \in Servers :
        IF s = Server(t) THEN extras'[s] # "none" /\ (extras'[s] = "sent" <=> First(s).extras)
                         ELSE extras'[s] = extras[s]
  BY <1>0, <1>1, <1>2 DEF ClientTypes
<1>4. FieldsAgree'  BY <1>0, <1>1, <1>2, <1>3 DEF FieldsAgree
<1>5. StaysSettled  BY <1>1, <1>3 DEF StaysSettled, Settled
<1>6. ThreadGood(t)'  BY <1>1 DEF ThreadGood
<1>7. \A u \in Threads \ {t} : Left(u)  BY <1>0 DEF RememberExtras, ClientTypes, Left
<1> QED  BY <1>4, <1>5, <1>6, <1>7
\* A step of the client, whichever thread takes it, keeps the invariant.
LEMMA InvStep ==
    ASSUME UniformServers, SameRequest, Attempts >= 2, ClientInv, [Next]_vars
    PROVE  ClientInv'
<1>1. CASE UNCHANGED vars
  <2>1. ClientTypes'  BY <1>1 DEF ClientInv, ClientTypes, vars, settings
  <2>2. FieldsAgree' /\ StaysSettled  BY <1>1, FieldsLeft DEF ClientInv, vars, settings
  <2>3. \A t \in Threads : Left(t)  BY <1>1 DEF vars, settings, Left
  <2>4. \A t \in Threads : ThreadGood(t)'  BY <2>2, <2>3, LeftGood, InvByThread
  <2> QED
    BY <2>1, <2>2, <2>4
    DEF ClientInv, ProbesConverge, SecondAttemptsHit, NegotiationFailsNoOne, ThreadGood
<1>2. ASSUME NEW t \in Threads, Call(t) \/ Moves(t) \/ Fault(t) \/ Garbage(t)
      PROVE  ClientInv'
  <2>1. ClientTypes'  BY <1>2, TypesStep
  <2>2. FieldsAgree' /\ StaysSettled /\ ThreadGood(t)' /\ \A u \in Threads \ {t} : Left(u)
    <3>1. CASE Call(t)            BY <3>1, CallGood
    <3>2. CASE ReadMode(t)        BY <3>2, ReadModeGood
    <3>3. CASE ReadExtras(t)      BY <3>3, ReadExtrasGood
    <3>4. CASE Post(t)            BY <3>4, PostGood
    <3>5. CASE NoStyleLeft(t)     BY <3>5, NoStyleLeftGood
    <3>6. CASE Rejected(t)        BY <3>6, RejectedGood
    <3>7. CASE Accepted(t)        BY <3>7, AcceptedGood
    <3>8. CASE RememberMode(t)    BY <3>8, RememberModeGood
    <3>9. CASE RememberExtras(t)  BY <3>9, RememberExtrasGood
    <3>10. CASE Parse(t)          BY <3>10, ParseGood
    <3>11. CASE Fault(t)          BY <3>11, FaultGood
    <3>12. CASE Garbage(t)        BY <3>12, GarbageGood
    <3> QED
      BY <1>2, <3>1, <3>2, <3>3, <3>4, <3>5, <3>6, <3>7, <3>8, <3>9, <3>10, <3>11, <3>12 DEF Moves
  <2> QED  BY <2>1, <2>2, OneThreadMoves
<1> QED  BY <1>1, <1>2 DEF Next

-----------------------------------------------------------------------------
(* The theorems.                                                           *)

\* What is remembered of a server is a style it accepts, for every task it serves.
LEMMA AgreementIsAccepted ==
    ASSUME ClientInv, NEW s \in Servers, Settled(s)
    PROVE  /\ Remembered(s) = First(s)
           /\ \E k \in Tasks : Remembered(s) \in Accepts[k] /\ (k \in CompileTasks <=> s = "compile")
<1>1. Usable(s) /\ mode[s] = First(s).mode /\ (extras[s] = "sent" <=> First(s).extras)
  BY DEF ClientInv, FieldsAgree, Settled
<1>2. First(s) \in Styles /\ First(s) \in Takes(s)  BY <1>1, FirstComesFirst, FirstIsTaken
<1>3. First(s) = [mode |-> First(s).mode, extras |-> First(s).extras] /\ First(s).extras \in BOOLEAN
  BY <1>2 DEF Styles
<1>4. (extras[s] = "sent") = First(s).extras  BY <1>1, <1>3
<1>5. Remembered(s) = First(s)  BY <1>1, <1>3, <1>4 DEF Remembered
<1> QED  BY <1>2, <1>5 DEF Takes

\* The invariant holds of any number of threads, tasks and permits, whatever the
\* servers accept as long as it is a matter of the server, with a retry for each call.
THEOREM ClientIsConsistent ==
    ASSUME UniformServers, SameRequest, Attempts >= 2
    PROVE  Spec => []ClientInv
<1>1. Init => ClientInv  BY InvInit
<1>2. ClientInv /\ [Next]_vars => ClientInv'  BY InvStep
<1> QED  BY <1>1, <1>2, PTL DEF Spec

\* Threads that probe a server at once, without a lock, settle on a style that it
\* accepts and fail no call by it: client.py's negotiation, json_call and the retry.
THEOREM ProbingTogetherIsSafe ==
    ASSUME UniformServers, SameRequest, Attempts >= 2
    PROVE  Spec => []NegotiationIsSafe
<1>1. ClientInv => NegotiationIsSafe
  BY AgreementIsAccepted DEF NegotiationIsSafe, RememberedIsAccepted, ClientInv
<1> QED  BY <1>1, ClientIsConsistent, PTL
=============================================================================
