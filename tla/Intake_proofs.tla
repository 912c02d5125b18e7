---------------------------- MODULE Intake_proofs ----------------------------
(***************************************************************************)
(* For any requests, folder, threads and restarts: an accepted batch has   *)
(* one row for each document, archives unpack to no more than the limit,   *)
(* runs see settled batches, and ready candidates are anonymous.           *)
(***************************************************************************)
EXTENDS Intake, Lists_proofs

-----------------------------------------------------------------------------
(* Going through the members of an archive and the objects of a folder:    *)
(* what every step keeps, the whole of it does.                             *)

Unpacks(state, members, max, it) ==
    it = [s \in SUBSET DOMAIN members |->
             IF s = {} THEN state ELSE AddMember(it[s \ {Max(s)}], members[Max(s)], max)]

LEMMA UnpackFolds ==
    ASSUME NEW state, NEW members, NEW max, \E it : Unpacks(state, members, max, it)
    PROVE  \E it : Unpacks(state, members, max, it) /\ Unpack(state, members, max) = it[DOMAIN members]
<1> DEFINE it == CHOOSE it : Unpacks(state, members, max, it)
<1>1. Unpacks(state, members, max, it)
  BY Zenon
<1>2. Unpack(state, members, max) = it[DOMAIN members]
  BY Zenon DEF Unpack, FoldLeft, MapThenFoldSet, Unpacks
<1>. HIDE DEF it
<1>. QED
  BY <1>1, <1>2

LEMMA UnpackStays ==
    ASSUME NEW state, NEW members, NEW max, IsSequence(members), NEW B, state \in B,
           \A i \in DOMAIN members, b \in B : AddMember(b, members[i], max) \in B
    PROVE  Unpack(state, members, max) \in B
<1> DEFINE n == Len(members)
           step == [p \in (1..n) \X B |-> AddMember(p[2], members[p[1]], max)]
<1>1. n \in Nat /\ DOMAIN members = 1..n
  BY Shaped
<1>2. \A x \in 1..n, b \in B : step[<<x, b>>] = AddMember(b, members[x], max) /\ step[<<x, b>>] \in B
  BY <1>1
<1>. HIDE DEF step, n
<1>3. PICK it \in [SUBSET (1..n) -> B] : InTurn(n, state, step, it)
  BY <1>1, <1>2, ListFolds
<1>4. \A s \in SUBSET (1..n) : s # {} => Max(s) \in 1..n
  BY <1>1, GreatestPosition
<1>5. Unpacks(state, members, max, it)
  BY <1>1, <1>2, <1>3, <1>4 DEF Unpacks, InTurn
<1>6. PICK jt : Unpacks(state, members, max, jt) /\ Unpack(state, members, max) = jt[1..n]
  BY <1>1, <1>5, UnpackFolds
<1>7. jt[{}] \in B
  BY <1>6 DEF Unpacks
<1>8. \A s \in SUBSET (1..n) : s # {} /\ jt[s \ {Max(s)}] \in B => jt[s] \in B
  <2>. SUFFICES ASSUME NEW s \in SUBSET (1..n), s # {}, jt[s \ {Max(s)}] \in B PROVE jt[s] \in B
    OBVIOUS
  <2>1. jt[s] = AddMember(jt[s \ {Max(s)}], members[Max(s)], max)
    BY <1>1, <1>6 DEF Unpacks
  <2>2. Max(s) \in DOMAIN members
    BY <1>1, <1>4
  <2>. QED
    BY <2>1, <2>2
<1>9. jt[1..n] \in B
  BY <1>1, <1>7, <1>8, ListFoldStays
<1>. QED
  BY <1>6, <1>9

Expands(files, max, it) ==
    it = [s \in SUBSET DOMAIN files |->
             IF s = {} THEN NothingExpanded ELSE Expand(it[s \ {Max(s)}], files[Max(s)], max)]

LEMMA ExpandFolds ==
    ASSUME NEW files, NEW max, \E it : Expands(files, max, it)
    PROVE  \E it : Expands(files, max, it) /\ ExpandAll(files, max) = it[DOMAIN files]
<1> DEFINE it == CHOOSE it : Expands(files, max, it)
<1>1. Expands(files, max, it)
  BY Zenon
<1>2. ExpandAll(files, max) = it[DOMAIN files]
  BY Zenon DEF ExpandAll, FoldLeft, MapThenFoldSet, Expands
<1>. HIDE DEF it
<1>. QED
  BY <1>1, <1>2

LEMMA ExpandStays ==
    ASSUME NEW files, NEW max, IsSequence(files), NEW B, NothingExpanded \in B,
           \A i \in DOMAIN files, b \in B : Expand(b, files[i], max) \in B
    PROVE  ExpandAll(files, max) \in B
<1> DEFINE n == Len(files)
           step == [p \in (1..n) \X B |-> Expand(p[2], files[p[1]], max)]
<1>1. n \in Nat /\ DOMAIN files = 1..n
  BY Shaped
<1>2. \A x \in 1..n, b \in B : step[<<x, b>>] = Expand(b, files[x], max) /\ step[<<x, b>>] \in B
  BY <1>1
<1>. HIDE DEF step, n
<1>3. PICK it \in [SUBSET (1..n) -> B] : InTurn(n, NothingExpanded, step, it)
  BY <1>1, <1>2, ListFolds
<1>4. \A s \in SUBSET (1..n) : s # {} => Max(s) \in 1..n
  BY <1>1, GreatestPosition
<1>5. Expands(files, max, it)
  BY <1>1, <1>2, <1>3, <1>4 DEF Expands, InTurn
<1>6. PICK jt : Expands(files, max, jt) /\ ExpandAll(files, max) = jt[1..n]
  BY <1>1, <1>5, ExpandFolds
<1>7. jt[{}] \in B
  BY <1>6 DEF Expands
<1>8. \A s \in SUBSET (1..n) : s # {} /\ jt[s \ {Max(s)}] \in B => jt[s] \in B
  <2>. SUFFICES ASSUME NEW s \in SUBSET (1..n), s # {}, jt[s \ {Max(s)}] \in B PROVE jt[s] \in B
    OBVIOUS
  <2>1. jt[s] = Expand(jt[s \ {Max(s)}], files[Max(s)], max)
    BY <1>1, <1>6 DEF Expands
  <2>2. Max(s) \in DOMAIN files
    BY <1>1, <1>4
  <2>. QED
    BY <2>1, <2>2
<1>9. jt[1..n] \in B
  BY <1>1, <1>7, <1>8, ListFoldStays
<1>. QED
  BY <1>6, <1>9

PullsAll(objects, unreadable, max, it) ==
    it = [s \in SUBSET DOMAIN objects |->
             IF s = {} THEN NothingPulled ELSE Pull(it[s \ {Max(s)}], objects[Max(s)], unreadable, max)]

LEMMA PullFolds ==
    ASSUME NEW objects, NEW unreadable, NEW max, \E it : PullsAll(objects, unreadable, max, it)
    PROVE  \E it : PullsAll(objects, unreadable, max, it) /\ PullAll(objects, unreadable, max) = it[DOMAIN objects]
<1> DEFINE it == CHOOSE it : PullsAll(objects, unreadable, max, it)
<1>1. PullsAll(objects, unreadable, max, it)
  BY Zenon
<1>2. PullAll(objects, unreadable, max) = it[DOMAIN objects]
  BY Zenon DEF PullAll, FoldLeft, MapThenFoldSet, PullsAll
<1>. HIDE DEF it
<1>. QED
  BY <1>1, <1>2

LEMMA PullStays ==
    ASSUME NEW objects, NEW unreadable, NEW max, IsSequence(objects), NEW B, NothingPulled \in B,
           \A i \in DOMAIN objects, b \in B : Pull(b, objects[i], unreadable, max) \in B
    PROVE  PullAll(objects, unreadable, max) \in B
<1> DEFINE n == Len(objects)
           step == [p \in (1..n) \X B |-> Pull(p[2], objects[p[1]], unreadable, max)]
<1>1. n \in Nat /\ DOMAIN objects = 1..n
  BY Shaped
<1>2. \A x \in 1..n, b \in B : step[<<x, b>>] = Pull(b, objects[x], unreadable, max) /\ step[<<x, b>>] \in B
  BY <1>1
<1>. HIDE DEF step, n
<1>3. PICK it \in [SUBSET (1..n) -> B] : InTurn(n, NothingPulled, step, it)
  BY <1>1, <1>2, ListFolds
<1>4. \A s \in SUBSET (1..n) : s # {} => Max(s) \in 1..n
  BY <1>1, GreatestPosition
<1>5. PullsAll(objects, unreadable, max, it)
  BY <1>1, <1>2, <1>3, <1>4 DEF PullsAll, InTurn
<1>6. PICK jt : PullsAll(objects, unreadable, max, jt) /\ PullAll(objects, unreadable, max) = jt[1..n]
  BY <1>1, <1>5, PullFolds
<1>7. jt[{}] \in B
  BY <1>6 DEF PullsAll
<1>8. \A s \in SUBSET (1..n) : s # {} /\ jt[s \ {Max(s)}] \in B => jt[s] \in B
  <2>. SUFFICES ASSUME NEW s \in SUBSET (1..n), s # {}, jt[s \ {Max(s)}] \in B PROVE jt[s] \in B
    OBVIOUS
  <2>1. jt[s] = Pull(jt[s \ {Max(s)}], objects[Max(s)], unreadable, max)
    BY <1>1, <1>6 DEF PullsAll
  <2>2. Max(s) \in DOMAIN objects
    BY <1>1, <1>4
  <2>. QED
    BY <2>1, <2>2
<1>9. jt[1..n] \in B
  BY <1>1, <1>7, <1>8, ListFoldStays
<1>. QED
  BY <1>6, <1>9

-----------------------------------------------------------------------------
(* What a pull brings.                                                     *)

Files == ToSet(Bucket) \cup UNION {ToSet(object.members) : object \in ToSet(Bucket)}

LEMMA FilesAreMeasured ==
    /\ \A file \in Files : Measured(file)
    /\ \A object \in ToSet(Bucket) :
          /\ object \in Files /\ IsSequence(object.members)
          /\ \A i \in DOMAIN object.members : object.members[i] \in Files
BY BucketIsListed DEF Files, ToSet

\* A document more weighs what it weighs.
Weight(file) == IF file \in ToSet(Bucket) THEN 0 ELSE file.size
LEMMA OneMore ==
    ASSUME NEW files \in Seq(Files), NEW file \in Files
    PROVE  /\ Unpacked(files) \in Nat
           /\ Unpacked(Append(files, file)) = Unpacked(files) + Weight(file)
<1> DEFINE n == Len(files)
           old == [i \in DOMAIN files |-> Weight(files[i])]
           more == Append(files, file)
           new == [i \in DOMAIN more |-> Weight(more[i])]
<1>1. /\ n \in Nat /\ DOMAIN files = 1..n /\ DOMAIN more = 1..(n + 1)
      /\ \A i \in 1..n : more[i] = files[i] /\ files[i] \in Files
      /\ more[n + 1] = file
  OBVIOUS
<1>2. \A f \in Files : Weight(f) \in Nat
  BY FilesAreMeasured DEF Weight, Measured
<1>3. Unpacked(files) = SumFunctionOnSet(old, 1..n) /\ Unpacked(more) = SumFunctionOnSet(new, 1..(n + 1))
  BY <1>1 DEF Unpacked, SumFunction, Weight
<1>4. /\ \A i \in 1..n : old[i] \in Nat /\ new[i] \in Nat /\ old[i] = new[i]
      /\ new[n + 1] = Weight(file) /\ new[n + 1] \in Nat
  BY <1>1, <1>2
<1>. HIDE DEF old, new, more, n
<1>5. /\ IsFiniteSet(1..n) /\ IsFiniteSet(1..(n + 1)) /\ n + 1 \in 1..(n + 1)
      /\ (1..(n + 1)) \ {n + 1} = 1..n /\ 1..(n + 1) = (1..n) \cup {n + 1}
  <2>1. 1 \in Int /\ n \in Int /\ n + 1 \in Int
    BY <1>1
  <2>2. IsFiniteSet(1..n) /\ IsFiniteSet(1..(n + 1))
    BY <2>1, FS_Interval
  <2>3. n + 1 \in 1..(n + 1) /\ (1..(n + 1)) \ {n + 1} = 1..n /\ 1..(n + 1) = (1..n) \cup {n + 1}
    BY <1>1
  <2>. QED
    BY <2>2, <2>3
<1>6. SumFunctionOnSet(old, 1..n) \in Nat /\ SumFunctionOnSet(new, 1..n) \in Nat
  BY <1>4, <1>5, SumsAreNatural
<1>7. SumFunctionOnSet(old, 1..n) = SumFunctionOnSet(new, 1..n)
  <2>1. \A i \in 1..n : /\ old[i] \in Int /\ new[i] \in Int /\ old[i] <= new[i] /\ new[i] <= old[i]
    BY <1>4
  <2>2. SumFunctionOnSet(old, 1..n) <= SumFunctionOnSet(new, 1..n)
    BY <1>5, <2>1, SumsAreAtLeast
  <2>3. SumFunctionOnSet(new, 1..n) <= SumFunctionOnSet(old, 1..n)
    BY <1>5, <2>1, SumsAreAtLeast
  <2>. QED
    BY <1>6, <2>2, <2>3
<1>8. SumFunctionOnSet(new, 1..(n + 1)) = new[n + 1] + SumFunctionOnSet(new, 1..n)
  <2> DEFINE S == 1..(n + 1)
             x == n + 1
  <2>1. IsFiniteSet(S) /\ x \in S /\ S \ {x} = 1..n /\ \A i \in S : new[i] \in Int
    BY <1>4, <1>5
  <2>. HIDE DEF S, x
  <2>2. SumFunctionOnSet(new, S) = new[x] + SumFunctionOnSet(new, S \ {x})
    BY <2>1, SumWith
  <2>. QED
    BY <2>1, <2>2 DEF S, x
<1>. QED
  BY <1>3, <1>4, <1>6, <1>7, <1>8 DEF more

LEMMA NothingUnpacked == Unpacked(<<>>) = 0
BY SumOfNone DEF Unpacked, SumFunction

\* Unpacking, whatever of the folder it has come to.
Unpacking == {s \in [documents : Seq(Files), unpacked : 0..MaxBytes, full : BOOLEAN] :
                 Unpacked(s.documents) <= s.unpacked}

LEMMA MembersFit ==
    ASSUME NEW state \in Unpacking, NEW member \in Files
    PROVE  AddMember(state, member, MaxBytes) \in Unpacking
<1>1. /\ state \in [documents : Seq(Files), unpacked : 0..MaxBytes, full : BOOLEAN]
      /\ Unpacked(state.documents) <= state.unpacked
  BY DEF Unpacking
<1>2. member.size \in Nat /\ MaxBytes \in Nat
  BY FilesAreMeasured, IntakeConstants DEF Measured
<1>3. CASE state.full \/ ~is_usable(member)
  BY <1>3 DEF AddMember
<1>4. CASE ~(state.full \/ ~is_usable(member)) /\ state.unpacked + member.size > MaxBytes
  BY <1>1, <1>4 DEF AddMember, Unpacking
<1>5. CASE ~(state.full \/ ~is_usable(member)) /\ ~(state.unpacked + member.size > MaxBytes)
  <2> DEFINE more == [state EXCEPT !.unpacked = @ + member.size, !.documents = Append(@, member)]
  <2>1. AddMember(state, member, MaxBytes) = more
    BY <1>5 DEF AddMember
  <2>2. /\ more \in [documents : Seq(Files), unpacked : 0..MaxBytes, full : BOOLEAN]
        /\ more.documents = Append(state.documents, member) /\ more.unpacked = state.unpacked + member.size
    <3>1. Append(state.documents, member) \in Seq(Files) /\ state.unpacked + member.size \in 0..MaxBytes
      BY <1>1, <1>2, <1>5
    <3>. QED
      BY <1>1, <3>1
  <2>3. Weight(member) <= member.size /\ Weight(member) \in Nat
    BY <1>2 DEF Weight
  <2>4. /\ Unpacked(state.documents) \in Nat
        /\ Unpacked(more.documents) = Unpacked(state.documents) + Weight(member)
    BY <1>1, <2>2, OneMore
  <2>. HIDE DEF more
  <2>5. Unpacked(more.documents) <= more.unpacked
    BY <1>1, <1>2, <2>2, <2>3, <2>4
  <2>. QED
    BY <2>1, <2>2, <2>5 DEF Unpacking
<1>. QED
  BY <1>3, <1>4, <1>5

LEMMA ArchivesFit ==
    ASSUME NEW state \in Unpacking, NEW file \in ToSet(Bucket)
    PROVE  Expand(state, file, MaxBytes) \in Unpacking
<1>1. /\ state \in [documents : Seq(Files), unpacked : 0..MaxBytes, full : BOOLEAN]
      /\ Unpacked(state.documents) <= state.unpacked
  BY DEF Unpacking
<1>2. CASE file.suffix # ".zip"
  <2> DEFINE more == [state EXCEPT !.documents = Append(@, file)]
  <2>1. file \in Files /\ Weight(file) = 0
    BY FilesAreMeasured DEF Weight
  <2>2. /\ more \in [documents : Seq(Files), unpacked : 0..MaxBytes, full : BOOLEAN]
        /\ more.documents = Append(state.documents, file) /\ more.unpacked = state.unpacked
    BY <1>1, <2>1
  <2>3. Unpacked(more.documents) = Unpacked(state.documents)
    BY <1>1, <2>1, <2>2, OneMore
  <2>. HIDE DEF more
  <2>4. more \in Unpacking
    BY <1>1, <2>2, <2>3 DEF Unpacking
  <2>. QED
    BY <1>2, <2>4 DEF Expand, more
<1>3. CASE file.suffix = ".zip"
  <2> DEFINE start == [state EXCEPT !.full = FALSE]
  <2>1. start \in Unpacking
    BY <1>1 DEF Unpacking
  <2>2. IsSequence(file.members) /\ \A i \in DOMAIN file.members : file.members[i] \in Files
    BY FilesAreMeasured
  <2>3. \A i \in DOMAIN file.members, s \in Unpacking : AddMember(s, file.members[i], MaxBytes) \in Unpacking
    BY <2>2, MembersFit
  <2>. HIDE DEF start
  <2>4. Unpack(start, file.members, MaxBytes) \in Unpacking
    BY <2>1, <2>2, <2>3, UnpackStays
  <2>. QED
    BY <1>3, <2>4 DEF Expand, start
<1>. QED
  BY <1>2, <1>3

\* The documents of a pull are a list of measured files of the folder, and what
\* archives unpacked to among them is within the limit.
LEMMA PullsAreListed ==
    ASSUME NEW unreadable
    PROVE  LET documents == pull_batch_documents(Bucket, unreadable, MaxBytes).documents
           IN /\ IsSequence(documents) /\ documents \in Seq(Files)
              /\ \A i \in DOMAIN documents : Measured(documents[i])
              /\ Unpacked(documents) <= MaxBytes
<1> DEFINE Pulling == [raw : Seq(ToSet(Bucket)), size : Nat, skipped : SUBSET ToSet(Bucket)]
           pull == PullAll(Bucket, unreadable, MaxBytes)
           documents == expand_uploads(pull.raw, MaxBytes)
<1>1. NothingPulled \in Pulling
  BY DEF NothingPulled
<1>2. ASSUME NEW i \in DOMAIN Bucket, NEW s \in Pulling
      PROVE  Pull(s, Bucket[i], unreadable, MaxBytes) \in Pulling
  <2>1. Bucket[i] \in ToSet(Bucket)
    BY DEF ToSet
  <2>2. Bucket[i].size \in Nat
    BY <2>1, BucketIsListed DEF Measured
  <2>3. [s EXCEPT !.skipped = @ \cup {Bucket[i]}] \in Pulling
    BY <2>1
  <2>4. [s EXCEPT !.size = @ + Bucket[i].size, !.raw = Append(@, Bucket[i])] \in Pulling
    <3>1. s.size + Bucket[i].size \in Nat /\ Append(s.raw, Bucket[i]) \in Seq(ToSet(Bucket))
      BY <2>1, <2>2
    <3>. QED
      BY <3>1
  <2>. HIDE DEF Pulling
  <2>. QED
    BY <2>3, <2>4 DEF Pull
<1>3. IsSequence(Bucket)
  BY BucketIsListed
<1>4. pull \in Pulling
  <2>. HIDE DEF Pulling
  <2>. QED
    BY <1>1, <1>2, <1>3, PullStays
<1>5. pull.raw \in Seq(ToSet(Bucket))
  BY <1>4
<1>. HIDE DEF pull, Pulling
<1>6. IsSequence(pull.raw) /\ \A i \in DOMAIN pull.raw : pull.raw[i] \in ToSet(Bucket)
  <2>1. pull.raw \in Seq({pull.raw[i] : i \in DOMAIN pull.raw}) /\ \A i \in DOMAIN pull.raw : pull.raw[i] \in ToSet(Bucket)
    BY <1>5
  <2>. QED
    BY <2>1 DEF IsSequence
<1>7. NothingExpanded \in Unpacking
  BY NothingUnpacked, IntakeConstants DEF NothingExpanded, Unpacking
<1>8. ExpandAll(pull.raw, MaxBytes) \in Unpacking
  <2>1. \A i \in DOMAIN pull.raw, s \in Unpacking : Expand(s, pull.raw[i], MaxBytes) \in Unpacking
    BY <1>6, ArchivesFit
  <2>. QED
    BY <1>6, <1>7, <2>1, ExpandStays
<1>9. /\ documents \in Seq(Files) /\ Unpacked(documents) <= ExpandAll(pull.raw, MaxBytes).unpacked
      /\ ExpandAll(pull.raw, MaxBytes).unpacked \in 0..MaxBytes
  BY <1>8 DEF Unpacking, expand_uploads
<1>10. pull_batch_documents(Bucket, unreadable, MaxBytes).documents = documents
  BY DEF pull_batch_documents, pull
<1>. HIDE DEF documents
<1>11. IsSequence(documents) /\ \A i \in DOMAIN documents : documents[i] \in Files
  <2>1. documents \in Seq({documents[i] : i \in DOMAIN documents}) /\ \A i \in DOMAIN documents : documents[i] \in Files
    BY <1>9
  <2>. QED
    BY <2>1 DEF IsSequence
<1>12. Unpacked(documents) <= MaxBytes
  <2>1. Unpacked(documents) \in Nat
    <3>1. CASE documents = <<>>
      BY <3>1, NothingUnpacked
    <3>2. CASE documents # <<>>
      <4>1. PICK file \in Files : TRUE
        BY <1>9, <1>11, <3>2
      <4>. QED
        BY <1>9, <4>1, OneMore
    <3>. QED
      BY <3>1, <3>2
  <2>. QED
    BY <1>9, <2>1, IntakeConstants
<1>. QED
  BY <1>9, <1>10, <1>11, <1>12, FilesAreMeasured

-----------------------------------------------------------------------------
(* The first state, and requests.                                          *)

LEMMA AtFirst == Init => IntakeInv
<1>. SUFFICES ASSUME Init PROVE IntakeInv
  OBVIOUS
<1>1. IsSequence(<<>>) /\ Len(<<>>) = 0 /\ DOMAIN <<>> = {}
  BY EmptySeq DEF IsSequence
<1>2. Shape
  BY <1>1 DEF Init, Shape
<1>. QED
  BY <1>1, <1>2 DEF Init, IntakeInv, OneOwner, RowsAreDocuments, UntouchedAtFirst, SettledInTheEnd,
     Owners, Adding, At, Originals

\* A request that is not the owner's moves without becoming one.
LEMMA Bystander ==
    ASSUME IntakeInv, NEW q \in Requests, ~(request[q].pc \in {"add", "accepted"}),
           \A r \in Requests \ {q} : request'[r] = request[r],
           DOMAIN request' = Requests, ~(request'[q].pc \in {"add", "accepted"}),
           {"pc", "documents", "next"} \subseteq DOMAIN request'[q],
           IsSequence(request'[q].documents), request'[q].next = request[q].next,
           request'[q].pc \in {"check", "pull", "create"} => request[q].pc \in {"check", "pull", "create"},
           UNCHANGED <<store, job, work, runs>>
    PROVE  IntakeInv'
<1>. USE DEF IntakeInv, store
<1>1. Shape'
  BY DEF Shape
<1>2. Owners' = Owners /\ Adding' = Adding
  BY DEF Owners, Adding, At
<1>3. \A r \in Owners : request'[r] = request[r]
  BY DEF Owners
<1>4. OneOwner'
  BY <1>2 DEF OneOwner
<1>5. RowsAreDocuments'
  BY <1>2, <1>3 DEF RowsAreDocuments, Originals, At
<1>6. UntouchedAtFirst' /\ SettledInTheEnd'
  BY <1>2 DEF UntouchedAtFirst, SettledInTheEnd
<1>. QED
  BY <1>1, <1>4, <1>5, <1>6

LEMMA Moved ==
    ASSUME IntakeInv, NEW q \in Requests, NEW pc, GoTo(q, pc)
    PROVE  /\ DOMAIN request' = Requests /\ \A r \in Requests \ {q} : request'[r] = request[r]
           /\ request'[q].pc = pc /\ request'[q].documents = request[q].documents
           /\ request'[q].next = request[q].next
           /\ {"pc", "documents", "next"} \subseteq DOMAIN request'[q]
           /\ IsSequence(request'[q].documents) /\ request'[q].next \in Nat
BY DEF IntakeInv, Shape, GoTo

LEMMA Checks ==
    ASSUME IntakeInv, NEW q \in Requests, Check(q)
    PROVE  IntakeInv'
<1>1. PICK pc \in {"pull", "refused"} : GoTo(q, pc)
  BY DEF Check
<1>. QED
  BY <1>1, Moved, Bystander DEF Check, At

LEMMA Pulls ==
    ASSUME IntakeInv, NEW q \in Requests, PullBatch(q)
    PROVE  IntakeInv'
<1>1. CASE GoTo(q, "refused")
  BY <1>1, Moved, Bystander DEF PullBatch, At
<1>2. CASE ~GoTo(q, "refused")
  <2>1. PICK unreadable \in SUBSET ToSet(Bucket), pc \in {"refused", "create"} :
           request' = [request EXCEPT
               ![q].pc = pc,
               ![q].documents = pull_batch_documents(Bucket, unreadable, MaxBytes).documents]
    BY <1>2 DEF PullBatch
  <2>2. /\ DOMAIN request' = Requests /\ \A r \in Requests \ {q} : request'[r] = request[r]
        /\ request'[q].pc = pc
        /\ request'[q].documents = pull_batch_documents(Bucket, unreadable, MaxBytes).documents
        /\ request'[q].next = request[q].next /\ {"pc", "documents", "next"} \subseteq DOMAIN request'[q]
    BY <2>1 DEF IntakeInv, Shape
  <2>3. IsSequence(request'[q].documents)
    BY <2>2, PullsAreListed
  <2>. QED
    BY <2>2, <2>3, Bystander DEF PullBatch, At
<1>. QED
  BY <1>1, <1>2

\* The one insert that succeeds makes its request the owner of an empty batch.
LEMMA Creates ==
    ASSUME IntakeInv, NEW q \in Requests, CreateBatch(q)
    PROVE  IntakeInv'
<1>1. CASE batch # "none"
  BY <1>1, Moved, Bystander DEF CreateBatch, At, store
<1>2. CASE batch = "none"
  <2>1. GoTo(q, "add") /\ batch' = "queued" /\ UNCHANGED <<rows, disk, job, work, runs>>
    BY <1>2 DEF CreateBatch
  <2>2. Owners = {} /\ job = "none" /\ rows = <<>>
    BY <1>2 DEF IntakeInv, OneOwner
  <2>3. Owners' = {q} /\ Adding' = {q}
    BY <2>1, <2>2, Moved DEF Owners, Adding, At
  <2>4. Len(rows) = 0 /\ DOMAIN rows = {} /\ DOMAIN work = {}
    BY <2>2, Shaped DEF IntakeInv, Shape
  <2>5. request[q].next = 1
    BY DEF CreateBatch, At, IntakeInv, Shape
  <2>6. /\ DOMAIN request' = Requests /\ \A r \in Requests \ {q} : request'[r] = request[r]
        /\ request'[q].pc = "add" /\ request'[q].next = 1
        /\ {"pc", "documents", "next"} \subseteq DOMAIN request'[q] /\ IsSequence(request'[q].documents)
    BY <2>1, <2>5, Moved
  <2>7. Shape'
    BY <2>1, <2>6 DEF IntakeInv, Shape
  <2>8. OneOwner'
    BY <2>1, <2>2, <2>3 DEF OneOwner
  <2>9. RowsAreDocuments'
    BY <2>1, <2>3, <2>4, <2>6 DEF RowsAreDocuments, Originals, At
  <2>10. UntouchedAtFirst' /\ SettledInTheEnd'
    BY <1>2, <2>1, <2>2, <2>4 DEF UntouchedAtFirst, SettledInTheEnd, IntakeInv
  <2>. QED
    BY <2>7, <2>8, <2>9, <2>10 DEF IntakeInv
<1>. QED
  BY <1>1, <1>2

\* A row more for the owner's next document, or for one whose write failed.
LEMMA Adds ==
    ASSUME IntakeInv, NEW q \in Requests, AddDocument(q)
    PROVE  IntakeInv'
<1> DEFINE n    == Len(rows)
           file == request[q].documents[request[q].next]
<1>. USE DEF IntakeInv
<1>1. /\ q \in Owners /\ q \in Adding /\ At(q, "add") /\ Owners = {q} /\ Adding = {q}
      /\ batch # "none" /\ job = "none"
  BY DEF AddDocument, Owners, Adding, At, OneOwner
<1>2. /\ IsSequence(rows) /\ IsSequence(work) /\ n \in Nat /\ Len(work) = n
      /\ DOMAIN rows = 1..n /\ DOMAIN work = 1..n
  BY Shaped DEF Shape
<1>3. /\ request[q].next = n + 1 /\ n + 1 \in DOMAIN request[q].documents
      /\ \A c \in 1..n : rows[c].file = request[q].documents[c]
  <2>1. request[q].next - 1 = n /\ request[q].next \in Nat
    BY <1>1 DEF RowsAreDocuments, Shape
  <2>2. request[q].next <= Len(request[q].documents) /\ IsSequence(request[q].documents)
    BY DEF AddDocument, Shape
  <2>3. DOMAIN request[q].documents = 1..Len(request[q].documents) /\ Len(request[q].documents) \in Nat
    BY <2>2, Shaped
  <2>. QED
    BY <1>1, <1>2, <2>1, <2>2, <2>3 DEF RowsAreDocuments
<1>3a. PICK status \in {"pending", "duplicate"} : \E original :
         /\ rows' = Append(rows, NewRow(file, status, original))
         /\ status = "duplicate" => Same(file) # {} /\ original = CHOOSE c \in Same(file) : TRUE
         /\ status = "pending" => Same(file) = {}
  BY DEF AddDocument
<1>4. PICK original :
         /\ rows' = Append(rows, NewRow(file, status, original))
         /\ status = "duplicate" => Same(file) # {} /\ original = CHOOSE c \in Same(file) : TRUE
         /\ status = "pending" => Same(file) = {}
  BY <1>3a
<1>5. /\ IsSequence(rows') /\ Len(rows') = n + 1 /\ DOMAIN rows' = 1..(n + 1)
      /\ \A c \in 1..n : rows'[c] = rows[c]
      /\ rows'[n + 1] = NewRow(file, status, original)
  BY <1>2, <1>4, Appended
<1>6. /\ IsSequence(work') /\ Len(work') = n + 1 /\ DOMAIN work' = 1..(n + 1)
      /\ \A c \in 1..n : work'[c] = work[c]
      /\ work'[n + 1] = "none"
  BY <1>2, Appended DEF AddDocument
<1>7. Originals' = IF status = "pending" THEN Originals \cup {n + 1} ELSE Originals
  BY <1>2, <1>5 DEF Originals, NewRow
<1>8. \/ request' = [request EXCEPT ![q].next = @ + 1] /\ (status = "pending" => disk' = disk \cup {n + 1})
         /\ disk \subseteq disk'
      \/ GoTo(q, "refused")
  BY <1>4, <1>5 DEF AddDocument
<1>9. Shape'
  <2>1. \A c \in DOMAIN rows' : {"status", "file", "duplicate_of"} \subseteq DOMAIN rows'[c]
    BY <1>2, <1>5 DEF Shape, NewRow
  <2>2. /\ DOMAIN request' = Requests
        /\ \A r \in Requests :
              /\ {"pc", "documents", "next"} \subseteq DOMAIN request'[r]
              /\ IsSequence(request'[r].documents) /\ request'[r].next \in Nat
              /\ request'[r].pc \in {"check", "pull", "create"} => request'[r].next = 1
    BY <1>1, <1>8 DEF Shape, GoTo, At
  <2>. QED
    BY <1>5, <1>6, <2>1, <2>2 DEF Shape, AddDocument
<1>10. OneOwner'
  <2>1. Owners' \subseteq {q} /\ job' = "none" /\ batch' # "none"
    BY <1>1, <1>8 DEF Owners, GoTo, AddDocument, Shape
  <2>. QED
    BY <2>1 DEF OneOwner
<1>11. CASE GoTo(q, "refused")
  <2>1. Owners' = {} /\ Adding' = {}
    BY <1>1, <1>11 DEF Owners, Adding, At, GoTo, Shape
  <2>2. RowsAreDocuments'
    BY <2>1 DEF RowsAreDocuments
  <2>3. UntouchedAtFirst'
    BY <1>1, <1>2, <1>5, <1>6, <2>1 DEF UntouchedAtFirst, AddDocument
  <2>4. SettledInTheEnd'
    BY <1>1 DEF SettledInTheEnd, AddDocument
  <2>. QED
    BY <1>9, <1>10, <2>2, <2>3, <2>4
<1>12. CASE request' = [request EXCEPT ![q].next = @ + 1]
  <2>1. /\ Owners' = {q} /\ Adding' = {q} /\ At(q, "add")'
        /\ request'[q].documents = request[q].documents /\ request'[q].next = n + 2
    BY <1>1, <1>2, <1>3, <1>12 DEF Owners, Adding, At, Shape
  <2>2. /\ Len(rows') = request'[q].next - 1
        /\ \A c \in DOMAIN rows' : /\ c \in DOMAIN request'[q].documents
                                   /\ rows'[c].file = request'[q].documents[c]
    BY <1>1, <1>2, <1>3, <1>5, <2>1 DEF NewRow, RowsAreDocuments
  <2>3. Originals' \subseteq disk'
    <3>1. ~GoTo(q, "refused")
      BY <2>1, Moved DEF At
    <3>. QED
      BY <1>1, <1>7, <1>8, <3>1 DEF RowsAreDocuments
  <2>4. Originals \subseteq 1..n /\ Same(file) \subseteq Originals
    BY <1>2 DEF Originals, Same
  <2>5. \A c \in DOMAIN rows' \ Originals' :
           /\ rows'[c].duplicate_of \in Originals'
           /\ rows'[rows'[c].duplicate_of].file.content = rows'[c].file.content
    <3>1. TAKE c \in DOMAIN rows' \ Originals'
    <3>2. CASE c \in 1..n
      <4>1. c \in DOMAIN rows \ Originals
        BY <1>2, <1>7, <3>2
      <4>2. /\ rows[c].duplicate_of \in Originals
            /\ rows[rows[c].duplicate_of].file.content = rows[c].file.content
        BY <1>1, <4>1 DEF RowsAreDocuments
      <4>. QED
        BY <1>5, <1>7, <2>4, <3>2, <4>2
    <3>3. CASE c = n + 1
      <4>1. status = "duplicate"
        BY <1>7, <3>1, <3>3
      <4>2. original \in Same(file) /\ rows'[c].duplicate_of = original /\ rows'[c].file = file
        BY <1>4, <1>5, <3>3, <4>1 DEF NewRow
      <4>. QED
        BY <1>5, <1>7, <2>4, <4>2 DEF Same
    <3>. QED
      BY <1>2, <1>5, <3>1, <3>2, <3>3
  <2>6. \A c, d \in Originals' : rows'[c].file.content = rows'[d].file.content => c = d
    <3>1. \A c, d \in Originals : rows[c].file.content = rows[d].file.content => c = d
      BY <1>1 DEF RowsAreDocuments
    <3>2. CASE status = "duplicate"
      BY <1>5, <1>7, <2>4, <3>1, <3>2
    <3>3. CASE status = "pending"
      <4>1. \A c \in Originals : rows[c].file.content # file.content
        BY <1>4, <3>3 DEF Same
      <4>2. rows'[n + 1].file = file /\ \A c \in Originals : rows'[c] = rows[c]
        BY <1>5, <2>4 DEF NewRow
      <4>. QED
        BY <1>7, <3>1, <3>3, <4>1, <4>2
    <3>. QED
      BY <3>2, <3>3
  <2>7. RowsAreDocuments'
    BY <2>1, <2>2, <2>3, <2>5, <2>6 DEF RowsAreDocuments
  <2>8. UntouchedAtFirst'
    <3>1. \A c \in 1..(n + 1) : c \in 1..n \/ c = n + 1
      BY <1>2
    <3>2. \A c \in 1..(n + 1) : work'[c] = "none"
      BY <1>1, <1>2, <1>6, <3>1 DEF UntouchedAtFirst
    <3>3. \A c \in 1..(n + 1) : rows'[c].status \in {"pending", "duplicate"}
      BY <1>1, <1>2, <1>5, <3>1 DEF UntouchedAtFirst, NewRow
    <3>. QED
      BY <1>5, <1>6, <3>2, <3>3 DEF UntouchedAtFirst
  <2>9. SettledInTheEnd'
    BY <1>1 DEF SettledInTheEnd, AddDocument
  <2>. QED
    BY <1>9, <1>10, <2>7, <2>8, <2>9
<1>. QED
  BY <1>8, <1>11, <1>12

LEMMA Submits ==
    ASSUME IntakeInv, NEW q \in Requests, Submit(q)
    PROVE  IntakeInv'
<1>. USE DEF IntakeInv
<1>1. /\ Owners = {q} /\ Adding = {q} /\ At(q, "add") /\ batch # "none" /\ job = "none"
  BY DEF Submit, Owners, Adding, At, OneOwner
<1>2. /\ DOMAIN request' = Requests /\ \A r \in Requests \ {q} : request'[r] = request[r]
      /\ request'[q].pc = "accepted" /\ request'[q].documents = request[q].documents
      /\ request'[q].next = request[q].next
      /\ {"pc", "documents", "next"} \subseteq DOMAIN request'[q]
      /\ IsSequence(request'[q].documents) /\ request'[q].next \in Nat
  BY Moved DEF Submit
<1>3. Owners' = {q} /\ Adding' = {} /\ job' = "queued"
  BY <1>1, <1>2 DEF Owners, Adding, At, Submit
<1>4. Shape'
  BY <1>2 DEF Shape, Submit, store
<1>5. OneOwner'
  BY <1>1, <1>3 DEF OneOwner, Submit, store
<1>6. Len(rows) = Len(request[q].documents)
  <2>1. Len(rows) = request[q].next - 1 /\ \A c \in DOMAIN rows : c \in DOMAIN request[q].documents
    BY <1>1 DEF RowsAreDocuments
  <2>2. /\ Len(rows) \in Nat /\ DOMAIN rows = 1..Len(rows)
        /\ Len(request[q].documents) \in Nat
        /\ DOMAIN request[q].documents = 1..Len(request[q].documents)
    BY Shaped DEF Shape
  <2>3. request[q].next > Len(request[q].documents) /\ request[q].next \in Nat
    BY DEF Submit, Shape
  <2>4. Len(rows) <= Len(request[q].documents)
    <3>1. CASE Len(rows) = 0
      BY <2>2, <3>1
    <3>2. CASE Len(rows) # 0
      <4>1. Len(rows) \in DOMAIN rows
        BY <2>2, <3>2
      <4>2. Len(rows) \in DOMAIN request[q].documents
        BY <2>1, <4>1
      <4>. QED
        BY <2>2, <4>2
    <3>. QED
      BY <3>1, <3>2
  <2>. QED
    BY <2>1, <2>2, <2>3, <2>4
<1>7. RowsAreDocuments'
  BY <1>1, <1>2, <1>3, <1>6 DEF RowsAreDocuments, Originals, At, Submit, store
<1>8. UntouchedAtFirst' /\ SettledInTheEnd'
  BY <1>1, <1>3 DEF UntouchedAtFirst, SettledInTheEnd, Submit, store
<1>. QED
  BY <1>4, <1>5, <1>7, <1>8

-----------------------------------------------------------------------------
(* The job and its threads.                                                *)

LEMMA Takes ==
    ASSUME IntakeInv, Take
    PROVE  IntakeInv'
<1>. USE DEF IntakeInv
<1>1. /\ job = "queued" /\ job' = "running" /\ batch' = "running" /\ Adding = {} /\ batch # "none"
      /\ UNCHANGED <<request, disk, runs>>
  BY DEF Take, OneOwner
<1>2. /\ IsSequence(rows) /\ Len(rows) \in Nat /\ DOMAIN rows = 1..Len(rows) /\ DOMAIN work = DOMAIN rows
  BY Shaped DEF Shape
<1>3. /\ DOMAIN rows' = 1..Len(rows) /\ rows' = [c \in 1..Len(rows) |-> rows'[c]]
      /\ \A c \in 1..Len(rows) :
            /\ rows'[c].status = rows[c].status /\ rows'[c].file = rows[c].file
            /\ rows'[c].duplicate_of = rows[c].duplicate_of
            /\ {"status", "file", "duplicate_of"} \subseteq DOMAIN rows'[c]
  <2> DEFINE start == Cardinality({c \in DOMAIN rows : rows[c].ref # 0 /\ c \notin Pending})
             number(c) == start + Cardinality(Pending \cap 1..c)
  <2>1. rows' = [c \in 1..Len(rows) |->
                    IF c \in Pending THEN [rows[c] EXCEPT !.ref = number(c)] ELSE rows[c]]
    BY <1>2 DEF Take
  <2>. HIDE DEF number
  <2>. QED
    BY <1>2, <2>1 DEF Shape
<1>4. IsSequence(rows') /\ Len(rows') = Len(rows)
  BY <1>2, <1>3, Counted
<1>5. /\ work' = [c \in 1..Len(rows) |-> IF c \in Pending THEN "waiting" ELSE "none"]
      /\ work' = [c \in 1..Len(rows) |-> work'[c]]
  BY <1>2 DEF Take
<1>6. IsSequence(work') /\ Len(work') = Len(rows) /\ DOMAIN work' = 1..Len(rows)
  BY <1>2, <1>5, Counted
<1>7. Shape'
  BY <1>1, <1>3, <1>4, <1>6 DEF Shape
<1>8. Owners' = Owners /\ Adding' = Adding /\ Originals' = Originals
  BY <1>1, <1>2, <1>3 DEF Owners, Adding, At, Originals
<1>9. OneOwner'
  BY <1>1, <1>8 DEF OneOwner
<1>10. RowsAreDocuments'
  <2>1. \A c \in Originals : c \in 1..Len(rows)
    BY <1>2 DEF Originals
  <2>. QED
    BY <1>1, <1>2, <1>3, <1>4, <1>8, <2>1 DEF RowsAreDocuments, At
<1>11. \A c \in 1..Len(rows) : rows[c].status \in {"pending", "duplicate"}
  BY <1>1, <1>2 DEF UntouchedAtFirst
<1>12. UntouchedAtFirst'
  BY <1>1, <1>3, <1>5, <1>6, <1>8, <1>11 DEF UntouchedAtFirst, Pending
<1>13. SettledInTheEnd'
  BY <1>1, <1>2, <1>3, <1>5, <1>11 DEF SettledInTheEnd, Pending, Settled
<1>. QED
  BY <1>7, <1>9, <1>10, <1>12, <1>13

\* What a thread's step does to its candidate: a row and a place.
Advance(c, row, place) ==
    /\ c \in DOMAIN work /\ work[c] \notin {"none", "done"}
    /\ rows' = [rows EXCEPT ![c] = row] /\ work' = [work EXCEPT ![c] = place]
    /\ {"status", "file", "duplicate_of"} \subseteq DOMAIN row
    /\ row.file = rows[c].file /\ row.duplicate_of = rows[c].duplicate_of
    /\ row.status # "duplicate" /\ place # "none" /\ (place = "done" => row.status \in Settled)
    /\ UNCHANGED <<request, batch, disk, job, runs>>

LEMMA ThreadsAdvance ==
    ASSUME IntakeInv, NEW c \in DOMAIN work, ThreadStep(c)
    PROVE  \E row, place : Advance(c, row, place)
<1>. USE DEF IntakeInv
<1>1. c \in DOMAIN rows /\ {"status", "file", "duplicate_of"} \subseteq DOMAIN rows[c] /\ rows = [rows EXCEPT ![c] = rows[c]]
  BY Shaped DEF Shape
<1>2. work[c] \notin {"none", "done"} => rows[c].status # "duplicate"
  BY DEF UntouchedAtFirst
<1>3. ASSUME NEW row, NEW place, Store(c, row, place), work[c] \notin {"none", "done"},
             {"status", "file", "duplicate_of"} \subseteq DOMAIN row,
             row.file = rows[c].file, row.duplicate_of = rows[c].duplicate_of,
             row.status # "duplicate", place # "none", place = "done" => row.status \in Settled,
             UNCHANGED <<request, batch, disk, job, runs>>
      PROVE  \E r, p : Advance(c, r, p)
  BY <1>3 DEF Store, Advance
<1>4. ASSUME NEW error, DeadLetter(c, error) \/ Fail(c, error), work[c] \notin {"none", "done"},
             UNCHANGED <<request, batch, disk, job, runs>>
      PROVE  \E r, p : Advance(c, r, p)
  <2>1. PICK status \in {"needs_manual_review", "failed"} :
           Store(c, [rows[c] EXCEPT !.status = status, !.error = error], "done")
    BY <1>4 DEF DeadLetter, Fail
  <2> DEFINE row == [rows[c] EXCEPT !.status = status, !.error = error]
  <2>2. /\ {"status", "file", "duplicate_of"} \subseteq DOMAIN row
        /\ row.file = rows[c].file /\ row.duplicate_of = rows[c].duplicate_of /\ row.status = status
    BY <1>1
  <2>. HIDE DEF row
  <2>3. row.status # "duplicate" /\ row.status \in Settled
    BY <2>2 DEF Settled
  <2>. QED
    BY <1>4, <2>1, <2>2, <2>3, <1>3 DEF row
<1>5. ASSUME NEW place, work' = [work EXCEPT ![c] = place], UNCHANGED rows, place \notin {"none", "done"},
             work[c] \notin {"none", "done"}, UNCHANGED <<request, batch, disk, job, runs>>
      PROVE  \E r, p : Advance(c, r, p)
  <2>1. Advance(c, rows[c], place)
    BY <1>1, <1>2, <1>5 DEF Advance
  <2>. QED
    BY <2>1
<1>6. ASSUME NEW status \in {"extracting", "structuring"}, NEW place, place \notin {"none", "done"},
             Store(c, [rows[c] EXCEPT !.status = status], place),
             work[c] \notin {"none", "done"}, UNCHANGED <<request, batch, disk, job, runs>>
      PROVE  \E r, p : Advance(c, r, p)
  <2> DEFINE row == [rows[c] EXCEPT !.status = status]
  <2>1. /\ {"status", "file", "duplicate_of"} \subseteq DOMAIN row
        /\ row.file = rows[c].file /\ row.duplicate_of = rows[c].duplicate_of /\ row.status = status
    BY <1>1
  <2>. HIDE DEF row
  <2>. QED
    BY <1>6, <2>1, <1>3 DEF row
<1>7. CASE Begin(c)
  <2>1. work[c] \notin {"none", "done"} /\ UNCHANGED <<request, batch, disk, job, runs>>
    BY <1>7 DEF Begin
  <2>2. Fail(c, "missing") \/ Store(c, [rows[c] EXCEPT !.status = "extracting"], "extract")
    BY <1>7 DEF Begin
  <2>. QED
    BY <1>4, <1>6, <2>1, <2>2
<1>8. CASE Extract(c)
  <2>1. work[c] \notin {"none", "done"} /\ UNCHANGED <<request, batch, disk, job, runs>>
    BY <1>8 DEF Extract
  <2>2. \/ \E place \in {"short", "structure"} : Store(c, [rows[c] EXCEPT !.status = "structuring"], place)
        \/ work' = [work EXCEPT ![c] = "extract again"] /\ UNCHANGED rows
        \/ DeadLetter(c, "extraction")
    BY <1>8 DEF Extract
  <2>. QED
    BY <1>4, <1>5, <1>6, <2>1, <2>2
<1>9. CASE StructureFails(c)
  <2>1. /\ work[c] \notin {"none", "done"} /\ UNCHANGED <<request, batch, disk, job, runs>>
        /\ \E error : DeadLetter(c, error)
    BY <1>9 DEF StructureFails
  <2>. QED
    BY <1>4, <2>1
<1>10. CASE Structure(c)
  <2>1. work[c] \notin {"none", "done"} /\ UNCHANGED <<request, batch, disk, job, runs>>
    BY <1>10 DEF Structure
  <2>2. \/ Raise(c) \/ DeadLetter(c, "schema")
        \/ \E resume : Store(c, [rows[c] EXCEPT !.status = "anonymizing", !.resume = resume], "anonymize")
    BY <1>10 DEF Structure
  <2>3. CASE Raise(c)
    <3>1. Advance(c, rows[c], "raised")
      BY <1>1, <1>2, <2>1, <2>3 DEF Advance, Raise
    <3>. QED
      BY <3>1
  <2>4. CASE DeadLetter(c, "schema")
    BY <1>4, <2>1, <2>4
  <2>5. ASSUME NEW resume, Store(c, [rows[c] EXCEPT !.status = "anonymizing", !.resume = resume], "anonymize")
        PROVE  \E r, p : Advance(c, r, p)
    <3> DEFINE row == [rows[c] EXCEPT !.status = "anonymizing", !.resume = resume]
    <3>1. /\ {"status", "file", "duplicate_of"} \subseteq DOMAIN row
          /\ row.file = rows[c].file /\ row.duplicate_of = rows[c].duplicate_of /\ row.status = "anonymizing"
      BY <1>1
    <3>. HIDE DEF row
    <3>. QED
      BY <2>1, <2>5, <3>1, <1>3 DEF row
  <2>. QED
    BY <2>2, <2>3, <2>4, <2>5
<1>11. CASE AnonymizeFails(c)
  <2>1. /\ work[c] \notin {"none", "done"} /\ UNCHANGED <<request, batch, disk, job, runs>>
        /\ Fail(c, "anonymization")
    BY <1>11 DEF AnonymizeFails
  <2>. QED
    BY <1>4, <2>1
<1>12. CASE Anonymize(c)
  <2>1. work[c] \notin {"none", "done"} /\ UNCHANGED <<request, batch, disk, job, runs>>
    BY <1>12 DEF Anonymize
  <2>2. \/ Raise(c) \/ Fail(c, "leak")
        \/ \E profile : Store(c, [rows[c] EXCEPT !.status = "ready", !.profile = profile], "done")
    BY <1>12 DEF Anonymize
  <2>3. CASE Raise(c)
    <3>1. Advance(c, rows[c], "raised")
      BY <1>1, <1>2, <2>1, <2>3 DEF Advance, Raise
    <3>. QED
      BY <3>1
  <2>4. CASE Fail(c, "leak")
    BY <1>4, <2>1, <2>4
  <2>5. ASSUME NEW profile, Store(c, [rows[c] EXCEPT !.status = "ready", !.profile = profile], "done")
        PROVE  \E r, p : Advance(c, r, p)
    <3> DEFINE row == [rows[c] EXCEPT !.status = "ready", !.profile = profile]
    <3>1. /\ {"status", "file", "duplicate_of"} \subseteq DOMAIN row
          /\ row.file = rows[c].file /\ row.duplicate_of = rows[c].duplicate_of /\ row.status = "ready"
      BY <1>1
    <3>. HIDE DEF row
    <3>2. row.status # "duplicate" /\ row.status \in Settled
      BY <3>1 DEF Settled
    <3>. QED
      BY <2>1, <2>5, <3>1, <3>2, <1>3 DEF row
  <2>. QED
    BY <2>2, <2>3, <2>4, <2>5
<1>. QED
  BY <1>7, <1>8, <1>9, <1>10, <1>11, <1>12 DEF ThreadStep

LEMMA ThreadsKeep ==
    ASSUME IntakeInv, NEW c \in DOMAIN work, ThreadStep(c)
    PROVE  IntakeInv'
<1>. USE DEF IntakeInv
<1>0. PICK row, place : Advance(c, row, place)
  BY ThreadsAdvance
<1>1. /\ c \in DOMAIN work /\ work[c] \notin {"none", "done"}
      /\ rows' = [rows EXCEPT ![c] = row] /\ work' = [work EXCEPT ![c] = place]
      /\ {"status", "file", "duplicate_of"} \subseteq DOMAIN row
      /\ row.file = rows[c].file /\ row.duplicate_of = rows[c].duplicate_of
      /\ row.status # "duplicate" /\ place # "none" /\ (place = "done" => row.status \in Settled)
      /\ UNCHANGED <<request, batch, disk, job, runs>>
  BY <1>0 DEF Advance
<1>2. /\ IsSequence(rows) /\ IsSequence(work) /\ DOMAIN work = DOMAIN rows /\ Len(work) = Len(rows)
  BY Shaped DEF Shape
<1>3. /\ IsSequence(rows') /\ IsSequence(work') /\ Len(rows') = Len(rows) /\ Len(work') = Len(rows)
      /\ DOMAIN rows' = DOMAIN rows /\ DOMAIN work' = DOMAIN rows
      /\ rows'[c] = row /\ work'[c] = place
      /\ \A d \in DOMAIN rows \ {c} : rows'[d] = rows[d] /\ work'[d] = work[d]
  BY <1>1, <1>2, Replaced
<1>4. Adding = {} /\ job \notin {"none", "queued"} /\ batch # "none" /\ rows[c].status # "duplicate"
  BY <1>1 DEF UntouchedAtFirst, OneOwner
<1>5. batch # "complete"
  BY <1>1, <1>2 DEF SettledInTheEnd
<1>6. Owners' = Owners /\ Adding' = Adding /\ Originals' = Originals
  BY <1>1, <1>2, <1>3, <1>4 DEF Owners, Adding, At, Originals
<1>7. Shape'
  BY <1>1, <1>2, <1>3 DEF Shape
<1>8. OneOwner'
  BY <1>1, <1>4, <1>6 DEF OneOwner
<1>9. \A d \in DOMAIN rows : rows'[d].file = rows[d].file /\ rows'[d].duplicate_of = rows[d].duplicate_of
  BY <1>1, <1>3
<1>10. RowsAreDocuments'
  <2>1. Originals \subseteq DOMAIN rows
    BY DEF Originals
  <2>. QED
    BY <1>1, <1>3, <1>6, <1>9, <2>1 DEF RowsAreDocuments, At
<1>11. UntouchedAtFirst'
  BY <1>1, <1>2, <1>3, <1>4, <1>6 DEF UntouchedAtFirst
<1>12. SettledInTheEnd'
  BY <1>1, <1>2, <1>3, <1>5 DEF SettledInTheEnd
<1>. QED
  BY <1>7, <1>8, <1>10, <1>11, <1>12

\* The job's ends change the batch, never a row.
LEMMA JobEnds ==
    ASSUME IntakeInv, Observe \/ FailBatch \/ CompleteBatch
    PROVE  IntakeInv'
<1>. USE DEF IntakeInv, store
<1>1. /\ UNCHANGED <<request, rows, disk, work, runs>>
      /\ job \in {"running", "unwinding"} /\ job' \in {"unwinding", "over"}
      /\ batch' \in {batch, "failed", "complete"}
      /\ batch' = "complete" => \/ batch' = batch
                                \/ job = "running" /\ job' = "over"
                                   /\ \A c \in DOMAIN work : work[c] \in {"none", "done"}
  BY DEF Observe, FailBatch, CompleteBatch
<1>2. batch # "complete" /\ batch # "none" /\ runs = 0 /\ Adding = {}
  BY <1>1 DEF SettledInTheEnd, OneOwner, Shape
<1>3. Owners' = Owners /\ Adding' = Adding /\ Originals' = Originals
  BY <1>1 DEF Owners, Adding, At, Originals
<1>4. Shape' /\ OneOwner'
  BY <1>1, <1>2, <1>3 DEF Shape, OneOwner
<1>5. RowsAreDocuments'
  BY <1>1, <1>3 DEF RowsAreDocuments, At
<1>6. UntouchedAtFirst'
  BY <1>1, <1>2, <1>3 DEF UntouchedAtFirst
<1>7. DOMAIN work = DOMAIN rows
  BY Shaped DEF Shape
<1>8. SettledInTheEnd'
  BY <1>1, <1>2, <1>7 DEF SettledInTheEnd
<1>. QED
  BY <1>4, <1>5, <1>6, <1>8

LEMMA RunsKeep ==
    ASSUME IntakeInv, CreateRun
    PROVE  IntakeInv'
<1>. USE DEF IntakeInv, CreateRun, store
<1>1. Owners' = Owners /\ Adding' = Adding /\ Originals' = Originals
  BY DEF Owners, Adding, At, Originals
<1>2. Shape' /\ OneOwner'
  BY <1>1 DEF Shape, OneOwner
<1>3. RowsAreDocuments'
  BY <1>1 DEF RowsAreDocuments, At
<1>4. UntouchedAtFirst' /\ SettledInTheEnd'
  BY <1>1 DEF UntouchedAtFirst, SettledInTheEnd
<1>. QED
  BY <1>2, <1>3, <1>4

\* A restart loses the request that was adding, and every thread.
LEMMA RestartsKeep ==
    ASSUME IntakeInv, Restart
    PROVE  IntakeInv'
<1>. USE DEF IntakeInv, store
<1>1. /\ UNCHANGED <<batch, rows, disk, runs>> /\ job' \in {"none", "over"}
      /\ job' = "over" <=> job = "over"
  BY DEF Restart
<1>2. DOMAIN work = 1..Len(rows) /\ DOMAIN rows = 1..Len(rows) /\ Len(rows) \in Nat
  BY Shaped DEF Shape
<1>3. work' = [c \in 1..Len(rows) |-> "none"]
  BY <1>2 DEF Restart
<1>4. IsSequence(work') /\ Len(work') = Len(rows) /\ DOMAIN work' = 1..Len(rows)
  <2>1. work' = [c \in 1..Len(rows) |-> work'[c]]
    BY <1>3
  <2>. QED
    BY <1>2, <2>1, Counted
<1>5. /\ DOMAIN request' = Requests
      /\ \A q \in Requests :
            /\ request'[q].pc \in {"accepted", "lost"} /\ (request'[q].pc = "accepted" <=> request[q].pc = "accepted")
            /\ request'[q].documents = request[q].documents /\ request'[q].next = request[q].next
            /\ {"pc", "documents", "next"} \subseteq DOMAIN request'[q]
  BY DEF Restart, Shape
<1>6. /\ Adding' = {} /\ Owners' \subseteq Owners /\ Originals' = Originals
      /\ \A q \in Owners' : ~At(q, "add") /\ ~At(q, "add")'
  BY <1>1, <1>5 DEF Owners, Adding, At, Originals
<1>7. Shape'
  BY <1>1, <1>4, <1>5 DEF Shape
<1>8. OneOwner'
  BY <1>1, <1>6 DEF OneOwner
<1>9. RowsAreDocuments'
  <2>1. Owners' \subseteq Requests
    BY DEF Owners
  <2>. QED
    BY <1>1, <1>5, <1>6, <2>1 DEF RowsAreDocuments
<1>10. UntouchedAtFirst'
  BY <1>1, <1>3, <1>4, <1>6 DEF UntouchedAtFirst
<1>11. SettledInTheEnd'
  BY <1>1, <1>2, <1>3 DEF SettledInTheEnd
<1>. QED
  BY <1>7, <1>8, <1>9, <1>10, <1>11

-----------------------------------------------------------------------------
LEMMA StepsKeep == IntakeInv /\ [Next]_vars => IntakeInv'
<1>. SUFFICES ASSUME IntakeInv, [Next]_vars PROVE IntakeInv'
  OBVIOUS
<1>1. ASSUME NEW q \in Requests, RequestStep(q) PROVE IntakeInv'
  BY <1>1, Checks, Pulls, Creates, Adds, Submits DEF RequestStep
<1>2. ASSUME NEW c \in DOMAIN work, ThreadStep(c) PROVE IntakeInv'
  BY <1>2, ThreadsKeep
<1>3. CASE JobStep
  BY <1>3, Takes, JobEnds DEF JobStep
<1>4. CASE CreateRun
  BY <1>4, RunsKeep
<1>5. CASE Restart
  BY <1>5, RestartsKeep
<1>6. CASE UNCHANGED vars
  BY <1>6 DEF vars, store, IntakeInv, Shape, OneOwner, RowsAreDocuments, UntouchedAtFirst, SettledInTheEnd,
     Owners, Adding, Originals, At
<1>. QED
  BY <1>1, <1>2, <1>3, <1>4, <1>5, <1>6 DEF Next

\* One request owns a batch, and its rows settle and then stay.
THEOREM OwnedAndSettled == Init /\ [][Next]_vars => []IntakeInv
BY AtFirst, StepsKeep, PTL

\* However many requests race, whatever write fails and whenever the server restarts,
\* an accepted batch has one row per document of its pull, in order, and each content
\* is processed once, from a document on disk.
THEOREM EveryDocument == FairSpec => []EveryDocumentOnce
<1>1. IntakeInv => EveryDocumentOnce
  <2>. SUFFICES ASSUME IntakeInv, NEW q \in Requests, At(q, "accepted")
                PROVE  /\ [c \in DOMAIN rows |-> rows[c].file] = request[q].documents
                       /\ Originals \subseteq disk
                       /\ \A c \in DOMAIN rows : \E d \in Originals :
                             /\ rows[d].file.content = rows[c].file.content
                             /\ c \notin Originals => rows[c].duplicate_of = d
                             /\ c \in Originals => c = d
    BY DEF EveryDocumentOnce
  <2>1. q \in Owners /\ ~At(q, "add")
    BY DEF Owners, At
  <2>2. /\ Len(rows) = Len(request[q].documents)
        /\ \A c \in DOMAIN rows : rows[c].file = request[q].documents[c]
        /\ Originals \subseteq disk
        /\ \A c \in DOMAIN rows \ Originals :
              /\ rows[c].duplicate_of \in Originals
              /\ rows[rows[c].duplicate_of].file.content = rows[c].file.content
    BY <2>1 DEF IntakeInv, RowsAreDocuments
  <2>3. /\ DOMAIN rows = 1..Len(rows)
        /\ request[q].documents = [c \in 1..Len(request[q].documents) |-> request[q].documents[c]]
    BY Shaped DEF IntakeInv, Shape
  <2>4. [c \in DOMAIN rows |-> rows[c].file] = request[q].documents
    BY <2>2, <2>3
  <2>5. ASSUME NEW c \in DOMAIN rows
        PROVE  \E d \in Originals : /\ rows[d].file.content = rows[c].file.content
                                    /\ c \notin Originals => rows[c].duplicate_of = d
                                    /\ c \in Originals => c = d
    <3>1. CASE c \in Originals
      BY <3>1
    <3>2. CASE c \notin Originals
      BY <2>2, <3>2
    <3>. QED
      BY <3>1, <3>2
  <2>. QED
    BY <2>2, <2>4, <2>5
<1>. QED
  BY <1>1, OwnedAndSettled, PTL DEF FairSpec

\* A run is created over settled candidates only, and no step of a request, a thread
\* or the job changes a row afterwards.
THEOREM RunsSettled == FairSpec => RunsSeeSettledBatches
<1> DEFINE Steady == /\ runs' > runs => \A c \in DOMAIN rows : rows[c].status \in Settled
                     /\ runs > 0 => UNCHANGED rows
<1>1. IntakeInv /\ [Next]_vars => [Steady]_vars
  <2>. SUFFICES ASSUME IntakeInv, Next PROVE Steady
    OBVIOUS
  <2>. USE DEF IntakeInv
  <2>1. runs \in Nat /\ DOMAIN work = DOMAIN rows
    BY Shaped DEF Shape
  <2>2. runs > 0 => /\ job = "over" /\ Adding = {}
                    /\ \A c \in DOMAIN work : work[c] \in {"none", "done"}
    BY <2>1 DEF SettledInTheEnd, OneOwner
  <2>3. ASSUME NEW q \in Requests, RequestStep(q) PROVE Steady
    <3>1. runs' = runs
      BY <2>3 DEF RequestStep, Check, PullBatch, CreateBatch, AddDocument, Submit
    <3>2. AddDocument(q) => Adding # {}
      BY DEF AddDocument, Adding
    <3>3. AddDocument(q) \/ UNCHANGED rows
      BY <2>3 DEF RequestStep, Check, PullBatch, CreateBatch, Submit, store
    <3>. QED
      BY <2>1, <2>2, <3>1, <3>2, <3>3
  <2>4. ASSUME NEW c \in DOMAIN work, ThreadStep(c) PROVE Steady
    <3>1. PICK row, place : Advance(c, row, place)
      BY <2>4, ThreadsAdvance
    <3>. QED
      BY <2>1, <2>2, <3>1 DEF Advance
  <2>5. CASE JobStep
    <3>1. runs' = runs /\ (job = "queued" \/ UNCHANGED rows)
      BY <2>5 DEF JobStep, Take, Observe, FailBatch, CompleteBatch, store
    <3>. QED
      BY <2>1, <2>2, <3>1
  <2>6. CASE CreateRun
    BY <2>6 DEF CreateRun, SettledInTheEnd, store
  <2>7. CASE Restart
    BY <2>1, <2>7 DEF Restart, store
  <2>. QED
    BY <2>3, <2>4, <2>5, <2>6, <2>7 DEF Next
<1>. QED
  BY <1>1, OwnedAndSettled, PTL DEF FairSpec, RunsSeeSettledBatches

-----------------------------------------------------------------------------
(* What a profile holds of its candidate, and what a text's length says.    *)

\* Where the leak check finds nothing, nothing private of three letters is left.
LEMMA NothingPrivateIsLeft ==
    ASSUME NEW resume, NEW profile, leak_check(resume, profile) = {}
    PROVE  LET id == resume.identity
               private == id.full_name \cup id.name_parts \cup id.contacts \cup id.suburb
                          \cup resume.universities
                          \cup {q.institution : q \in ToSet(resume.qualifications)}
           IN WordsOf(profile) \cap (private \ (Short \cup {"none"})) = {}
BY DEF leak_check, identity_tokens

LEMMA ScrubbedOfTokens ==
    ASSUME NEW text, NEW tokens, NEW w \in scrub_text(text, tokens), w \in tokens
    PROVE  w = Redacted
BY DEF scrub_text

LEMMA SafeOfTokens ==
    ASSUME NEW texts, NEW tokens, NEW text \in SafeEntries(texts, tokens), NEW w \in text, w \in tokens
    PROVE  w = Redacted
BY DEF SafeEntries, scrub_text

\* Whatever the model answers, the profile names its candidate only where the resume
\* is copied, or by the mark of a redaction.
LEMMA OnlyCopiesLeak ==
    ASSUME NEW resume, NEW answer, NEW ref, leak_check(resume, Profile(resume, answer, ref)) # {}
    PROVE  identity_tokens(resume) \cap (Unscrubbed(resume) \cup {Redacted}) # {}
<1> DEFINE tokens == identity_tokens(resume)
           profile == Profile(resume, answer, ref)
<1>1. PICK w \in tokens : w \in WordsOf(profile)
  BY DEF leak_check
<1>2. /\ profile.summary = scrub_text(answer.summary, tokens)
      /\ profile.quoted = Scrubbed(resume.quoted, tokens)
      /\ profile.employers = Employers(resume, answer, tokens)
      /\ profile.institution_tiers = SafeEntries(answer.institution_tiers, tokens)
      /\ profile.region = SafeEntries(answer.region, tokens)
      /\ profile.job_relevant_affiliations = SafeEntries(answer.job_relevant_affiliations, tokens)
      /\ profile.qualifications = AnonymizedQualifications(resume)
      /\ profile.facts = resume.facts /\ profile.copied = resume.copied
  BY DEF Profile
<1>3. Unscrubbed(profile) = Unscrubbed(resume)
  BY <1>2 DEF Unscrubbed, CopiedTexts
<1>4. \A q \in ToSet(profile.qualifications) : q.institution = "none"
  BY <1>2 DEF AnonymizedQualifications, ToSet
<1>. HIDE DEF profile, tokens
<1>5. ASSUME NEW text \in {profile.summary} \cup ToSet(profile.quoted) \cup ToSet(profile.employers)
                 \cup profile.institution_tiers \cup profile.region \cup profile.job_relevant_affiliations,
             w \in text
      PROVE  w = Redacted
  <2>1. CASE text = profile.summary
    BY <1>2, <1>5, <2>1, ScrubbedOfTokens
  <2>2. CASE text \in ToSet(profile.quoted)
    <3>1. PICK i \in DOMAIN resume.quoted : text = scrub_text(resume.quoted[i], tokens)
      BY <1>2, <2>2 DEF ToSet, Scrubbed
    <3>. QED
      BY <1>5, <3>1, ScrubbedOfTokens
  <2>3. CASE text \in ToSet(profile.employers)
    <3>1. PICK i \in DOMAIN resume.employers : text = {} \/ text = scrub_text(resume.employers[i], tokens)
      BY <1>2, <2>3 DEF ToSet, Employers
    <3>. QED
      BY <1>5, <3>1, ScrubbedOfTokens
  <2>4. CASE text \in profile.institution_tiers \cup profile.region \cup profile.job_relevant_affiliations
    BY <1>2, <1>5, <2>4, SafeOfTokens
  <2>. QED
    BY <2>1, <2>2, <2>3, <2>4
<1>6. w = Redacted \/ w \in Unscrubbed(resume)
  BY <1>1, <1>3, <1>4, <1>5 DEF WordsOf
<1>. QED
  BY <1>1, <1>6 DEF tokens

\* Nothing is extracted only where Python reads nothing, whatever Tika answered.
LEMMA NothingToRead ==
    ASSUME NEW file, Measured(file), NEW answer, NEW installed, ~(Extracted(file, answer, installed) > 0)
    PROVE  PythonText(file) = 0
<1>1. file.chars.tika \in Nat /\ file.chars.python \in Nat /\ file.chars.ocr \in Nat
  BY DEF Measured
<1>2. PythonText(file) \in Nat /\ OcrText(file, installed) \in Nat
  BY <1>1 DEF PythonText, OcrText
<1>3. Text(file, answer) \in Nat /\ (Text(file, answer) = 0 => PythonText(file) = 0)
  BY <1>1, <1>2 DEF Text
<1>. QED
  BY <1>2, <1>3 DEF Extracted

-----------------------------------------------------------------------------
(* Candidates.                                                             *)

\* What a thread's step does to its candidate, seen from the row.
Treat(c, row, place) ==
    /\ rows' = [rows EXCEPT ![c] = row] /\ work' = [work EXCEPT ![c] = place]
    /\ work[c] \notin {"none", "done"} /\ row.ref = rows[c].ref
    /\ RowIsSound(row) /\ (place # "done" => row.error = "none")
    /\ UNCHANGED <<request, job>>

LEMMA ThreadsTreat ==
    ASSUME IntakeInv, CandidateInv, NEW c \in DOMAIN work, ThreadStep(c)
    PROVE  \E row, place : Treat(c, row, place)
<1> DEFINE old == rows[c]
           Fields == {"file", "status", "duplicate_of", "ref", "error", "resume", "profile"}
           Ends(status, error) == Store(c, [old EXCEPT !.status = status, !.error = error], "done")
           Enters(status, place) == Store(c, [old EXCEPT !.status = status], place)
<1>1. c \in DOMAIN rows /\ rows = [rows EXCEPT ![c] = old]
  BY Shaped DEF IntakeInv, Shape
<1>2. \A f, s, o : DOMAIN NewRow(f, s, o) = Fields
  BY DEF NewRow
<1>3. RowIsSound(old) /\ Fields \subseteq DOMAIN old /\ Measured(old.file)
  BY <1>1, <1>2 DEF CandidateInv, RowIsSound
<1>4. work[c] \notin {"none", "done"} => old.error = "none" /\ old.ref # 0
  BY DEF CandidateInv, RowsAreNumbered
<1>. HIDE DEF old, Ends, Enters
<1>5. ASSUME NEW place, work' = [work EXCEPT ![c] = place], UNCHANGED rows,
             work[c] \notin {"none", "done"}, UNCHANGED <<request, job>>
      PROVE  \E r, p : Treat(c, r, p)
  <2>1. Treat(c, old, place)
    BY <1>1, <1>3, <1>4, <1>5 DEF Treat, old
  <2>. QED
    BY <2>1
<1>6. ASSUME NEW error, NEW status \in {"needs_manual_review", "failed"},
             Ends(status, error), work[c] \notin {"none", "done"}, UNCHANGED <<request, job>>,
             error = "leak" => identity_tokens(old.resume) \cap (Unscrubbed(old.resume) \cup {Redacted}) # {},
             error = "extraction" => PythonText(old.file) = 0
      PROVE  \E r, p : Treat(c, r, p)
  <2> DEFINE row == [old EXCEPT !.status = status, !.error = error]
  <2>1. /\ DOMAIN row = DOMAIN old /\ row.file = old.file /\ row.ref = old.ref /\ row.resume = old.resume
        /\ row.status = status /\ row.error = error
    BY <1>3
  <2>. HIDE DEF row
  <2>2. RowIsSound(row)
    BY <1>2, <1>3, <1>6, <2>1 DEF RowIsSound
  <2>3. Treat(c, row, "done")
    BY <1>6, <2>1, <2>2 DEF Treat, Ends, Store, row, old
  <2>. QED
    BY <2>3
<1>7. ASSUME NEW status \in {"extracting", "structuring"}, NEW place,
             Enters(status, place), work[c] \notin {"none", "done"}, UNCHANGED <<request, job>>
      PROVE  \E r, p : Treat(c, r, p)
  <2> DEFINE row == [old EXCEPT !.status = status]
  <2>1. /\ DOMAIN row = DOMAIN old /\ row.file = old.file /\ row.ref = old.ref
        /\ row.status = status /\ row.error = old.error
    BY <1>3
  <2>. HIDE DEF row
  <2>2. RowIsSound(row) /\ row.error = "none"
    BY <1>2, <1>3, <1>4, <1>7, <2>1 DEF RowIsSound
  <2>3. Treat(c, row, place)
    BY <1>7, <2>1, <2>2 DEF Treat, Enters, Store, row, old
  <2>. QED
    BY <2>3
<1>8. CASE Begin(c)
  <2>1. work[c] \notin {"none", "done"} /\ UNCHANGED <<request, job>>
    BY <1>8 DEF Begin
  <2>2. Ends("failed", "missing") \/ Enters("extracting", "extract")
    BY <1>8 DEF Begin, Fail, Ends, Enters, old
  <2>. QED
    BY <1>6, <1>7, <2>1, <2>2
<1>9. CASE Extract(c)
  <2>1. work[c] \notin {"none", "done"} /\ UNCHANGED <<request, job>>
    BY <1>9 DEF Extract
  <2>2. PICK outcome \in Tika(tikaOk), installed \in BOOLEAN :
           LET count == Extracted(rows[c].file, outcome[1], installed)
           IN IF count > 0
              THEN Store(c, [rows[c] EXCEPT !.status = "structuring"],
                         IF count < MIN_USABLE_CHARS THEN "short" ELSE "structure")
              ELSE IF work[c] = "extract"
              THEN work' = [work EXCEPT ![c] = "extract again"] /\ UNCHANGED rows
              ELSE DeadLetter(c, "extraction")
    BY <1>9 DEF Extract
  <2>3. CASE Extracted(old.file, outcome[1], installed) > 0
    <3>1. \E place : Enters("structuring", place)
      BY <2>2, <2>3 DEF Enters, old
    <3>. QED
      BY <1>7, <2>1, <3>1
  <2>4. CASE ~(Extracted(old.file, outcome[1], installed) > 0)
    <3>1. \/ work' = [work EXCEPT ![c] = "extract again"] /\ UNCHANGED rows
          \/ Ends("needs_manual_review", "extraction")
      BY <2>2, <2>4 DEF DeadLetter, Ends, old
    <3>2. PythonText(old.file) = 0
      BY <1>3, <2>4, NothingToRead
    <3>. QED
      BY <1>5, <1>6, <2>1, <3>1, <3>2
  <2>. QED
    BY <2>3, <2>4
<1>10. CASE StructureFails(c)
  <2>1. work[c] \notin {"none", "done"} /\ UNCHANGED <<request, job>>
    BY <1>10 DEF StructureFails
  <2>2. Ends("needs_manual_review", "short") \/ Ends("needs_manual_review", "structuring")
    BY <1>10 DEF StructureFails, DeadLetter, Ends, old
  <2>. QED
    BY <1>6, <2>1, <2>2
<1>11. CASE Structure(c)
  <2>1. work[c] \notin {"none", "done"} /\ UNCHANGED <<request, job>>
    BY <1>11 DEF Structure
  <2>2. \/ work' = [work EXCEPT ![c] = "raised"] /\ UNCHANGED rows
        \/ Ends("needs_manual_review", "schema")
        \/ \E resume : Store(c, [old EXCEPT !.status = "anonymizing", !.resume = resume], "anonymize")
    BY <1>11 DEF Structure, Raise, DeadLetter, Ends, old
  <2>3. ASSUME NEW resume, Store(c, [old EXCEPT !.status = "anonymizing", !.resume = resume], "anonymize")
        PROVE  \E r, p : Treat(c, r, p)
    <3> DEFINE row == [old EXCEPT !.status = "anonymizing", !.resume = resume]
    <3>1. /\ DOMAIN row = DOMAIN old /\ row.file = old.file /\ row.ref = old.ref
          /\ row.status = "anonymizing" /\ row.error = old.error
      BY <1>3
    <3>. HIDE DEF row
    <3>2. RowIsSound(row) /\ row.error = "none"
      BY <1>2, <1>3, <1>4, <2>1, <3>1 DEF RowIsSound
    <3>3. Treat(c, row, "anonymize")
      BY <2>1, <2>3, <3>1, <3>2 DEF Treat, Store, row, old
    <3>. QED
      BY <3>3
  <2>. QED
    BY <1>5, <1>6, <2>1, <2>2, <2>3
<1>12. CASE AnonymizeFails(c)
  <2>1. work[c] \notin {"none", "done"} /\ UNCHANGED <<request, job>>
    BY <1>12 DEF AnonymizeFails
  <2>2. Ends("failed", "anonymization")
    BY <1>12 DEF AnonymizeFails, Fail, Ends, old
  <2>. QED
    BY <1>6, <2>1, <2>2
<1>13. CASE Anonymize(c)
  <2>1. work[c] \notin {"none", "done"} /\ UNCHANGED <<request, job>>
    BY <1>13 DEF Anonymize
  <2>2. PICK answer \in Answers :
           IF ~answer.redactions_fit THEN Raise(c)
           ELSE LET profile == Profile(rows[c].resume, answer, rows[c].ref)
                IN IF leak_check(rows[c].resume, profile) # {} THEN Fail(c, "leak")
                   ELSE Store(c, [rows[c] EXCEPT !.status = "ready", !.profile = profile], "done")
    BY <1>13 DEF Anonymize
  <2> DEFINE profile == Profile(old.resume, answer, old.ref)
  <2>3. profile.candidate_ref = old.ref
    BY DEF Profile
  <2>4. \/ work' = [work EXCEPT ![c] = "raised"] /\ UNCHANGED rows
        \/ leak_check(old.resume, profile) # {} /\ Ends("failed", "leak")
        \/ /\ leak_check(old.resume, profile) = {}
           /\ Store(c, [old EXCEPT !.status = "ready", !.profile = profile], "done")
    BY <2>2 DEF Raise, Fail, Ends, old
  <2>5. CASE work' = [work EXCEPT ![c] = "raised"] /\ UNCHANGED rows
    BY <1>5, <2>1, <2>5
  <2>6. CASE leak_check(old.resume, profile) # {} /\ Ends("failed", "leak")
    <3>1. identity_tokens(old.resume) \cap (Unscrubbed(old.resume) \cup {Redacted}) # {}
      BY <2>6, OnlyCopiesLeak
    <3>. QED
      BY <1>6, <2>1, <2>6, <3>1
  <2>. HIDE DEF profile
  <2>7. CASE /\ leak_check(old.resume, profile) = {}
             /\ Store(c, [old EXCEPT !.status = "ready", !.profile = profile], "done")
    <3> DEFINE row == [old EXCEPT !.status = "ready", !.profile = profile]
    <3>1. /\ DOMAIN row = DOMAIN old /\ row.file = old.file /\ row.ref = old.ref /\ row.resume = old.resume
          /\ row.status = "ready" /\ row.error = old.error /\ row.profile = profile
      BY <1>3
    <3>. HIDE DEF row
    <3>2. RowIsSound(row) /\ row.error = "none"
      BY <1>2, <1>3, <1>4, <2>1, <2>3, <2>7, <3>1 DEF RowIsSound
    <3>3. Treat(c, row, "done")
      BY <2>1, <2>7, <3>1, <3>2 DEF Treat, Store, row, old
    <3>. QED
      BY <3>3
  <2>. QED
    BY <2>4, <2>5, <2>6, <2>7
<1>. QED
  BY <1>8, <1>9, <1>10, <1>11, <1>12, <1>13 DEF ThreadStep

LEMMA CandidatesAtFirst == Init => CandidateInv
<1>1. DOMAIN <<>> = {}
  OBVIOUS
<1>. QED
  BY <1>1 DEF Init, CandidateInv, RowsAreNumbered, Adding, At

LEMMA TreatedSoundly ==
    ASSUME IntakeInv, CandidateInv, NEW c \in DOMAIN work, ThreadStep(c)
    PROVE  CandidateInv'
<1>. USE DEF CandidateInv
<1>1. PICK row, place : Treat(c, row, place)
  BY ThreadsTreat
<1>2. /\ rows' = [rows EXCEPT ![c] = row] /\ work' = [work EXCEPT ![c] = place]
      /\ work[c] \notin {"none", "done"} /\ row.ref = rows[c].ref
      /\ RowIsSound(row) /\ (place # "done" => row.error = "none")
      /\ UNCHANGED <<request, job>>
  BY <1>1 DEF Treat
<1>3. DOMAIN work = DOMAIN rows
  BY Shaped DEF IntakeInv, Shape
<1>4. /\ DOMAIN rows' = DOMAIN rows /\ DOMAIN work' = DOMAIN work
      /\ rows'[c] = row /\ work'[c] = place
      /\ \A d \in DOMAIN rows \ {c} : rows'[d] = rows[d] /\ work'[d] = work[d]
  BY <1>2, <1>3
<1>5. \A d \in DOMAIN rows : rows'[d].ref = rows[d].ref
  BY <1>2, <1>3, <1>4
<1>6. \A d \in DOMAIN rows' : RowIsSound(rows'[d])
  BY <1>2, <1>4
<1>7. Adding' = Adding
  BY <1>2 DEF Adding, At
<1>8. RowsAreNumbered'
  BY <1>2, <1>3, <1>4, <1>5, <1>7 DEF RowsAreNumbered
<1>. QED
  BY <1>2, <1>6, <1>8

\* A row added has no number yet and says nothing of its candidate.
LEMMA AddedSoundly ==
    ASSUME IntakeInv, CandidateInv, NEW q \in Requests, AddDocument(q)
    PROVE  CandidateInv'
<1> DEFINE n    == Len(rows)
           file == request[q].documents[request[q].next]
<1>. USE DEF CandidateInv
<1>1. q \in Adding /\ UNCHANGED job
  BY DEF AddDocument, Adding
<1>2. /\ IsSequence(rows) /\ IsSequence(work) /\ n \in Nat /\ Len(work) = n
      /\ DOMAIN rows = 1..n /\ DOMAIN work = 1..n
  BY Shaped DEF IntakeInv, Shape
<1>3. PICK status \in {"pending", "duplicate"} : \E original : rows' = Append(rows, NewRow(file, status, original))
  BY DEF AddDocument
<1>4. PICK original : rows' = Append(rows, NewRow(file, status, original))
  BY <1>3
<1>5. /\ DOMAIN rows' = 1..(n + 1) /\ \A c \in 1..n : rows'[c] = rows[c]
      /\ rows'[n + 1] = NewRow(file, status, original)
  BY <1>2, <1>4, Appended
<1>6. /\ DOMAIN work' = 1..(n + 1) /\ \A c \in 1..n : work'[c] = work[c]
      /\ work'[n + 1] = "none"
  BY <1>2, Appended DEF AddDocument
<1>7. Measured(file)
  <2>1. /\ request[q].next \in Nat /\ request[q].next <= Len(request[q].documents)
        /\ DOMAIN request[q].documents = 1..Len(request[q].documents)
        /\ Len(request[q].documents) \in Nat
    BY Shaped DEF AddDocument, IntakeInv, Shape
  <2>2. request[q].next - 1 = n
    BY <1>1 DEF IntakeInv, RowsAreDocuments, Owners, Adding, At
  <2>3. request[q].next \in DOMAIN request[q].documents
    BY <1>2, <2>1, <2>2
  <2>. QED
    BY <2>3
<1>8. RowIsSound(rows'[n + 1]) /\ rows'[n + 1].ref = 0
  BY <1>5, <1>7 DEF RowIsSound, NewRow
<1>9. \A c \in 1..(n + 1) : c \in 1..n \/ c = n + 1
  BY <1>2
<1>10. \A r \in Requests : request'[r].documents = request[r].documents
  <2>1. \/ request' = [request EXCEPT ![q].next = @ + 1]
        \/ request' = [request EXCEPT ![q].pc = "refused"]
    BY DEF AddDocument, GoTo
  <2>2. DOMAIN request = Requests /\ "documents" \in DOMAIN request[q]
    BY DEF IntakeInv, Shape
  <2>. QED
    BY <2>1, <2>2
<1>11. Adding # {} /\ \A c \in 1..n : rows[c].ref = 0
  BY <1>1, <1>2 DEF RowsAreNumbered
<1>12. RowsAreNumbered'
  <2>1. \A c \in 1..(n + 1) : rows'[c].ref = 0
    BY <1>5, <1>8, <1>9, <1>11
  <2>2. \A c \in 1..(n + 1) : work'[c] = "none"
    BY <1>1, <1>2, <1>6, <1>9 DEF IntakeInv, UntouchedAtFirst
  <2>. QED
    BY <1>5, <1>6, <2>1, <2>2 DEF RowsAreNumbered
<1>13. \A c \in DOMAIN rows' : RowIsSound(rows'[c])
  BY <1>2, <1>5, <1>8, <1>9
<1>. QED
  BY <1>10, <1>12, <1>13

\* The numbers that process_batch gives differ, and none is zero.
LEMMA Numbers ==
    ASSUME NEW n \in Nat, NEW S \in SUBSET (1..n)
    PROVE  /\ \A c \in S : Cardinality(S \cap 1..c) \in Nat /\ Cardinality(S \cap 1..c) > 0
           /\ \A c, d \in S : c < d => Cardinality(S \cap 1..c) < Cardinality(S \cap 1..d)
<1>1. ASSUME NEW c \in S
      PROVE  IsFiniteSet(S \cap 1..c) /\ Cardinality(S \cap 1..c) \in Nat /\ c \in S \cap 1..c
  <2>1. c \in Nat /\ c \in 1..c
    OBVIOUS
  <2>2. IsFiniteSet(S \cap 1..c)
    BY <2>1, FS_Interval, FS_Subset
  <2>. QED
    BY <2>1, <2>2, FS_CardinalityType
<1>2. ASSUME NEW c \in S PROVE Cardinality(S \cap 1..c) > 0
  BY <1>1, FS_EmptySet
<1>3. ASSUME NEW c \in S, NEW d \in S, c < d
      PROVE  Cardinality(S \cap 1..c) < Cardinality(S \cap 1..d)
  <2> DEFINE T == (S \cap 1..d) \ {d}
  <2>1. S \cap 1..c \subseteq T
    BY <1>3
  <2>2. IsFiniteSet(T) /\ Cardinality(T) = Cardinality(S \cap 1..d) - 1
    BY <1>1, FS_RemoveElement
  <2>3. Cardinality(S \cap 1..c) <= Cardinality(T)
    BY <2>1, <2>2, FS_Subset
  <2>. HIDE DEF T
  <2>. QED
    BY <1>1, <2>2, <2>3
<1>. QED
  BY <1>1, <1>2, <1>3

LEMMA NumberedSoundly ==
    ASSUME IntakeInv, CandidateInv, Take
    PROVE  CandidateInv'
<1> DEFINE start == Cardinality({c \in DOMAIN rows : rows[c].ref # 0 /\ c \notin Pending})
           number(c) == Cardinality(Pending \cap 1..c)
           n == Len(rows)
<1>. USE DEF CandidateInv
<1>1. /\ job = "queued" /\ job' = "running" /\ UNCHANGED request
      /\ DOMAIN rows = 1..n /\ n \in Nat /\ Pending \subseteq 1..n
  BY Shaped DEF Take, IntakeInv, Shape, Pending
<1>2. \A c \in 1..n : rows[c].ref = 0
  BY <1>1 DEF RowsAreNumbered
<1>3. start = 0
  <2>1. {c \in DOMAIN rows : rows[c].ref # 0 /\ c \notin Pending} = {}
    BY <1>1, <1>2
  <2>. QED
    BY <2>1, FS_EmptySet
<1>4. /\ \A c \in Pending : number(c) \in Nat /\ number(c) > 0
      /\ \A c, d \in Pending : c < d => number(c) < number(d)
  BY <1>1, Numbers
<1>5. rows' = [c \in 1..n |-> IF c \in Pending THEN [rows[c] EXCEPT !.ref = start + number(c)] ELSE rows[c]]
  BY <1>1 DEF Take
<1>. HIDE DEF start, number
<1>6. \A c \in Pending : start + number(c) = number(c)
  BY <1>3, <1>4
<1>7. /\ DOMAIN rows' = 1..n
      /\ \A c \in 1..n : c \in Pending => rows'[c] = [rows[c] EXCEPT !.ref = number(c)]
      /\ \A c \in 1..n : c \notin Pending => rows'[c] = rows[c]
  BY <1>5, <1>6
<1>8. work' = [c \in 1..n |-> IF c \in Pending THEN "waiting" ELSE "none"]
  BY <1>1 DEF Take
<1>9. \A c \in Pending : rows[c].status = "pending" /\ RowIsSound(rows[c])
  BY <1>1 DEF Pending
<1>10. ASSUME NEW c \in Pending
       PROVE  rows'[c].ref = number(c) /\ rows'[c].error = "none" /\ RowIsSound(rows'[c])
  <2> DEFINE old == rows[c]
             row == [old EXCEPT !.ref = number(c)]
  <2>1. rows'[c] = row
    BY <1>1, <1>7
  <2>2. RowIsSound(old) /\ old.status = "pending"
    BY <1>9
  <2>. HIDE DEF old
  <2>3. DOMAIN NewRow(0, "pending", 0) = {"file", "status", "duplicate_of", "ref", "error", "resume", "profile"}
    BY DEF NewRow
  <2>4. /\ DOMAIN row = DOMAIN old /\ row.ref = number(c) /\ row.status = old.status
        /\ row.error = old.error /\ row.file = old.file
    BY <2>2, <2>3 DEF RowIsSound
  <2>. HIDE DEF row
  <2>5. RowIsSound(row) /\ row.error = "none"
    BY <2>2, <2>4 DEF RowIsSound
  <2>. QED
    BY <2>1, <2>4, <2>5
<1>11. \A c \in DOMAIN rows' : RowIsSound(rows'[c])
  BY <1>1, <1>7, <1>10
<1>12. Adding' = {}
  BY <1>1 DEF Adding, At, IntakeInv, OneOwner
<1>13. RowsAreNumbered'
  <2>1. \A c \in DOMAIN work' : work'[c] # "none" => rows'[c].ref # 0 /\ rows'[c].error = "none"
    BY <1>1, <1>4, <1>8, <1>10
  <2>2. \A c, d \in DOMAIN rows' : rows'[c].ref = rows'[d].ref => c = d \/ rows'[c].ref = 0
    <3>1. SUFFICES ASSUME NEW c \in 1..n, NEW d \in 1..n, rows'[c].ref = rows'[d].ref, c # d
                   PROVE  rows'[c].ref = 0
      BY <1>7
    <3>2. CASE c \in Pending /\ d \in Pending
      <4>1. number(c) = number(d) /\ (c < d \/ d < c)
        BY <1>10, <3>1, <3>2
      <4>. QED
        BY <1>4, <3>2, <4>1
    <3>3. CASE c \notin Pending \/ d \notin Pending
      BY <1>2, <1>7, <3>1, <3>3
    <3>. QED
      BY <3>2, <3>3
  <2>. QED
    BY <1>1, <1>12, <2>1, <2>2 DEF RowsAreNumbered
<1>. QED
  BY <1>1, <1>11, <1>13

\* A step that leaves the rows and the threads alone keeps the invariant, if the
\* documents that it brings are measured and nobody starts to add to rows that exist.
LEMMA NobodyTreated ==
    ASSUME CandidateInv, UNCHANGED <<rows, work>>,
           \A q \in Requests : \A i \in DOMAIN request'[q].documents : Measured(request'[q].documents[i]),
           Adding' # {} \/ job' = "queued" => Adding # {} \/ job = "queued" \/ rows = <<>>
    PROVE  CandidateInv'
<1>1. DOMAIN <<>> = {}
  OBVIOUS
<1>. QED
  BY <1>1 DEF CandidateInv, RowsAreNumbered

\* The documents of a request change to those of a pull.
LEMMA NewDocuments ==
    ASSUME IntakeInv, NEW q \in Requests, Check(q) \/ PullBatch(q) \/ CreateBatch(q) \/ Submit(q),
           NEW r \in Requests, request'[r].documents # request[r].documents
    PROVE  \E unreadable : request'[r].documents = pull_batch_documents(Bucket, unreadable, MaxBytes).documents
<1>1. \A s \in Requests : {"pc", "documents", "next"} \subseteq DOMAIN request[s]
  BY DEF IntakeInv, Shape
<1>2. CASE \E pc : GoTo(q, pc)
  BY <1>2, Moved
<1>3. CASE ~\E pc : GoTo(q, pc)
  <2>1. PICK unreadable \in SUBSET ToSet(Bucket), pc \in {"refused", "create"} :
           request' = [request EXCEPT
               ![q].pc = pc,
               ![q].documents = pull_batch_documents(Bucket, unreadable, MaxBytes).documents]
    BY <1>3 DEF Check, PullBatch, CreateBatch, Submit
  <2>. QED
    BY <1>1, <2>1 DEF IntakeInv, Shape
<1>. QED
  BY <1>2, <1>3

LEMMA RequestsTreatNobody ==
    ASSUME IntakeInv, CandidateInv, NEW q \in Requests,
           Check(q) \/ PullBatch(q) \/ CreateBatch(q) \/ Submit(q)
    PROVE  CandidateInv'
<1>1. UNCHANGED <<rows, work>>
  BY DEF Check, PullBatch, CreateBatch, Submit, store
<1>2. Adding' # {} \/ job' = "queued" => Adding # {} \/ job = "queued" \/ rows = <<>>
  <2>1. CASE Submit(q)
    BY <2>1 DEF Submit, Adding
  <2>2. CASE CreateBatch(q) /\ batch = "none"
    BY <2>2 DEF IntakeInv, OneOwner
  <2>3. CASE Check(q) \/ PullBatch(q) \/ (CreateBatch(q) /\ batch # "none")
    <3>1. \A r \in Requests : request'[r].pc = "add" => request[r].pc = "add"
      <4>1. CASE \E pc \in {"pull", "refused"} : GoTo(q, pc)
        BY <4>1, Moved
      <4>2. CASE ~\E pc \in {"pull", "refused"} : GoTo(q, pc)
        <5>1. PullBatch(q)
          BY <2>3, <4>2 DEF Check, CreateBatch
        <5>2. PICK unreadable \in SUBSET ToSet(Bucket), pc \in {"refused", "create"} :
                 request' = [request EXCEPT
                     ![q].pc = pc,
                     ![q].documents = pull_batch_documents(Bucket, unreadable, MaxBytes).documents]
          BY <4>2, <5>1 DEF PullBatch
        <5>. QED
          BY <5>2 DEF IntakeInv, Shape
      <4>. QED
        BY <4>1, <4>2
    <3>2. job' = job
      BY <2>3 DEF Check, PullBatch, CreateBatch
    <3>. QED
      BY <3>1, <3>2 DEF Adding, At
  <2>. QED
    BY <2>1, <2>2, <2>3
<1>3. ASSUME NEW r \in Requests
      PROVE  \A i \in DOMAIN request'[r].documents : Measured(request'[r].documents[i])
  <2>1. CASE request'[r].documents = request[r].documents
    BY <2>1 DEF CandidateInv
  <2>2. CASE request'[r].documents # request[r].documents
    BY <2>2, NewDocuments, PullsAreListed
  <2>. QED
    BY <2>1, <2>2
<1>. QED
  BY <1>1, <1>2, <1>3, NobodyTreated

LEMMA RestartTreatsNobody ==
    ASSUME IntakeInv, CandidateInv, Restart
    PROVE  CandidateInv'
<1>1. /\ rows' = rows /\ job' # "queued" /\ DOMAIN work' = DOMAIN work
      /\ \A c \in DOMAIN work : work'[c] = "none"
  BY DEF Restart, store
<1>2. \A q \in Requests : request'[q].documents = request[q].documents /\ request'[q].pc # "add"
  BY DEF Restart, IntakeInv, Shape
<1>3. Adding' = {}
  BY <1>2 DEF Adding, At
<1>. QED
  BY <1>1, <1>2, <1>3 DEF CandidateInv, RowsAreNumbered

LEMMA CandidatesKeep == IntakeInv /\ CandidateInv /\ [Next]_vars => CandidateInv'
<1>. SUFFICES ASSUME IntakeInv, CandidateInv, [Next]_vars PROVE CandidateInv'
  OBVIOUS
<1>1. ASSUME NEW q \in Requests, RequestStep(q) PROVE CandidateInv'
  BY <1>1, RequestsTreatNobody, AddedSoundly DEF RequestStep
<1>2. ASSUME NEW c \in DOMAIN work, ThreadStep(c) PROVE CandidateInv'
  BY <1>2, TreatedSoundly
<1>3. CASE Take
  BY <1>3, NumberedSoundly
<1>4. CASE Observe \/ FailBatch \/ CompleteBatch \/ CreateRun \/ UNCHANGED vars
  <2>1. UNCHANGED <<request, rows, work>> /\ (job' = "queued" => job = "queued")
    BY <1>4 DEF Observe, FailBatch, CompleteBatch, CreateRun, vars, store
  <2>2. Adding' = Adding
    BY <2>1 DEF Adding, At
  <2>. QED
    BY <2>1, <2>2 DEF CandidateInv, RowsAreNumbered
<1>5. CASE Restart
  BY <1>5, RestartTreatsNobody
<1>. QED
  BY <1>1, <1>2, <1>3, <1>4, <1>5 DEF Next, JobStep

\* Every row names what its status and its error rest on, and numbers are given once.
THEOREM RowsAreSound == Init /\ [][Next]_vars => []CandidateInv
BY AtFirst, StepsKeep, CandidatesAtFirst, CandidatesKeep, PTL

\* For every resume and whatever the model reads and answers: a ready candidate's
\* profile holds nothing private of three letters and carries a number of its own, and
\* a candidate fails for a leak only by what is copied from the resume.
THEOREM CandidatesAreAnonymous == FairSpec => []AnonymizationIsExact
<1>1. CandidateInv => AnonymizationIsExact
  <2>. SUFFICES ASSUME CandidateInv PROVE AnonymizationIsExact
    OBVIOUS
  <2>1. ASSUME NEW c \in DOMAIN rows, rows[c].status = "ready"
        PROVE  /\ leak_check(rows[c].resume, rows[c].profile) = {}
               /\ rows[c].profile.candidate_ref = rows[c].ref
               /\ \A d \in DOMAIN rows : rows[d].ref = rows[c].ref => d = c
    BY <2>1 DEF CandidateInv, RowIsSound, RowsAreNumbered
  <2>2. ReadyIsAnonymous
    BY <2>1, NothingPrivateIsLeft DEF ReadyIsAnonymous
  <2>3. ModelCannotFailACandidate
    BY DEF CandidateInv, RowIsSound, ModelCannotFailACandidate
  <2>. QED
    BY <2>2, <2>3 DEF AnonymizationIsExact
<1>. QED
  BY <1>1, RowsAreSound, PTL DEF FairSpec

\* However Tika and the OCR toolchain come and go between documents and attempts, a
\* document is given up for want of text only if Python finds none in it.
THEOREM ReadableAreKept == FairSpec => []ReadableIsNotGivenUp
<1>1. CandidateInv => ReadableIsNotGivenUp
  BY DEF CandidateInv, RowIsSound, ReadableIsNotGivenUp
<1>. QED
  BY <1>1, RowsAreSound, PTL DEF FairSpec

-----------------------------------------------------------------------------
(* The limit of what archives unpack to.                                   *)

\* The files of the rows change only when a row is added, and so the limit holds.
LEMMA FilesStay ==
    ASSUME LimitInv, DOMAIN rows' = DOMAIN rows, \A c \in DOMAIN rows : rows'[c].file = rows[c].file,
           \A q \in Requests : \/ request'[q].documents = request[q].documents
                               \/ Unpacked(request'[q].documents) <= MaxBytes
    PROVE  LimitInv'
<1> DEFINE files == [c \in DOMAIN rows |-> rows[c].file]
<1>1. files' = files
  OBVIOUS
<1>2. Unpacked(files') <= MaxBytes
  BY <1>1 DEF LimitInv, UnpackLimitHolds
<1>. QED
  BY <1>2 DEF LimitInv, UnpackLimitHolds

\* A prefix of a list of files weighs no more than the list.
LEMMA PrefixesFit ==
    ASSUME NEW files, IsSequence(files), \A i \in DOMAIN files : Measured(files[i]),
           NEW n \in Nat, n <= Len(files), NEW some, DOMAIN some = 1..n,
           \A i \in 1..n : some[i] = files[i]
    PROVE  Unpacked(some) \in Nat /\ Unpacked(files) \in Nat /\ Unpacked(some) <= Unpacked(files)
<1> DEFINE all == [i \in DOMAIN files |-> Weight(files[i])]
           part == [i \in DOMAIN some |-> Weight(some[i])]
           S == DOMAIN files
           T == 1..n
<1>1. /\ S = 1..Len(files) /\ Len(files) \in Nat /\ T \in SUBSET S
      /\ \A i \in S : files[i].size \in Nat
  BY Shaped DEF Measured
<1>2. IsFiniteSet(S) /\ IsFiniteSet(T)
  BY <1>1, FS_Interval
<1>3. \A i \in S : all[i] \in Nat
  BY <1>1 DEF Weight
<1>4. \A i \in T : part[i] = all[i]
  BY <1>1
<1>5. Unpacked(files) = SumFunctionOnSet(all, S) /\ Unpacked(some) = SumFunctionOnSet(part, T)
  BY DEF Unpacked, SumFunction, Weight
<1>. HIDE DEF all, part, S, T
<1>6. \A i \in T : part[i] \in Nat /\ all[i] \in Nat /\ part[i] \in Int /\ all[i] \in Int /\ part[i] <= all[i]
  BY <1>1, <1>3, <1>4
<1>7. SumFunctionOnSet(part, T) <= SumFunctionOnSet(all, T)
  BY <1>2, <1>6, SumsAreAtLeast
<1>8. SumFunctionOnSet(all, T) <= SumFunctionOnSet(all, S)
  BY <1>1, <1>2, <1>3, PartsSumToLess
<1>9. /\ SumFunctionOnSet(part, T) \in Nat /\ SumFunctionOnSet(all, T) \in Nat
      /\ SumFunctionOnSet(all, S) \in Nat
  BY <1>2, <1>3, <1>6, SumsAreNatural
<1>. QED
  BY <1>5, <1>7, <1>8, <1>9

\* The rows with one more are the first documents of their owner.
LEMMA AddedFits ==
    ASSUME IntakeInv, CandidateInv, LimitInv, NEW q \in Requests, AddDocument(q)
    PROVE  LimitInv'
<1> DEFINE n     == Len(rows)
           file  == request[q].documents[request[q].next]
           files == request[q].documents
           some  == [c \in DOMAIN rows' |-> rows'[c].file]
<1>1. q \in Owners /\ At(q, "add")
  BY DEF AddDocument, Owners, At
<1>2. /\ IsSequence(rows) /\ n \in Nat /\ DOMAIN rows = 1..n
  BY Shaped DEF IntakeInv, Shape
<1>3. /\ request[q].next = n + 1 /\ \A c \in 1..n : rows[c].file = files[c]
  <2>1. request[q].next - 1 = n /\ request[q].next \in Nat
    BY <1>1 DEF IntakeInv, RowsAreDocuments, Shape
  <2>. QED
    BY <1>1, <1>2, <2>1 DEF IntakeInv, RowsAreDocuments
<1>4. /\ IsSequence(files) /\ n + 1 <= Len(files)
      /\ \A i \in DOMAIN files : Measured(files[i])
  BY <1>3 DEF AddDocument, IntakeInv, Shape, CandidateInv
<1>5. PICK status \in {"pending", "duplicate"} : \E original : rows' = Append(rows, NewRow(file, status, original))
  BY DEF AddDocument
<1>6. PICK original : rows' = Append(rows, NewRow(file, status, original))
  BY <1>5
<1>7. /\ DOMAIN rows' = 1..(n + 1) /\ \A c \in 1..n : rows'[c] = rows[c]
      /\ rows'[n + 1] = NewRow(file, status, original)
  BY <1>2, <1>6, Appended
<1>8. DOMAIN some = 1..(n + 1) /\ \A c \in 1..(n + 1) : some[c] = files[c]
  <2>1. \A c \in 1..(n + 1) : c \in 1..n \/ c = n + 1
    BY <1>2
  <2>. QED
    BY <1>3, <1>7, <2>1 DEF NewRow
<1>9. n + 1 \in Nat
  BY <1>2
<1>. HIDE DEF some
<1>10. Unpacked(some) \in Nat /\ Unpacked(files) \in Nat /\ Unpacked(some) <= Unpacked(files)
  BY <1>4, <1>8, <1>9, PrefixesFit
<1>11. \A r \in Requests : request'[r].documents = request[r].documents
  BY DEF AddDocument, GoTo, IntakeInv, Shape
<1>12. Unpacked(files) <= MaxBytes
  BY DEF LimitInv
<1>13. Unpacked(some) <= MaxBytes
  BY <1>10, <1>12, IntakeConstants
<1>14. UnpackLimitHolds'
  BY <1>13 DEF UnpackLimitHolds, some
<1>. QED
  BY <1>11, <1>14 DEF LimitInv

LEMMA LimitAtFirst == Init => LimitInv
<1>. SUFFICES ASSUME Init PROVE LimitInv
  OBVIOUS
<1>1. [c \in DOMAIN rows |-> rows[c].file] = <<>>
  BY DEF Init
<1>2. \A q \in Requests : request[q].documents = <<>>
  BY DEF Init
<1>3. 0 <= MaxBytes
  BY IntakeConstants
<1>. QED
  BY <1>1, <1>2, <1>3, NothingUnpacked DEF LimitInv, UnpackLimitHolds

LEMMA LimitKeeps == IntakeInv /\ CandidateInv /\ LimitInv /\ [Next]_vars => LimitInv'
<1>. SUFFICES ASSUME IntakeInv, CandidateInv, LimitInv, [Next]_vars PROVE LimitInv'
  OBVIOUS
<1>1. ASSUME NEW q \in Requests, Check(q) \/ PullBatch(q) \/ CreateBatch(q) \/ Submit(q)
      PROVE  LimitInv'
  <2>1. rows' = rows
    BY <1>1 DEF Check, PullBatch, CreateBatch, Submit, store
  <2>2. \A r \in Requests : \/ request'[r].documents = request[r].documents
                            \/ Unpacked(request'[r].documents) <= MaxBytes
    BY <1>1, NewDocuments, PullsAreListed
  <2>. QED
    BY <2>1, <2>2, FilesStay
<1>2. ASSUME NEW q \in Requests, RequestStep(q) PROVE LimitInv'
  BY <1>1, <1>2, AddedFits DEF RequestStep
<1>3. ASSUME NEW c \in DOMAIN work, ThreadStep(c) PROVE LimitInv'
  <2>1. PICK row, place : Advance(c, row, place)
    BY <1>3, ThreadsAdvance
  <2>2. /\ request' = request /\ DOMAIN rows' = DOMAIN rows
        /\ \A d \in DOMAIN rows : rows'[d].file = rows[d].file
    BY <2>1 DEF Advance
  <2>. QED
    BY <2>2, FilesStay
<1>4. CASE Take
  <2> DEFINE start == Cardinality({c \in DOMAIN rows : rows[c].ref # 0 /\ c \notin Pending})
             number(c) == start + Cardinality(Pending \cap 1..c)
  <2>1. rows' = [c \in DOMAIN rows |->
                    IF c \in Pending THEN [rows[c] EXCEPT !.ref = number(c)] ELSE rows[c]]
    BY <1>4 DEF Take
  <2>. HIDE DEF number
  <2>2. request' = request /\ DOMAIN rows' = DOMAIN rows /\ \A c \in DOMAIN rows : rows'[c].file = rows[c].file
    BY <1>4, <2>1 DEF Take, IntakeInv, Shape
  <2>. QED
    BY <2>2, FilesStay
<1>5. CASE Observe \/ FailBatch \/ CompleteBatch \/ CreateRun \/ UNCHANGED vars
  <2>1. request' = request /\ rows' = rows
    BY <1>5 DEF Observe, FailBatch, CompleteBatch, CreateRun, vars, store
  <2>. QED
    BY <2>1, FilesStay
<1>6. CASE Restart
  <2>1. rows' = rows /\ \A q \in Requests : request'[q].documents = request[q].documents
    BY <1>6 DEF Restart, store, IntakeInv, Shape
  <2>. QED
    BY <2>1, FilesStay
<1>. QED
  BY <1>2, <1>3, <1>4, <1>5, <1>6 DEF Next, JobStep

\* For any folder of any archives, whatever of it can be read, whatever requests race
\* for it and whenever the server restarts: a batch that is accepted is the documents
\* of its pull, and what came out of archives stays within the limit, all together.
THEOREM BatchesHoldTheirDocuments == FairSpec => []BatchHoldsItsDocuments
<1>1. LimitInv => UnpackLimitHolds
  BY DEF LimitInv
<1>2. Init /\ [][Next]_vars => []LimitInv
  BY LimitAtFirst, LimitKeeps, OwnedAndSettled, RowsAreSound, PTL
<1>. QED
  BY <1>1, <1>2, EveryDocument, PTL DEF FairSpec, BatchHoldsItsDocuments
====
