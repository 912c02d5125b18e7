---------------------------- MODULE Lists_proofs -----------------------------
(***************************************************************************)
(* Facts that the other proofs share: about lists, the orders of their     *)
(* positions, folds over finite sets and sums.                             *)
(***************************************************************************)
EXTENDS Lists, SequencesExt, SequenceTheorems, FiniteSetTheorems, TLAPS

-----------------------------------------------------------------------------
(* Sequences of whatever they hold.                                        *)

\* A function whose domain counts from 1 is a sequence, and has that length.
LEMMA Counted ==
    ASSUME NEW n \in Nat, NEW f, f = [i \in 1..n |-> f[i]]
    PROVE  IsSequence(f) /\ Len(f) = n /\ DOMAIN f = 1..n
<1>1. DOMAIN f = 1..n OBVIOUS
<1>2. f \in [1..n -> {f[i] : i \in DOMAIN f}] BY <1>1
<1>3. f \in Seq({f[i] : i \in DOMAIN f}) BY <1>2, SeqDef
<1>. QED BY <1>1, <1>2, <1>3, LenProperties DEF IsSequence

LEMMA Shaped ==
    ASSUME NEW s, IsSequence(s)
    PROVE  Len(s) \in Nat /\ DOMAIN s = 1..Len(s) /\ s = [i \in 1..Len(s) |-> s[i]]
BY LenProperties DEF IsSequence

LEMMA Appended ==
    ASSUME NEW s, NEW e, IsSequence(s)
    PROVE  /\ IsSequence(Append(s, e)) /\ Len(Append(s, e)) = Len(s) + 1
           /\ DOMAIN Append(s, e) = 1..(Len(s) + 1)
           /\ \A i \in 1..Len(s) : Append(s, e)[i] = s[i]
           /\ Append(s, e)[Len(s) + 1] = e
<1> DEFINE S == {s[i] : i \in DOMAIN s} \cup {e}
           t == Append(s, e)
<1>1. s \in Seq(S) /\ e \in S
  <2>1. s \in [1..Len(s) -> S] BY Shaped
  <2>2. Len(s) \in Nat BY Shaped
  <2>. QED BY <2>1, <2>2, SeqDef
<1>2. /\ t \in Seq(S) /\ Len(t) = Len(s) + 1
      /\ \A i \in 1..Len(s) : t[i] = s[i] /\ t[Len(s) + 1] = e
  BY <1>1, AppendProperties
<1>2a. t[Len(s) + 1] = e BY <1>1, AppendProperties
<1>3. Len(s) + 1 \in Nat BY Shaped
<1>4. t = [i \in 1..(Len(s) + 1) |-> t[i]] BY <1>2, LenProperties
<1>. QED BY <1>2, <1>2a, <1>3, <1>4, Counted

LEMMA Replaced ==
    ASSUME NEW s, NEW i, NEW e, IsSequence(s)
    PROVE  LET t == [s EXCEPT ![i] = e]
           IN IsSequence(t) /\ Len(t) = Len(s) /\ DOMAIN t = DOMAIN s
<1> DEFINE t == [s EXCEPT ![i] = e]
<1>1. Len(s) \in Nat /\ DOMAIN s = 1..Len(s) BY Shaped
<1>2. t = [k \in 1..Len(s) |-> t[k]] BY <1>1
<1>. HIDE DEF t
<1>3. IsSequence(t) /\ Len(t) = Len(s) /\ DOMAIN t = 1..Len(s) BY <1>1, <1>2, Counted
<1>. QED BY <1>1, <1>3 DEF t

LEMMA Shortened ==
    ASSUME NEW s, IsSequence(s), s # <<>>
    PROVE  /\ Head(s) = s[1] /\ Len(s) \in Nat \ {0}
           /\ IsSequence(Tail(s)) /\ Len(Tail(s)) = Len(s) - 1
           /\ DOMAIN Tail(s) = 1..(Len(s) - 1)
           /\ \A i \in 1..(Len(s) - 1) : Tail(s)[i] = s[i + 1]
<1> DEFINE S == {s[i] : i \in DOMAIN s}
           t == Tail(s)
<1>1. s \in Seq(S)
  BY DEF IsSequence
<1>. HIDE DEF S
<1>2. /\ t \in Seq(S) /\ Len(t) = Len(s) - 1
      /\ \A i \in 1..Len(t) : t[i] = s[i + 1]
  BY <1>1, HeadTailProperties
<1>3. Len(s) \in Nat \ {0} /\ Head(s) = s[1]
  BY <1>1, EmptySeq, LenProperties
<1>4. t = [i \in 1..Len(t) |-> t[i]] /\ Len(t) \in Nat
  BY <1>2, LenProperties
<1>. HIDE DEF t
<1>5. IsSequence(t) /\ DOMAIN t = 1..Len(t)
  BY <1>4, Counted
<1>. QED
  BY <1>2, <1>3, <1>5 DEF t

-----------------------------------------------------------------------------
(* Orders and numbers.                                                     *)

\* before puts any two of the positions 1..n in one order.
IsOrder(n, before) ==
    /\ \A i \in 1..n : <<i, i>> \notin before
    /\ \A i, j \in 1..n : i # j => <<i, j>> \in before \/ <<j, i>> \in before
    /\ \A i, j, k \in 1..n : <<i, j>> \in before /\ <<j, k>> \in before => <<i, k>> \in before

\* An injection of a finite set into itself reaches everything.
LEMMA InjectionsPermute ==
    ASSUME NEW n \in Nat, NEW f \in [1..n -> 1..n], \A i, j \in 1..n : f[i] = f[j] => i = j
    PROVE  \A k \in 1..n : \E i \in 1..n : f[i] = k
<1>1. IsFiniteSet(1..n)
  BY FS_Interval
<1>2. f \in Injection(1..n, 1..n)
  BY DEF Injection, IsInjective
<1>3. f \in Surjection(1..n, 1..n)
  BY <1>1, <1>2, FS_Injection
<1>. QED
  BY <1>3 DEF Surjection

\* Positions can be listed in order: each at the number of those before it.
LEMMA OrderingExists ==
    ASSUME NEW n \in Nat, NEW before, IsOrder(n, before)
    PROVE  \E order \in [1..n -> 1..n] : \A i, j \in 1..n : i < j => <<order[i], order[j]>> \in before
<1> DEFINE Below(x) == {y \in 1..n : <<y, x>> \in before}
           rank == [x \in 1..n |-> Cardinality(Below(x)) + 1]
<1>1. IsFiniteSet(1..n) /\ Cardinality(1..n) = n
  BY FS_Interval
<1>2. ASSUME NEW x \in 1..n
      PROVE  IsFiniteSet(Below(x)) /\ Cardinality(Below(x)) \in Nat /\ Cardinality(Below(x)) < n
  <2>1. x \notin Below(x)
    BY DEF IsOrder
  <2>2. Below(x) \in SUBSET ((1..n) \ {x})
    BY <2>1
  <2>3. IsFiniteSet((1..n) \ {x}) /\ Cardinality((1..n) \ {x}) = n - 1
    BY <1>1, FS_RemoveElement
  <2>. HIDE DEF Below
  <2>4. IsFiniteSet(Below(x)) /\ Cardinality(Below(x)) <= n - 1
    BY <2>2, <2>3, FS_Subset
  <2>. QED
    BY <2>4, FS_CardinalityType
<1>3. ASSUME NEW x \in 1..n, NEW y \in 1..n, <<x, y>> \in before
      PROVE  rank[x] < rank[y]
  <2>1. x \in Below(y) /\ x \notin Below(x) /\ Below(x) \subseteq Below(y)
    BY <1>3 DEF IsOrder
  <2>2. Below(x) \in SUBSET (Below(y) \ {x})
    BY <2>1
  <2>. HIDE DEF Below
  <2>3. IsFiniteSet(Below(y) \ {x}) /\ Cardinality(Below(y) \ {x}) = Cardinality(Below(y)) - 1
    BY <1>2, <2>1, FS_RemoveElement
  <2>4. Cardinality(Below(x)) <= Cardinality(Below(y)) - 1
    BY <2>2, <2>3, FS_Subset
  <2>. QED
    BY <1>2, <2>4
<1>4. rank \in [1..n -> 1..n]
  <2>. HIDE DEF Below
  <2>. QED
    BY <1>2
<1>. HIDE DEF rank, Below
<1>5. \A x, y \in 1..n : rank[x] = rank[y] => x = y
  <2>. SUFFICES ASSUME NEW x \in 1..n, NEW y \in 1..n, x # y PROVE rank[x] # rank[y]
    OBVIOUS
  <2>1. <<x, y>> \in before \/ <<y, x>> \in before
    BY DEF IsOrder
  <2>. QED
    BY <1>3, <1>4, <2>1
<1>6. \A k \in 1..n : \E x \in 1..n : rank[x] = k
  BY <1>4, <1>5, InjectionsPermute
<1> DEFINE order == [k \in 1..n |-> CHOOSE x \in 1..n : rank[x] = k]
<1>7. \A k \in 1..n : order[k] \in 1..n /\ rank[order[k]] = k
  BY <1>6
<1>8. order \in [1..n -> 1..n]
  BY <1>7
<1>. HIDE DEF order
<1>9. ASSUME NEW i \in 1..n, NEW j \in 1..n, i < j
      PROVE  <<order[i], order[j]>> \in before
  <2>1. order[i] \in 1..n /\ order[j] \in 1..n /\ rank[order[i]] < rank[order[j]]
    BY <1>7, <1>9
  <2>2. order[i] # order[j]
    <3>1. rank[order[i]] \in 1..n /\ rank[order[j]] \in 1..n
      BY <1>4, <2>1
    <3>2. rank[order[i]] # rank[order[j]]
      BY <2>1, <3>1
    <3>. QED
      BY <3>2
  <2>3. <<order[j], order[i]>> \notin before
    <3>1. rank[order[i]] = i /\ rank[order[j]] = j
      BY <1>7
    <3>2. <<order[j], order[i]>> \in before => rank[order[j]] < rank[order[i]]
      BY <1>3, <2>1
    <3>. QED
      BY <1>9, <3>1, <3>2
  <2>. QED
    BY <2>1, <2>2, <2>3 DEF IsOrder
<1>. QED
  BY <1>8, <1>9

\* The ordering that is chosen is one, and a permutation.
LEMMA Ordered ==
    ASSUME NEW n \in Nat, NEW before, IsOrder(n, before)
    PROVE  LET order == Ordering(n, before)
           IN /\ order \in [1..n -> 1..n]
              /\ \A i, j \in 1..n : i < j => <<order[i], order[j]>> \in before
              /\ \A i, j \in 1..n : order[i] = order[j] => i = j
              /\ \A k \in 1..n : \E i \in 1..n : order[i] = k
<1> DEFINE order == Ordering(n, before)
<1>1. order \in [1..n -> 1..n] /\ \A i, j \in 1..n : i < j => <<order[i], order[j]>> \in before
  BY OrderingExists DEF Ordering
<1>. HIDE DEF order
<1>2. \A i, j \in 1..n : order[i] = order[j] => i = j
  <2>. SUFFICES ASSUME NEW i \in 1..n, NEW j \in 1..n, i # j PROVE order[i] # order[j]
    OBVIOUS
  <2>1. <<order[i], order[j]>> \in before \/ <<order[j], order[i]>> \in before
    <3>1. i < j \/ j < i
      OBVIOUS
    <3>. QED
      BY <1>1, <3>1
  <2>. QED
    BY <1>1, <2>1 DEF IsOrder
<1>3. \A k \in 1..n : \E i \in 1..n : order[i] = k
  BY <1>1, <1>2, InjectionsPermute
<1>. QED
  BY <1>1, <1>2, <1>3 DEF order

LEMMA LesserOfTwo ==
    ASSUME NEW a \in Int, NEW b \in Int
    PROVE  Min({a, b}) = IF a <= b THEN a ELSE b
BY DEF Min

\* Some element of a set of positions is the least.
LEMMA LeastPosition ==
    ASSUME NEW n \in Nat, NEW S \in SUBSET (1..n), S # {}
    PROVE  Min(S) \in S /\ \A y \in S : Min(S) <= y
<1> DEFINE R == {p \in (1..n) \X (1..n) :
                    \/ p[1] \in S /\ p[2] \notin S
                    \/ (p[1] \in S <=> p[2] \in S) /\ p[1] < p[2]}
<1>1. IsOrder(n, R)
  BY DEF IsOrder
<1>. HIDE DEF R
<1> DEFINE order == Ordering(n, R)
<1>2. /\ order \in [1..n -> 1..n]
      /\ \A i, j \in 1..n : i < j => <<order[i], order[j]>> \in R
      /\ \A k \in 1..n : \E i \in 1..n : order[i] = k
  BY <1>1, Ordered
<1>. HIDE DEF order
<1>3. 1 \in 1..n
  <2>1. PICK x \in S : x \in 1..n
    OBVIOUS
  <2>. QED
    BY <2>1
<1>4. ASSUME NEW y \in S
      PROVE  order[1] \in S /\ order[1] <= y
  <2>1. PICK i \in 1..n : order[i] = y
    BY <1>2
  <2>2. order[1] \in 1..n /\ y \in 1..n
    BY <1>2, <1>3
  <2>3. CASE i = 1
    BY <1>4, <2>1, <2>2, <2>3
  <2>4. CASE i # 1
    <3>1. <<order[1], y>> \in R
      BY <1>2, <1>3, <2>1, <2>4
    <3>. QED
      BY <1>4, <2>2, <3>1 DEF R
  <2>. QED
    BY <2>3, <2>4
<1>. QED
  BY <1>4 DEF Min

-----------------------------------------------------------------------------
(* Finite sets, and folds over them.                                      *)

LEMMA LeastNumber ==
    ASSUME NEW S \in SUBSET Nat, S # {}
    PROVE  \E m \in S : \A x \in S : m <= x
<1>1. PICK n \in S : n \in Nat
  OBVIOUS
<1> DEFINE T == {p \in 1..(n + 1) : p - 1 \in S}
           m == Min(T)
<1>2. n + 1 \in Nat /\ T \in SUBSET (1..(n + 1)) /\ n + 1 \in T
  BY <1>1
<1>3. m \in T /\ \A p \in T : m <= p
  <2>. HIDE DEF T
  <2>. QED
    BY <1>2, LeastPosition
<1>. HIDE DEF m
<1>5. m - 1 \in S /\ m \in 1..(n + 1)
  BY <1>3
<1>6. ASSUME NEW x \in S
      PROVE  m - 1 <= x
  <2>1. CASE x <= n
    <3>1. x + 1 \in T
      BY <1>1, <2>1
    <3>. QED
      BY <1>3, <1>5, <3>1
  <2>2. CASE ~(x <= n)
    BY <1>1, <1>5, <2>2
  <2>. QED
    BY <2>1, <2>2
<1>. QED
  BY <1>5, <1>6

LEMMA GreatestPosition ==
    ASSUME NEW n \in Nat, NEW S \in SUBSET (1..n), S # {}
    PROVE  Max(S) \in S
<1> DEFINE T == {k \in Nat : n - k \in S}
<1>1. T # {}
  <2>1. PICK x \in S : x \in 1..n
    OBVIOUS
  <2>2. n - x \in Nat /\ n - (n - x) = x
    BY <2>1
  <2>. QED
    BY <2>1, <2>2
<1>2. PICK k \in T : \A x \in T : k <= x
  <2>. HIDE DEF T
  <2>1. T \in SUBSET Nat
    BY DEF T
  <2>. QED
    BY <1>1, <2>1, LeastNumber
<1>3. \A y \in S : y <= n - k
  <2>. SUFFICES ASSUME NEW y \in S PROVE y <= n - k
    OBVIOUS
  <2>1. y \in 1..n /\ n - y \in Nat /\ n - (n - y) = y
    OBVIOUS
  <2>2. n - y \in T
    BY <2>1
  <2>3. k <= n - y /\ k \in Nat
    BY <1>2, <2>2
  <2>. QED
    BY <2>1, <2>3
<1>4. n - k \in S
  OBVIOUS
<1>. QED
  BY <1>3, <1>4 DEF Max

\* Induction over the subsets of a finite set: a smallest one is not its own
\* counterexample.
LEMMA SmallestSet ==
    ASSUME NEW S, IsFiniteSet(S), NEW C \in SUBSET (SUBSET S), C # {}
    PROVE  \E s \in C : \A x \in s : s \ {x} \notin C
<1> DEFINE sizes == {Cardinality(s) : s \in C}
<1>1. \A s \in SUBSET S : IsFiniteSet(s) /\ Cardinality(s) \in Nat
  BY FS_Subset, FS_CardinalityType
<1>2. sizes \in SUBSET Nat /\ sizes # {}
  BY <1>1
<1>3. PICK m \in sizes : \A x \in sizes : m <= x
  <2>. HIDE DEF sizes
  <2>. QED
    BY <1>2, LeastNumber
<1>4. PICK s \in C : Cardinality(s) = m
  OBVIOUS
<1>5. ASSUME NEW x \in s
      PROVE  s \ {x} \notin C
  <2>1. IsFiniteSet(s) /\ Cardinality(s) \in Nat
    BY <1>1
  <2>2. Cardinality(s \ {x}) = Cardinality(s) - 1
    BY <1>5, <2>1, FS_RemoveElement
  <2>3. s \ {x} \in C => m <= Cardinality(s \ {x})
    BY <1>3
  <2>. QED
    BY <1>4, <2>1, <2>2, <2>3
<1>. QED
  BY <1>5

\* A function over subsets that stays in B when an element is added has its values there.
LEMMA FoldStays ==
    ASSUME NEW S, IsFiniteSet(S), NEW B, NEW it, it[{}] \in B,
           \A s \in SUBSET S : s # {} => \E x \in s : it[s \ {x}] \in B => it[s] \in B
    PROVE  \A s \in SUBSET S : it[s] \in B
<1> DEFINE C == {s \in SUBSET S : it[s] \notin B}
<1>. SUFFICES ASSUME C # {} PROVE FALSE
  OBVIOUS
<1>1. C \in SUBSET (SUBSET S)
  OBVIOUS
<1>2. PICK s \in C : \A x \in s : s \ {x} \notin C
  <2>. HIDE DEF C
  <2>. QED
    BY <1>1, SmallestSet
<1>3. s \in SUBSET S /\ s # {}
  OBVIOUS
<1>4. \A x \in s : it[s \ {x}] \in B
  BY <1>2, <1>3
<1>. QED
  BY <1>3, <1>4

\* Adding the elements of a finite set one by one, in the order of pick, is a
\* function of its subsets.
Folded(S, base, pick, step, it) ==
    it = [s \in SUBSET S |-> IF s = {} THEN base ELSE step[<<pick[s], it[s \ {pick[s]}]>>]]

LEMMA FoldExists ==
    ASSUME NEW S, IsFiniteSet(S), NEW B, NEW base \in B,
           NEW pick, \A s \in SUBSET S : s # {} => pick[s] \in s,
           NEW step, \A x \in S, b \in B : step[<<x, b>>] \in B
    PROVE  \E it \in [SUBSET S -> B] : Folded(S, base, pick, step, it)
<1> DEFINE next(g) == [s \in SUBSET S |-> IF s = {} THEN base ELSE step[<<pick[s], g[s \ {pick[s]}]>>]]
           UpTo(k) == \E g \in [SUBSET S -> B] : \A s \in SUBSET S : Cardinality(s) <= k => g[s] = next(g)[s]
<1>1. \A s \in SUBSET S : IsFiniteSet(s) /\ Cardinality(s) \in Nat /\ Cardinality(s) <= Cardinality(S)
  BY FS_Subset, FS_CardinalityType
<1>2. Cardinality(S) \in Nat
  BY FS_CardinalityType
<1>3. ASSUME NEW g \in [SUBSET S -> B]
      PROVE  next(g) \in [SUBSET S -> B]
  OBVIOUS
<1>4. \A s \in SUBSET S : s # {} => /\ pick[s] \in s /\ s \ {pick[s]} \in SUBSET S
                                    /\ Cardinality(s \ {pick[s]}) = Cardinality(s) - 1
  BY <1>1, FS_RemoveElement
<1>5. ASSUME NEW g \in [SUBSET S -> B], NEW k \in Nat,
             \A s \in SUBSET S : Cardinality(s) <= k => g[s] = next(g)[s]
      PROVE  \A s \in SUBSET S : Cardinality(s) <= k + 1 => next(g)[s] = next(next(g))[s]
  <2>. SUFFICES ASSUME NEW s \in SUBSET S, Cardinality(s) <= k + 1 PROVE next(g)[s] = next(next(g))[s]
    OBVIOUS
  <2>1. CASE s = {}
    BY <2>1
  <2>2. CASE s # {}
    <3> DEFINE t == s \ {pick[s]}
    <3>1. t \in SUBSET S /\ Cardinality(t) <= k
      BY <1>1, <1>4, <2>2
    <3>2. g[t] = next(g)[t]
      BY <1>5, <3>1
    <3>3. next(g)[s] = step[<<pick[s], g[t]>>] /\ next(next(g))[s] = step[<<pick[s], next(g)[t]>>]
      BY <2>2
    <3>. QED
      BY <3>2, <3>3
  <2>. QED
    BY <2>1, <2>2
<1>6. \A k \in Nat : UpTo(k) => UpTo(k + 1)
  <2>. SUFFICES ASSUME NEW k \in Nat, UpTo(k) PROVE UpTo(k + 1)
    OBVIOUS
  <2>1. PICK g \in [SUBSET S -> B] : \A s \in SUBSET S : Cardinality(s) <= k => g[s] = next(g)[s]
    OBVIOUS
  <2>. HIDE DEF next
  <2>. QED
    BY <1>3, <1>5, <2>1
<1>7. UpTo(0)
  <2> DEFINE g == [s \in SUBSET S |-> base]
  <2>1. g \in [SUBSET S -> B]
    OBVIOUS
  <2>2. \A s \in SUBSET S : Cardinality(s) <= 0 => s = {}
    BY <1>1, FS_EmptySet
  <2>3. \A s \in SUBSET S : s = {} => g[s] = next(g)[s]
    OBVIOUS
  <2>. HIDE DEF g, next
  <2>. QED
    BY <2>1, <2>2, <2>3
<1>. HIDE DEF UpTo
<1>8. \A k \in Nat : UpTo(k)
  <2> DEFINE Bad == {k \in Nat : ~UpTo(k)}
  <2>. SUFFICES ASSUME Bad # {} PROVE FALSE
    OBVIOUS
  <2>1. Bad \in SUBSET Nat
    OBVIOUS
  <2>2. PICK k \in Bad : \A x \in Bad : k <= x
    <3>. HIDE DEF Bad
    <3>. QED
      BY <2>1, LeastNumber
  <2>3. k # 0 /\ k \in Nat /\ ~UpTo(k)
    BY <1>7
  <2>4. k - 1 \in Nat /\ (k - 1) + 1 = k /\ ~(k <= k - 1)
    BY <2>3
  <2>5. UpTo(k - 1)
    BY <2>2, <2>4
  <2>6. UpTo((k - 1) + 1)
    BY <1>6, <2>4, <2>5
  <2>. QED
    BY <2>3, <2>4, <2>6
<1>9. PICK g \in [SUBSET S -> B] : \A s \in SUBSET S : Cardinality(s) <= Cardinality(S) => g[s] = next(g)[s]
  BY <1>2, <1>8 DEF UpTo
<1>10. \A s \in SUBSET S : g[s] = next(g)[s]
  BY <1>1, <1>9
<1>11. g = next(g)
  BY <1>10
<1>. QED
  BY <1>11 DEF Folded

\* Going through a list, its last position last.
InTurn(n, base, step, it) ==
    it = [s \in SUBSET (1..n) |-> IF s = {} THEN base ELSE step[<<Max(s), it[s \ {Max(s)}]>>]]

LEMMA ListFolds ==
    ASSUME NEW n \in Nat, NEW B, NEW base \in B,
           NEW step, \A x \in 1..n, b \in B : step[<<x, b>>] \in B
    PROVE  \E it \in [SUBSET (1..n) -> B] : InTurn(n, base, step, it)
<1> DEFINE pick == [s \in SUBSET (1..n) |-> Max(s)]
<1>1. \A s \in SUBSET (1..n) : s # {} => pick[s] \in s
  BY GreatestPosition
<1>2. IsFiniteSet(1..n)
  BY FS_Interval
<1>3. PICK it \in [SUBSET (1..n) -> B] : Folded(1..n, base, pick, step, it)
  <2>. HIDE DEF pick
  <2>. QED
    BY <1>1, <1>2, FoldExists
<1>. QED
  BY <1>3 DEF Folded, InTurn

\* What every step keeps in B ends in B.
LEMMA ListFoldStays ==
    ASSUME NEW n \in Nat, NEW B, NEW it, it[{}] \in B,
           \A s \in SUBSET (1..n) : s # {} /\ it[s \ {Max(s)}] \in B => it[s] \in B
    PROVE  it[1..n] \in B
<1>1. IsFiniteSet(1..n)
  BY FS_Interval
<1>2. ASSUME NEW s \in SUBSET (1..n), s # {}
      PROVE  \E x \in s : it[s \ {x}] \in B => it[s] \in B
  <2>1. Max(s) \in s
    BY <1>2, GreatestPosition
  <2>2. it[s \ {Max(s)}] \in B => it[s] \in B
    BY <1>2
  <2>. HIDE DEF Max
  <2>. QED
    BY <2>1, <2>2
<1>3. \A s \in SUBSET (1..n) : s # {} => \E x \in s : it[s \ {x}] \in B => it[s] \in B
  BY <1>2
<1>4. \A s \in SUBSET (1..n) : it[s] \in B
  BY <1>1, <1>3, FoldStays
<1>. QED
  BY <1>4

-----------------------------------------------------------------------------
(* Sums.                                                                   *)

\* How the sum of the values at T adds them up, one by one.
AddsUp(f, S, it) ==
    it = [s \in SUBSET S |-> IF s = {} THEN 0
                             ELSE f[CHOOSE x \in s : TRUE] + it[s \ {CHOOSE x \in s : TRUE}]]

LEMMA SumAddsUp ==
    ASSUME NEW S, NEW f, \E it : AddsUp(f, S, it)
    PROVE  \E it : AddsUp(f, S, it) /\ SumFunctionOnSet(f, S) = it[S]
<1> DEFINE it == CHOOSE it : AddsUp(f, S, it)
<1>1. AddsUp(f, S, it)
  BY Zenon
<1>2. SumFunctionOnSet(f, S) = it[S]
  BY Zenon DEF SumFunctionOnSet, FoldFunctionOnSet, MapThenFoldSet, AddsUp
<1>. HIDE DEF it
<1>. QED
  BY <1>1, <1>2

LEMMA AddingUpAgrees ==
    ASSUME NEW S, NEW T \in SUBSET S, IsFiniteSet(T), NEW f,
           NEW it, AddsUp(f, S, it), NEW jt, AddsUp(f, T, jt)
    PROVE  \A s \in SUBSET T : it[s] = jt[s]
<1> DEFINE C == {s \in SUBSET T : it[s] # jt[s]}
<1>. SUFFICES ASSUME C # {} PROVE FALSE
  OBVIOUS
<1>1. C \in SUBSET (SUBSET T)
  OBVIOUS
<1>2. PICK s \in C : \A x \in s : s \ {x} \notin C
  <2>. HIDE DEF C
  <2>. QED
    BY <1>1, SmallestSet
<1>3. s \in SUBSET T /\ s \in SUBSET S /\ it[s] # jt[s]
  OBVIOUS
<1>4. CASE s = {}
  BY <1>3, <1>4 DEF AddsUp
<1>5. CASE s # {}
  <2> DEFINE p == CHOOSE x \in s : TRUE
  <2>1. p \in s
    BY <1>5
  <2>2. it[s] = f[p] + it[s \ {p}] /\ jt[s] = f[p] + jt[s \ {p}]
    BY <1>3, <1>5 DEF AddsUp
  <2>3. it[s \ {p}] = jt[s \ {p}]
    BY <1>2, <1>3, <2>1
  <2>. QED
    BY <1>3, <2>2, <2>3
<1>. QED
  BY <1>4, <1>5

\* The sum over a finite set is what adding one by one comes to.
LEMMA SumIs ==
    ASSUME NEW S, IsFiniteSet(S), NEW f, \A x \in S : f[x] \in Int
    PROVE  \E it \in [SUBSET S -> Int] : AddsUp(f, S, it) /\ SumFunctionOnSet(f, S) = it[S]
<1> DEFINE pick == [s \in SUBSET S |-> CHOOSE x \in s : TRUE]
           step == [p \in S \X Int |-> f[p[1]] + p[2]]
<1>1. \A s \in SUBSET S : s # {} => pick[s] \in s
  OBVIOUS
<1>2. \A x \in S, b \in Int : step[<<x, b>>] = f[x] + b /\ step[<<x, b>>] \in Int
  OBVIOUS
<1>3. 0 \in Int
  OBVIOUS
<1>4. PICK it \in [SUBSET S -> Int] : Folded(S, 0, pick, step, it)
  <2>. HIDE DEF pick, step
  <2>. QED
    BY <1>1, <1>2, <1>3, FoldExists
<1>5. \A s \in SUBSET S : s # {} => step[<<pick[s], it[s \ {pick[s]}]>>] = f[pick[s]] + it[s \ {pick[s]}]
  <2>. HIDE DEF pick, step
  <2>. QED
    BY <1>1, <1>2
<1>6. AddsUp(f, S, it)
  <2>1. it = [s \in SUBSET S |-> IF s = {} THEN 0 ELSE f[pick[s]] + it[s \ {pick[s]}]]
    <3>. HIDE DEF pick, step
    <3>. QED
      BY <1>4, <1>5 DEF Folded
  <2>. QED
    BY <2>1 DEF AddsUp
<1>7. PICK jt : AddsUp(f, S, jt) /\ SumFunctionOnSet(f, S) = jt[S]
  BY <1>6, SumAddsUp
<1>8. jt[S] = it[S]
  BY <1>6, <1>7, AddingUpAgrees
<1>. QED
  BY <1>6, <1>7, <1>8

LEMMA SumOfNone == \A f : SumFunctionOnSet(f, {}) = 0
<1>. SUFFICES ASSUME NEW f PROVE SumFunctionOnSet(f, {}) = 0
  OBVIOUS
<1>1. IsFiniteSet({})
  BY FS_EmptySet
<1>2. PICK it \in [SUBSET {} -> Int] : AddsUp(f, {}, it) /\ SumFunctionOnSet(f, {}) = it[{}]
  BY <1>1, SumIs
<1>. QED
  BY <1>2 DEF AddsUp

\* Any element can be the last one to be added.
LEMMA SumWith ==
    ASSUME NEW S, IsFiniteSet(S), NEW f, \A x \in S : f[x] \in Int, NEW x \in S
    PROVE  SumFunctionOnSet(f, S) = f[x] + SumFunctionOnSet(f, S \ {x})
<1>1. PICK it \in [SUBSET S -> Int] : AddsUp(f, S, it) /\ SumFunctionOnSet(f, S) = it[S]
  BY SumIs
<1>2. \A s \in SUBSET S : s # {} => LET p == CHOOSE y \in s : TRUE
                                    IN p \in s /\ it[s] = f[p] + it[s \ {p}]
  BY <1>1 DEF AddsUp
<1>3. \A s \in SUBSET S : \A y \in s : it[s] = f[y] + it[s \ {y}]
  <2> DEFINE C == {s \in SUBSET S : ~\A y \in s : it[s] = f[y] + it[s \ {y}]}
  <2>. SUFFICES ASSUME C # {} PROVE FALSE
    OBVIOUS
  <2>1. C \in SUBSET (SUBSET S)
    OBVIOUS
  <2>2. PICK s \in C : \A y \in s : s \ {y} \notin C
    <3>. HIDE DEF C
    <3>. QED
      BY <2>1, SmallestSet
  <2>3. PICK y \in s : it[s] # f[y] + it[s \ {y}]
    OBVIOUS
  <2>4. s \in SUBSET S /\ s # {}
    BY <2>3
  <2>5. PICK p \in s : it[s] = f[p] + it[s \ {p}]
    BY <1>2, <2>4
  <2>6. p # y
    BY <2>3, <2>5
  <2>7. s \ {p} \in SUBSET S /\ s \ {y} \in SUBSET S /\ y \in s \ {p} /\ p \in s \ {y}
        /\ s \ {p} \notin C /\ s \ {y} \notin C /\ (s \ {p}) \ {y} = (s \ {y}) \ {p}
    BY <2>2, <2>4, <2>6
  <2>8. /\ it[s \ {p}] = f[y] + it[(s \ {p}) \ {y}]
        /\ it[s \ {y}] = f[p] + it[(s \ {y}) \ {p}]
    BY <2>7
  <2>9. f[y] \in Int /\ f[p] \in Int
    BY <2>4
  <2>10. PICK rest \in Int : rest = it[(s \ {p}) \ {y}] /\ rest = it[(s \ {y}) \ {p}]
    BY <2>4, <2>7
  <2>11. it[s] = f[p] + (f[y] + rest) /\ it[s \ {y}] = f[p] + rest
    BY <2>5, <2>8, <2>10
  <2>. HIDE DEF C
  <2>. QED
    BY <2>3, <2>9, <2>11
<1> DEFINE T == S \ {x}
<1>4. IsFiniteSet(T) /\ T \in SUBSET S /\ \A y \in T : f[y] \in Int
  BY FS_Subset
<1>. HIDE DEF T
<1>5. PICK jt \in [SUBSET T -> Int] : AddsUp(f, T, jt) /\ SumFunctionOnSet(f, T) = jt[T]
  BY <1>4, SumIs
<1>6. it[T] = jt[T]
  BY <1>1, <1>4, <1>5, AddingUpAgrees
<1>. QED
  BY <1>1, <1>3, <1>5, <1>6 DEF T

LEMMA SumsAreIntegers ==
    ASSUME NEW S, IsFiniteSet(S), NEW f, \A x \in S : f[x] \in Int
    PROVE  SumFunctionOnSet(f, S) \in Int
<1>1. PICK it \in [SUBSET S -> Int] : SumFunctionOnSet(f, S) = it[S]
  BY SumIs
<1>. QED
  BY <1>1

\* What values have one by one, their sums have, if it is kept by adding.
LEMMA SumsAreAtLeast ==
    ASSUME NEW S, IsFiniteSet(S), NEW f, NEW g, \A x \in S : f[x] \in Int /\ g[x] \in Int /\ f[x] <= g[x]
    PROVE  SumFunctionOnSet(f, S) <= SumFunctionOnSet(g, S)
<1> DEFINE F(s) == SumFunctionOnSet(f, s)
           G(s) == SumFunctionOnSet(g, s)
           C == {s \in SUBSET S : ~(F(s) <= G(s))}
<1>1. \A s \in SUBSET S : IsFiniteSet(s) /\ F(s) \in Int /\ G(s) \in Int
  <2>. SUFFICES ASSUME NEW s \in SUBSET S PROVE IsFiniteSet(s) /\ F(s) \in Int /\ G(s) \in Int
    OBVIOUS
  <2>1. IsFiniteSet(s)
    BY FS_Subset
  <2>. QED
    BY <2>1, SumsAreIntegers
<1>2. \A s \in SUBSET S : \A x \in s : F(s) = f[x] + F(s \ {x}) /\ G(s) = g[x] + G(s \ {x})
  <2>. SUFFICES ASSUME NEW s \in SUBSET S, NEW x \in s PROVE F(s) = f[x] + F(s \ {x}) /\ G(s) = g[x] + G(s \ {x})
    OBVIOUS
  <2>1. IsFiniteSet(s) /\ \A y \in s : f[y] \in Int /\ g[y] \in Int
    BY FS_Subset
  <2>. QED
    BY <2>1, SumWith
<1>3. F({}) = 0 /\ G({}) = 0
  BY SumOfNone
<1>. HIDE DEF F, G
<1>4. C = {}
  <2>. SUFFICES ASSUME C # {} PROVE FALSE
    OBVIOUS
  <2>1. C \in SUBSET (SUBSET S)
    OBVIOUS
  <2>2. PICK s \in C : \A y \in s : s \ {y} \notin C
    <3>. HIDE DEF C
    <3>. QED
      BY <2>1, SmallestSet
  <2>3. s # {}
    BY <1>3
  <2>4. PICK x \in s : TRUE
    BY <2>3
  <2>5. s \in SUBSET S /\ s \ {x} \in SUBSET S /\ F(s \ {x}) <= G(s \ {x})
    BY <2>2, <2>4
  <2>6. f[x] + F(s \ {x}) <= g[x] + G(s \ {x})
    BY <1>1, <2>4, <2>5
  <2>. QED
    BY <1>2, <2>4, <2>5, <2>6
<1>. QED
  BY <1>4 DEF F, G

LEMMA SumsAreNatural ==
    ASSUME NEW S, IsFiniteSet(S), NEW f, \A x \in S : f[x] \in Nat
    PROVE  SumFunctionOnSet(f, S) \in Nat
<1> DEFINE F(s) == SumFunctionOnSet(f, s)
           C == {s \in SUBSET S : F(s) \notin Nat}
<1>1. \A x \in S : f[x] \in Int
  OBVIOUS
<1>2. \A s \in SUBSET S : \A x \in s : F(s) = f[x] + F(s \ {x})
  <2>. SUFFICES ASSUME NEW s \in SUBSET S, NEW x \in s PROVE F(s) = f[x] + F(s \ {x})
    OBVIOUS
  <2>1. IsFiniteSet(s) /\ \A y \in s : f[y] \in Int
    BY <1>1, FS_Subset
  <2>. QED
    BY <2>1, SumWith
<1>3. F({}) = 0
  BY SumOfNone
<1>. HIDE DEF F
<1>4. C = {}
  <2>. SUFFICES ASSUME C # {} PROVE FALSE
    OBVIOUS
  <2>1. C \in SUBSET (SUBSET S)
    OBVIOUS
  <2>2. PICK s \in C : \A y \in s : s \ {y} \notin C
    <3>. HIDE DEF C
    <3>. QED
      BY <2>1, SmallestSet
  <2>3. s # {}
    <3>1. F(s) \notin Nat /\ 0 \in Nat
      OBVIOUS
    <3>. QED
      BY <1>3, <3>1
  <2>4. PICK x \in s : TRUE
    BY <2>3
  <2>5. s \in SUBSET S /\ s \ {x} \in SUBSET S /\ F(s \ {x}) \in Nat /\ f[x] \in Nat
    BY <2>2, <2>4
  <2>. QED
    BY <1>2, <2>4, <2>5
<1>. QED
  BY <1>4 DEF F

\* A part of what is not negative sums to no more than the whole.
LEMMA PartsSumToLess ==
    ASSUME NEW S, IsFiniteSet(S), NEW f, \A x \in S : f[x] \in Nat, NEW T \in SUBSET S
    PROVE  SumFunctionOnSet(f, T) <= SumFunctionOnSet(f, S)
<1> DEFINE F(s) == SumFunctionOnSet(f, s)
           C == {s \in SUBSET S : T \subseteq s /\ ~(F(T) <= F(s))}
<1>1. \A s \in SUBSET S : F(s) \in Nat
  <2>. SUFFICES ASSUME NEW s \in SUBSET S PROVE F(s) \in Nat
    OBVIOUS
  <2>1. IsFiniteSet(s) /\ \A y \in s : f[y] \in Nat
    BY FS_Subset
  <2>. QED
    BY <2>1, SumsAreNatural
<1>2. \A s \in SUBSET S : \A x \in s : F(s) = f[x] + F(s \ {x})
  <2>. SUFFICES ASSUME NEW s \in SUBSET S, NEW x \in s PROVE F(s) = f[x] + F(s \ {x})
    OBVIOUS
  <2>1. IsFiniteSet(s) /\ \A y \in s : f[y] \in Int
    BY FS_Subset
  <2>. QED
    BY <2>1, SumWith
<1>. HIDE DEF F
<1>3. C = {}
  <2>. SUFFICES ASSUME C # {} PROVE FALSE
    OBVIOUS
  <2>1. C \in SUBSET (SUBSET S)
    OBVIOUS
  <2>2. PICK s \in C : \A y \in s : s \ {y} \notin C
    <3>. HIDE DEF C
    <3>. QED
      BY <2>1, SmallestSet
  <2>3. s \in SUBSET S /\ T \subseteq s /\ ~(F(T) <= F(s))
    OBVIOUS
  <2>4. T # s
    BY <1>1, <2>3
  <2>5. PICK x \in s : x \notin T
    BY <2>3, <2>4
  <2>6. s \ {x} \in SUBSET S /\ T \subseteq s \ {x}
    BY <2>3, <2>5
  <2>7. F(T) <= F(s \ {x})
    BY <2>2, <2>5, <2>6
  <2>8. F(T) \in Nat /\ F(s) \in Nat /\ F(s \ {x}) \in Nat /\ f[x] \in Nat
    BY <1>1, <2>3, <2>6
  <2>9. F(s) = f[x] + F(s \ {x})
    BY <1>2, <2>3
  <2>. HIDE DEF C
  <2>. QED
    BY <2>3, <2>7, <2>8, <2>9
<1>. QED
  BY <1>1, <1>3 DEF F
=============================================================================
