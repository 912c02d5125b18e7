--------------------------- MODULE Ranking_proofs ----------------------------
(***************************************************************************)
(* For any candidates, criteria, members and cut: exclusions have          *)
(* evidence, equal profiles get equal answers, the majority decides the    *)
(* side of the cutoff and nobody is lost.                                  *)
(***************************************************************************)
EXTENDS Ranking, Lists_proofs

-----------------------------------------------------------------------------
(* Scores are numbers, whatever marks the model gives.                     *)

LEMMA PointsAreNumbers ==
    ASSUME NEW value, NEW mark \in Int
    PROVE  Points(value, mark) \in Int
<1> DEFINE floored == Max({0, mark})
<1>1. floored \in Int
  <2>1. \E x \in {0, mark} : \A y \in {0, mark} : x >= y
    <3>1. CASE mark >= 0
      BY <3>1
    <3>2. CASE ~(mark >= 0)
      BY <3>2
    <3>. QED
      BY <3>1, <3>2
  <2>2. floored \in {0, mark}
    BY <2>1 DEF Max
  <2>. HIDE DEF floored
  <2>. QED
    BY <2>2
<1>. HIDE DEF floored
<1>2. Min({10000, floored}) \in Int
  BY <1>1, LesserOfTwo
<1>. QED
  BY <1>2 DEF Points, floored

LEMMA WeightsSum == TotalWeight \in Nat \ {0}
<1> DEFINE S == DOMAIN Criteria
           weight == [k \in S |-> Criteria[k].weight]
<1>1. S = 1..Len(Criteria) /\ Len(Criteria) \in Nat \ {0} /\ \A k \in S : weight[k] \in Nat \ {0}
  BY RankingAssumption, Shaped, Shortened
<1>2. IsFiniteSet(S) /\ 1 \in S
  BY <1>1, FS_Interval
<1>3. TotalWeight = SumFunctionOnSet(weight, S)
  BY DEF TotalWeight, SumFunction
<1>. HIDE DEF S, weight
<1>4. SumFunctionOnSet(weight, S) = weight[1] + SumFunctionOnSet(weight, S \ {1})
  <2>1. \A k \in S : weight[k] \in Int
    BY <1>1
  <2>. QED
    BY <1>2, <2>1, SumWith
<1>5. SumFunctionOnSet(weight, S \ {1}) \in Nat
  <2>1. IsFiniteSet(S \ {1}) /\ \A k \in S \ {1} : weight[k] \in Nat
    BY <1>1, <1>2, FS_Subset
  <2>. QED
    BY <2>1, SumsAreNatural
<1>. QED
  BY <1>1, <1>2, <1>3, <1>4, <1>5

LEMMA ScoresAreNumbers == \A c, answer : Scores(c, answer) \subseteq Int
<1>. SUFFICES ASSUME NEW c, NEW answer, NEW score \in Scores(c, answer) PROVE score \in Int
  OBVIOUS
<1>0. PICK given \in [Undecided(c, answer) -> Marks] :
         score = Score(c, answer, [k \in DOMAIN Criteria |-> IF k \in DOMAIN given THEN given[k] ELSE 0])
  BY Zenon DEF Scores
<1> DEFINE S == DOMAIN Criteria
           marks == [k \in S |-> IF k \in DOMAIN given THEN given[k] ELSE 0]
           points == [k \in S |-> Criteria[k].weight * Points(VerdictOn(k, c, answer), marks[k])]
<1>1. \A k \in S : marks[k] \in Int
  <2>1. \A k \in DOMAIN given : given[k] \in Int
    BY RankingAssumption
  <2>. QED
    BY <2>1
<1>2. IsFiniteSet(S)
  <2>1. S = 1..Len(Criteria) /\ Len(Criteria) \in Nat
    BY RankingAssumption, Shaped
  <2>. QED
    BY <2>1, FS_Interval
<1>. HIDE DEF marks
<1>3. \A k \in S : points[k] \in Int
  <2>. SUFFICES ASSUME NEW k \in S PROVE points[k] \in Int
    OBVIOUS
  <2>1. Points(VerdictOn(k, c, answer), marks[k]) \in Int
    BY <1>1, PointsAreNumbers
  <2>2. Criteria[k].weight \in Int
    BY RankingAssumption
  <2>. QED
    BY <2>1, <2>2
<1>4. SumFunction(points) = SumFunctionOnSet(points, S)
  BY DEF SumFunction
<1>5. Score(c, answer, marks) = Rounded(SumFunction(points), TotalWeight)
  BY DEF Score
<1>. HIDE DEF points, S
<1>6. SumFunction(points) \in Int
  BY <1>2, <1>3, <1>4, SumsAreIntegers
<1>7. \A a \in Int, b \in Nat \ {0} : Rounded(a, b) \in Int
  BY DEF Rounded
<1>. QED
  BY <1>0, <1>5, <1>6, <1>7, WeightsSum DEF marks, S

-----------------------------------------------------------------------------
(* Votes.                                                                  *)

LEMMA VerdictsAreKnown == \A votes : Combine(votes) \in {"true", "false", "unknown"}
BY DEF Combine

\* An answer is a verdict, never the mark of none.
LEMMA AnswersAreVerdicts == Answers \subseteq {"true", "false", "unknown"}
BY VerdictsAreKnown DEF Answers, Judgement

\* A candidate that members' replies exclude is excluded by more than half of those
\* that arrived, with evidence.
LEMMA ExcludedWithEvidence ==
    ASSUME NEW replies \in [1..Members -> Replies \cup {NoReply}], Judgement(replies) = "false"
    PROVE  LET arrived == {m \in 1..Members : replies[m] # NoReply}
               backed  == {m \in arrived : replies[m] = [answer |-> "no", quoted |-> TRUE]}
           IN 2 * Cardinality(backed) > Cardinality(arrived)
<1> DEFINE votes == [m \in 1..Members |-> Vote(replies[m])]
           missing == {m \in 1..Members : votes[m] = "error"}
           against == {m \in 1..Members : votes[m] = "no"}
           arrived == {m \in 1..Members : replies[m] # NoReply}
           backed  == {m \in arrived : replies[m] = [answer |-> "no", quoted |-> TRUE]}
<1>1. Members \in Nat /\ IsFiniteSet(1..Members)
  BY RankingAssumption, FS_Interval
<1>2. \A reply \in Replies \cup {NoReply} :
         /\ Vote(reply) = "error" <=> reply = NoReply
         /\ Vote(reply) = "no" <=> reply = [answer |-> "no", quoted |-> TRUE]
  BY DEF Replies, NoReply, Vote
<1>3. against = backed /\ arrived = (1..Members) \ missing /\ missing \subseteq 1..Members
  BY <1>2 DEF NoReply
<1>4. Votes(votes, "no") * 2 > Cardinality(1..Members) - Votes(votes, "error")
  <2>1. Combine(votes) = "false" /\ DOMAIN votes = 1..Members
    BY DEF Judgement
  <2>. HIDE DEF votes
  <2>. QED
    BY <2>1 DEF Combine
<1>5. Votes(votes, "no") = Cardinality(against) /\ Votes(votes, "error") = Cardinality(missing)
  BY DEF Votes
<1>. HIDE DEF votes, missing, against, arrived, backed
<1>6. Cardinality(arrived) = Cardinality(1..Members) - Cardinality(missing)
  <2>1. (1..Members) \cap missing = missing
    BY <1>3
  <2>2. Cardinality((1..Members) \ missing)
          = Cardinality(1..Members) - Cardinality((1..Members) \cap missing)
    BY <1>1, FS_Difference
  <2>. QED
    BY <1>3, <2>1, <2>2
<1>7. IsFiniteSet(backed) /\ Cardinality(backed) \in Nat
  <2>1. backed \subseteq 1..Members
    BY DEF backed, arrived
  <2>. QED
    BY <1>1, <2>1, FS_Subset, FS_CardinalityType
<1>8. 2 * Cardinality(backed) > Cardinality(arrived)
  BY <1>3, <1>4, <1>5, <1>6, <1>7
<1>. QED
  BY <1>8 DEF arrived, backed

\* Positions that go to different members of a finite set are no more than these.
LEMMA NoMorePositions ==
    ASSUME NEW a \in Int, NEW b \in Int, NEW S, IsFiniteSet(S), NEW f,
           \A i \in a..b : f[i] \in S, \A i, j \in a..b : f[i] = f[j] => i = j
    PROVE  Cardinality(a..b) <= Cardinality(S)
<1> DEFINE g == [i \in a..b |-> f[i]]
<1>1. g \in Injection(a..b, S)
  BY DEF Injection, IsInjective
<1>. QED
  BY <1>1, FS_Injection

LEMMA VotesInOrder ==
    ASSUME NEW n \in Nat, NEW votes \in [1..n -> Int]
    PROVE  LET order == Ordering(n, Less(votes))
           IN /\ order \in [1..n -> 1..n]
              /\ \A i, j \in 1..n : order[i] = order[j] => i = j
              /\ \A i, j \in 1..n : i < j => votes[order[i]] <= votes[order[j]]
<1> DEFINE order == Ordering(n, Less(votes))
<1>1. IsOrder(n, Less(votes))
  BY DEF IsOrder, Less
<1>2. /\ order \in [1..n -> 1..n]
      /\ \A i, j \in 1..n : i < j => <<order[i], order[j]>> \in Less(votes)
      /\ \A i, j \in 1..n : order[i] = order[j] => i = j
  BY <1>1, Ordered
<1>. HIDE DEF order
<1>3. \A i, j \in 1..n : i < j => votes[order[i]] <= votes[order[j]]
  <2>. SUFFICES ASSUME NEW i \in 1..n, NEW j \in 1..n, i < j PROVE votes[order[i]] <= votes[order[j]]
    OBVIOUS
  <2>1. PICK a \in 1..n, b \in 1..n : a = order[i] /\ b = order[j] /\ <<a, b>> \in Less(votes)
    BY <1>2
  <2>2. votes[a] \in Int /\ votes[b] \in Int /\ (votes[a] < votes[b] \/ votes[a] = votes[b])
    BY <2>1 DEF Less
  <2>. QED
    BY <2>1, <2>2
<1>. QED
  BY <1>2, <1>3 DEF order

Above(n, votes, cut) == {m \in 1..n : votes[m] >= cut}

LEMMA BeforeAndAfter ==
    ASSUME NEW n \in Nat, NEW k \in 1..n
    PROVE  /\ \A i \in k..n : i \in 1..n /\ (k < i \/ k = i)
           /\ \A i \in 1..k : i \in 1..n /\ (i < k \/ i = k)
OBVIOUS

\* Of the votes in their order, the k-th is on the side of those after or before it.
LEMMA SideOfMost ==
    ASSUME NEW n \in Nat, NEW k \in 1..n, NEW votes \in [1..n -> Int], NEW cut \in Int,
           NEW order \in [1..n -> 1..n], \A i, j \in 1..n : order[i] = order[j] => i = j,
           \A i, j \in 1..n : i < j => votes[order[i]] <= votes[order[j]]
    PROVE  LET above == Above(n, votes, cut)
           IN /\ Cardinality(above) \in Nat
              /\ votes[order[k]] >= cut => Cardinality(above) >= n - k + 1
              /\ ~(votes[order[k]] >= cut) => Cardinality(above) <= n - k
<1> DEFINE above == Above(n, votes, cut)
           rest  == (1..n) \ above
           middle == votes[order[k]]
<1>1. /\ \A i \in k..n : i \in 1..n /\ (k < i \/ k = i)
      /\ \A i \in 1..k : i \in 1..n /\ (i < k \/ i = k)
  BY BeforeAndAfter
<1>2. \A i \in 1..n : order[i] \in 1..n /\ votes[order[i]] \in Int
  OBVIOUS
<1>3. middle \in Int /\ k \in Int /\ n \in Int /\ 1 \in Int
  BY <1>2
<1>4. IsFiniteSet(1..n) /\ Cardinality(1..n) = n
  BY FS_Interval
<1>5. /\ IsFiniteSet(above) /\ IsFiniteSet(rest) /\ Cardinality(above) \in Nat
      /\ Cardinality(rest) = n - Cardinality(above)
  <2>1. above \subseteq 1..n /\ (1..n) \cap above = above
    BY DEF Above
  <2>. HIDE DEF above
  <2>2. IsFiniteSet(above) /\ Cardinality(above) \in Nat
    BY <1>4, <2>1, FS_Subset, FS_CardinalityType
  <2>3. IsFiniteSet(rest) /\ Cardinality(rest) = n - Cardinality(above)
    <3>1. /\ IsFiniteSet((1..n) \ above)
          /\ Cardinality((1..n) \ above) = Cardinality(1..n) - Cardinality((1..n) \cap above)
      BY <1>4, FS_Difference
    <3>. QED
      BY <1>4, <2>1, <3>1
  <2>. QED
    BY <2>2, <2>3
<1>6. Cardinality(k..n) = n - k + 1 /\ Cardinality(1..k) = k
  BY FS_Interval
<1>7. CASE middle >= cut
  <2>1. ASSUME NEW i \in k..n PROVE middle <= votes[order[i]]
    <3>1. CASE k = i
      BY <1>3, <3>1
    <3>2. CASE k < i
      BY <1>1, <3>2
    <3>. QED
      BY <1>1, <3>1, <3>2
  <2>2. \A i \in k..n : order[i] \in above
    <3>. TAKE i \in k..n
    <3>1. order[i] \in 1..n /\ votes[order[i]] \in Int
      BY <1>1, <1>2
    <3>2. middle <= votes[order[i]]
      BY <2>1
    <3>. HIDE DEF middle
    <3>3. votes[order[i]] >= cut
      BY <1>3, <1>7, <3>1, <3>2
    <3>. QED
      BY <3>1, <3>3 DEF Above
  <2>3. \A i, j \in k..n : order[i] = order[j] => i = j
    BY <1>1
  <2>. HIDE DEF above
  <2>4. Cardinality(k..n) <= Cardinality(above)
    BY <1>3, <1>5, <2>2, <2>3, NoMorePositions
  <2>. QED
    BY <1>5, <1>6, <1>7, <2>4 DEF above
<1>8. CASE ~(middle >= cut)
  <2>1. ASSUME NEW i \in 1..k PROVE votes[order[i]] <= middle
    <3>1. CASE i = k
      BY <1>3, <3>1
    <3>2. CASE i < k
      BY <1>1, <3>2
    <3>. QED
      BY <1>1, <3>1, <3>2
  <2>2. \A i \in 1..k : order[i] \in rest
    <3>. TAKE i \in 1..k
    <3>1. order[i] \in 1..n /\ votes[order[i]] \in Int
      BY <1>1, <1>2
    <3>2. votes[order[i]] <= middle
      BY <2>1
    <3>. HIDE DEF middle
    <3>3. ~(votes[order[i]] >= cut)
      BY <1>3, <1>8, <3>1, <3>2
    <3>. QED
      BY <3>1, <3>3 DEF Above
  <2>3. \A i, j \in 1..k : order[i] = order[j] => i = j
    BY <1>1
  <2>. HIDE DEF rest, above
  <2>4. Cardinality(1..k) <= Cardinality(rest)
    BY <1>3, <1>5, <2>2, <2>3, NoMorePositions
  <2>5. Cardinality(above) <= n - k
    BY <1>5, <1>6, <2>4
  <2>. QED
    BY <1>5, <1>8, <2>5 DEF above
<1>. QED
  BY <1>7, <1>8

LEMMA SideOfMedian ==
    ASSUME NEW n \in Nat, NEW k \in 1..n, NEW votes \in [1..n -> Int], NEW cut \in Int,
           MedianOf(votes) = votes[Ordering(n, Less(votes))[k]]
    PROVE  LET above == Above(n, votes, cut)
           IN /\ MedianOf(votes) \in Int /\ Cardinality(above) \in Nat
              /\ MedianOf(votes) >= cut => Cardinality(above) >= n - k + 1
              /\ ~(MedianOf(votes) >= cut) => Cardinality(above) <= n - k
<1> DEFINE order == Ordering(n, Less(votes))
<1>1. /\ order \in [1..n -> 1..n]
      /\ \A i, j \in 1..n : order[i] = order[j] => i = j
      /\ \A i, j \in 1..n : i < j => votes[order[i]] <= votes[order[j]]
  BY VotesInOrder
<1>2. MedianOf(votes) = votes[order[k]]
  OBVIOUS
<1>. HIDE DEF order
<1>3. MedianOf(votes) \in Int
  BY <1>1, <1>2
<1> DEFINE votesAbove == Cardinality(Above(n, votes, cut))
<1>4. /\ votesAbove \in Nat
      /\ votes[order[k]] >= cut => votesAbove >= n - k + 1
      /\ ~(votes[order[k]] >= cut) => votesAbove <= n - k
  BY <1>1, SideOfMost
<1>. HIDE DEF votesAbove
<1>5. /\ MedianOf(votes) >= cut => votesAbove >= n - k + 1
      /\ ~(MedianOf(votes) >= cut) => votesAbove <= n - k
  BY <1>2, <1>4
<1>. QED
  BY <1>3, <1>4, <1>5 DEF votesAbove

\* With an odd number of votes the median is on the side of most of them.
LEMMA MedianOfMost ==
    ASSUME NEW n \in Nat, NEW votes \in [1..n -> Int], NEW cut \in Int, n % 2 = 1
    PROVE  /\ MedianOf(votes) \in Int
           /\ MedianOf(votes) >= cut <=> 2 * Cardinality(Above(n, votes, cut)) > n
<1>1. PICK half \in Nat : half = n \div 2 /\ n = 2 * half + 1
  OBVIOUS
<1>2. Len(votes) = n /\ DOMAIN votes = 1..n
  <2>1. votes \in Seq(Int)
    BY SeqDef
  <2>. QED
    BY <2>1, LenProperties
<1> DEFINE k == half + 1
           votesAbove == Cardinality(Above(n, votes, cut))
<1>3. k \in 1..n
  BY <1>1
<1>4. MedianOf(votes) = votes[Ordering(n, Less(votes))[k]]
  BY <1>1, <1>2, <1>3 DEF MedianOf
<1>. HIDE DEF k
<1>5. /\ MedianOf(votes) \in Int /\ votesAbove \in Nat
      /\ MedianOf(votes) >= cut => votesAbove >= n - k + 1
      /\ ~(MedianOf(votes) >= cut) => votesAbove <= n - k
  BY <1>3, <1>4, SideOfMedian
<1>. HIDE DEF votesAbove
<1>6. MedianOf(votes) >= cut <=> 2 * votesAbove > n
  BY <1>1, <1>5 DEF k
<1>. QED
  BY <1>5, <1>6 DEF votesAbove

\* The mean of the two middle votes is a number too.
LEMMA MediansAreNumbers ==
    ASSUME NEW n \in Nat \ {0}, NEW votes \in [1..n -> Int]
    PROVE  MedianOf(votes) \in Int
<1>1. CASE n % 2 = 1
  BY <1>1, MedianOfMost, 0 \in Int
<1>2. CASE n % 2 # 1
  <2>1. PICK half \in Nat : half = n \div 2 /\ half \in 1..n /\ half + 1 \in 1..n
    BY <1>2
  <2>2. Len(votes) = n /\ DOMAIN votes = 1..n
    <3>1. votes \in Seq(Int)
      BY SeqDef
    <3>. QED
      BY <3>1, LenProperties
  <2> DEFINE order == Ordering(n, Less(votes))
             a == votes[order[half]]
             b == votes[order[half + 1]]
  <2>3. order \in [1..n -> 1..n]
    BY VotesInOrder
  <2>4. MedianOf(votes) = Rounded(a + b, 2)
    BY <1>2, <2>1, <2>2 DEF MedianOf
  <2>. HIDE DEF order
  <2>5. a \in Int /\ b \in Int
    BY <2>1, <2>3
  <2>. HIDE DEF a, b
  <2>. QED
    BY <2>4, <2>5 DEF Rounded
<1>. QED
  BY <1>1, <1>2

-----------------------------------------------------------------------------
(* Lists of scores.                                                        *)

\* Sorting by score loses nobody and repeats nobody.
LEMMA SortedByScore ==
    ASSUME NEW list \in Seq(Entry)
    PROVE  LET sorted == BestFirst(list)
           IN /\ sorted \in Seq(Entry) /\ Len(sorted) = Len(list) /\ DOMAIN sorted = DOMAIN list
              /\ \A i, j \in DOMAIN sorted : i < j => sorted[i].score >= sorted[j].score
              /\ \A i \in DOMAIN sorted : \E k \in DOMAIN list : sorted[i] = list[k]
              /\ Refs(sorted) = Refs(list)
              /\ (\A i, j \in DOMAIN list : list[i].ref = list[j].ref => i = j)
                   => \A i, j \in DOMAIN sorted : sorted[i].ref = sorted[j].ref => i = j
<1> DEFINE n == Len(list)
           order == Ordering(n, Better(list))
           sorted == [i \in DOMAIN list |-> list[order[i]]]
<1>1. n \in Nat /\ DOMAIN list = 1..n /\ \A i \in 1..n : list[i] \in Entry
  BY LenProperties, ElementOfSeq
<1>2. \A i \in 1..n : list[i].score \in Int
  BY <1>1 DEF Entry
<1>3. IsOrder(n, Better(list))
  BY <1>1, <1>2 DEF IsOrder, Better
<1>4. /\ order \in [1..n -> 1..n]
      /\ \A i, j \in 1..n : i < j => <<order[i], order[j]>> \in Better(list)
      /\ \A i, j \in 1..n : order[i] = order[j] => i = j
      /\ \A k \in 1..n : \E i \in 1..n : order[i] = k
  BY <1>1, <1>3, Ordered
<1>5. BestFirst(list) = sorted
  BY DEF BestFirst
<1>. HIDE DEF order, n
<1>6. sorted \in [1..n -> Entry] /\ DOMAIN sorted = 1..n
  BY <1>1, <1>4
<1>7. sorted \in Seq(Entry) /\ Len(sorted) = n
  <2>1. sorted \in Seq(Entry)
    BY <1>1, <1>6, SeqDef
  <2>. HIDE DEF sorted
  <2>. QED
    BY <1>1, <1>6, <2>1, LenProperties
<1>8. ASSUME NEW i \in 1..n, NEW j \in 1..n, i < j
      PROVE  sorted[i].score >= sorted[j].score
  <2>1. PICK a \in 1..n, b \in 1..n : a = order[i] /\ b = order[j] /\ <<a, b>> \in Better(list)
    BY <1>4, <1>8
  <2>2. /\ list[a].score \in Int /\ list[b].score \in Int
        /\ list[a].score > list[b].score \/ list[a].score = list[b].score
    BY <1>2, <2>1 DEF Better
  <2>3. sorted[i] = list[a] /\ sorted[j] = list[b]
    BY <1>1, <2>1
  <2>. HIDE DEF sorted
  <2>. QED
    BY <2>2, <2>3
<1>9. Refs(sorted) = Refs(list)
  <2>1. ASSUME NEW i \in 1..n PROVE order[i] \in 1..n /\ sorted[i] = list[order[i]]
    <3>1. order[i] \in 1..n
      BY <1>4
    <3>. QED
      BY <1>1, <3>1
  <2>2. \A r \in Refs(sorted) : r \in Refs(list)
    BY <1>1, <1>6, <2>1, Zenon DEF Refs
  <2>3. ASSUME NEW r \in Refs(list) PROVE r \in Refs(sorted)
    <3>1. PICK k \in 1..n : r = list[k].ref
      BY <1>1 DEF Refs
    <3>2. PICK i \in 1..n : order[i] = k
      BY <1>4
    <3>3. r = sorted[i].ref
      BY <2>1, <3>1, <3>2
    <3>. QED
      BY <1>6, <3>3 DEF Refs
  <2>. QED
    BY <2>2, <2>3
<1>10. ASSUME \A i, j \in 1..n : list[i].ref = list[j].ref => i = j,
              NEW i \in 1..n, NEW j \in 1..n, sorted[i].ref = sorted[j].ref
       PROVE  i = j
  <2>1. order[i] \in 1..n /\ order[j] \in 1..n
    BY <1>4
  <2>2. sorted[i] = list[order[i]] /\ sorted[j] = list[order[j]]
    BY <1>1
  <2>3. list[order[i]].ref = list[order[j]].ref
    BY <1>10, <2>2
  <2>4. order[i] = order[j]
    BY <1>10, <2>1, <2>3
  <2>. QED
    BY <1>4, <2>4
<1>11. \A i \in 1..n : \E k \in 1..n : sorted[i] = list[k]
  BY <1>1, <1>4
<1>. HIDE DEF sorted
<1>. QED
  BY <1>1, <1>5, <1>6, <1>7, <1>8, <1>9, <1>10, <1>11 DEF n

\* Merging the ensemble's scores changes scores only.
LEMMA MergedScores ==
    ASSUME NEW list \in Seq(Entry), \A c \in DOMAIN opinion : opinion[c].score \in Int
    PROVE  LET merged == Merge(list)
           IN /\ merged \in Seq(Entry) /\ Len(merged) = Len(list) /\ DOMAIN merged = DOMAIN list
              /\ \A i \in DOMAIN list :
                    /\ merged[i].ref = list[i].ref
                    /\ merged[i].score # list[i].score =>
                           list[i].ref \in DOMAIN opinion /\ opinion[list[i].ref] # NoOpinion
              /\ Refs(merged) = Refs(list)
<1> DEFINE n == Len(list)
           merged == Merge(list)
<1>1. n \in Nat /\ DOMAIN list = 1..n /\ \A i \in 1..n : list[i] \in Entry
  BY LenProperties, ElementOfSeq
<1>2. ASSUME NEW i \in 1..n
      PROVE  /\ merged[i] \in Entry /\ merged[i].ref = list[i].ref
             /\ merged[i].score # list[i].score =>
                    list[i].ref \in DOMAIN opinion /\ opinion[list[i].ref] # NoOpinion
  BY <1>1 DEF Merge, Entry
<1>3. merged \in [1..n -> Entry] /\ DOMAIN merged = 1..n
  BY <1>1, <1>2 DEF Merge
<1>. HIDE DEF merged, n
<1>4. merged \in Seq(Entry) /\ Len(merged) = n
  <2>1. merged \in Seq(Entry)
    BY <1>1, <1>3, SeqDef
  <2>. QED
    BY <1>1, <1>3, <2>1, LenProperties
<1>5. Refs(merged) = Refs(list)
  BY <1>1, <1>2, <1>3 DEF Refs
<1>. QED
  BY <1>1, <1>2, <1>3, <1>4, <1>5 DEF merged, n

\* A list without repetition is as long as it has candidates.
LEMMA EachCounts ==
    ASSUME NEW list \in Seq(Entry), \A i, j \in DOMAIN list : list[i].ref = list[j].ref => i = j
    PROVE  Cardinality(Refs(list)) = Len(list)
<1> DEFINE n == Len(list)
           f == [i \in 1..n |-> list[i].ref]
<1>1. n \in Nat /\ DOMAIN list = 1..n
  BY LenProperties
<1>. HIDE DEF n
<1>2. f \in Bijection(1..n, Refs(list))
  BY <1>1 DEF Bijection, Injection, Surjection, IsInjective, Refs
<1>3. ExistsBijection(1..n, Refs(list))
  BY <1>2 DEF ExistsBijection
<1>. QED
  BY <1>1, <1>3, FS_CountingElements DEF n

LEMMA CutoffIsNumber ==
    ASSUME NEW list \in Seq(Entry), list # <<>>
    PROVE  Cutoff(list) \in Int
<1>1. Len(list) \in Nat /\ Len(list) # 0 /\ Size \in Nat \ {0}
  BY RankingAssumption, LenProperties, EmptySeq
<1>2. Min({Size, Len(list)}) \in 1..Len(list)
  BY <1>1, LesserOfTwo
<1>3. list[Min({Size, Len(list)})] \in Entry
  BY <1>2, ElementOfSeq
<1>. QED
  BY <1>3 DEF Cutoff, Entry

-----------------------------------------------------------------------------
(* The memo.                                                               *)

\* What the judge has answered on a text stays its answer.
LEMMA AskedOnce ==
    ASSUME Shape, NEW c \in Candidates, NEW answer \in Ask(c), Remember(c, answer)
    PROVE  /\ answer \in Answers \cup {"none"} /\ memo' \in [Texts -> Answers \cup {"none"}]
           /\ \A t \in Texts : memo[t] # "none" => memo'[t] = memo[t]
           /\ Asks(c) => memo'[TextOf[c]] = answer /\ answer # "none"
<1>1. TextOf[c] \in Texts /\ memo \in [Texts -> Answers \cup {"none"}]
  BY DEF Texts, Shape
<1>2. "none" \notin Answers
  BY AnswersAreVerdicts
<1>3. CASE Asks(c)
  <2>1. answer \in Answers /\ (memo[TextOf[c]] # "none" => answer = memo[TextOf[c]])
    BY <1>1, <1>2, <1>3 DEF Ask
  <2>2. memo' = [memo EXCEPT ![TextOf[c]] = answer]
    BY <1>3 DEF Remember
  <2>. QED
    BY <1>1, <1>2, <2>1, <2>2
<1>4. CASE ~Asks(c)
  BY <1>1, <1>4 DEF Ask, Remember
<1>. QED
  BY <1>3, <1>4

-----------------------------------------------------------------------------
(* The steps.                                                              *)

LEMMA RankingStarts == Init => RankingInv
<1>. SUFFICES ASSUME Init PROVE RankingInv
  OBVIOUS
<1>1. triage = <<>> /\ triage \in Seq(Entry) /\ DOMAIN triage = {} /\ DOMAIN opinion = {} /\ pc = "screening"
  BY EmptySeq DEF Init
<1>2. Shape
  BY <1>1 DEF Init, Shape
<1>3. TriagedOnce /\ AnswersAreRemembered /\ OpinionsAreOnDoubts
  BY <1>1 DEF TriagedOnce, AnswersAreRemembered, OpinionsAreOnDoubts, Refs
<1>4. ExclusionsHaveEvidence /\ MajorityPlaces /\ EveryoneIsPlaced
  BY <1>1 DEF Init, NoCheck, ExclusionsHaveEvidence, MajorityPlaces, EveryoneIsPlaced
<1>. QED
  BY <1>2, <1>3, <1>4 DEF RankingInv

\* Until all are screened nothing refers to the outcomes; an exclusion has its evidence.
LEMMA ScreenKeeps ==
    ASSUME RankingInv, NEW c \in Candidates, Screen(c)
    PROVE  RankingInv'
<1>1. /\ pc = "screening" /\ pc' = pc /\ outcome[c] = "none"
      /\ memo' = memo /\ triage' = triage /\ opinion' = opinion
  BY DEF Screen
<1>2. Shape /\ TriagedOnce /\ OpinionsAreOnDoubts
  BY DEF RankingInv
<1>3. triage = <<>> /\ DOMAIN triage = {} /\ DOMAIN opinion = {}
  <2>1. triage = <<>>
    BY <1>1, <1>2 DEF TriagedOnce
  <2>. QED
    BY <1>1, <1>2, <2>1 DEF OpinionsAreOnDoubts
<1>4. Shape'
  <2>1. \E d : outcome' = [outcome EXCEPT ![c] = OutcomeOf(d)]
    BY DEF Screen
  <2>2. outcome' \in [Candidates -> {"none", "excluded", "eligible", "needs_manual_review"}]
    BY <1>2, <2>1 DEF Shape, OutcomeOf
  <2>. QED
    BY <1>1, <1>2, <2>2 DEF Shape
<1>5. TriagedOnce' /\ AnswersAreRemembered' /\ OpinionsAreOnDoubts' /\ MajorityPlaces' /\ EveryoneIsPlaced'
  BY <1>1, <1>3
     DEF TriagedOnce, AnswersAreRemembered, OpinionsAreOnDoubts, Refs, MajorityPlaces, EveryoneIsPlaced
<1>6. ExclusionsHaveEvidence'
  <2>1. PICK value \in Requirements, replies \in [1..Members -> Replies \cup {NoReply}] :
            check' = IF value = "ask" THEN [replies |-> replies, value |-> Judgement(replies)] ELSE NoCheck
    BY DEF Screen
  <2>2. CASE value = "ask" /\ Judgement(replies) = "false"
    <3>1. check'.replies = replies
      BY <2>1, <2>2
    <3>. QED
      BY <2>2, <3>1, ExcludedWithEvidence DEF ExclusionsHaveEvidence
  <2>3. CASE ~(value = "ask" /\ Judgement(replies) = "false")
    BY <2>1, <2>3 DEF ExclusionsHaveEvidence, NoCheck
  <2>. QED
    BY <2>2, <2>3
<1>. QED
  BY <1>4, <1>5, <1>6 DEF RankingInv

\* The next candidate was not triaged yet, and the answer agrees with the memo.
LEMMA TriageKeeps ==
    ASSUME RankingInv, Triage
    PROVE  RankingInv'
<1> DEFINE c == Min(Eligible \ Refs(triage))
<1>1. /\ pc = "screening" /\ \A x \in Candidates : outcome[x] # "none"
      /\ Refs(triage) # Eligible
      /\ outcome' = outcome /\ opinion' = opinion /\ pc' = pc /\ check' = NoCheck
  BY DEF Triage
<1>2. Shape /\ TriagedOnce /\ AnswersAreRemembered /\ OpinionsAreOnDoubts
  BY DEF RankingInv
<1>3. c \in Eligible /\ c \notin Refs(triage) /\ c \in Candidates
  <2>1. Number \in Nat
    BY RankingAssumption
  <2>2. Eligible \ Refs(triage) \in SUBSET (1..Number) /\ Eligible \ Refs(triage) # {}
    BY <1>1, <1>2 DEF Eligible, Candidates, TriagedOnce
  <2>3. c \in Eligible \ Refs(triage)
    BY <2>1, <2>2, LeastPosition
  <2>. QED
    BY <2>3 DEF Eligible
<1>0. PICK answer \in Ask(c) : \E score \in Scores(c, answer) :
          /\ triage' = Append(triage, [ref |-> c, score |-> score, answer |-> answer])
          /\ Remember(c, answer)
  BY DEF Triage
<1>4. PICK score \in Scores(c, answer) :
          /\ triage' = Append(triage, [ref |-> c, score |-> score, answer |-> answer])
          /\ Remember(c, answer)
  BY <1>0
<1>. HIDE DEF c
<1>5. /\ answer \in Answers \cup {"none"} /\ memo' \in [Texts -> Answers \cup {"none"}]
      /\ \A t \in Texts : memo[t] # "none" => memo'[t] = memo[t]
      /\ Asks(c) => memo'[TextOf[c]] = answer /\ answer # "none"
  BY <1>2, <1>3, <1>4, AskedOnce
<1> DEFINE n == Len(triage)
           entry == [ref |-> c, score |-> score, answer |-> answer]
<1>6. entry \in Entry
  <2>1. score \in Int
    BY <1>3, <1>5, ScoresAreNumbers
  <2>. QED
    BY <1>3, <1>5, <2>1 DEF Entry
<1>. HIDE DEF entry
<1>7. /\ triage' \in Seq(Entry) /\ n \in Nat /\ DOMAIN triage = 1..n
      /\ DOMAIN triage' = 1..(n + 1) /\ triage'[n + 1] = entry
      /\ \A i \in 1..n : triage'[i] = triage[i] /\ triage'[i] \in Entry
  <2>1. triage \in Seq(Entry) /\ triage' = Append(triage, entry)
    BY <1>2, <1>4 DEF Shape, entry
  <2>. QED
    BY <1>6, <2>1, AppendProperties, LenProperties, ElementOfSeq
<1>. HIDE DEF n
<1>8. Shape'
  BY <1>1, <1>2, <1>5, <1>7 DEF Shape
<1>9. entry.ref = c /\ entry.answer = answer
  BY DEF entry
<1>10. \A i \in 1..(n + 1) : i = n + 1 \/ i \in 1..n
  BY <1>7
<1>11. Refs(triage') = Refs(triage) \cup {c}
  <2>1. \A r \in Refs(triage') : r \in Refs(triage) \cup {c}
    BY <1>7, <1>9, <1>10 DEF Refs
  <2>2. \A r \in Refs(triage) : r \in Refs(triage')
    BY <1>7 DEF Refs
  <2>3. n + 1 \in 1..(n + 1)
    BY <1>7
  <2>4. c \in Refs(triage')
    BY <1>7, <1>9, <2>3 DEF Refs
  <2>. QED
    BY <2>1, <2>2, <2>4
<1>12. TriagedOnce'
  <2>1. Eligible' = Eligible
    BY <1>1 DEF Eligible
  <2>2. ASSUME NEW i \in 1..(n + 1), NEW j \in 1..(n + 1), triage'[i].ref = triage'[j].ref
        PROVE  i = j
    <3>1. \A k \in 1..n : triage'[k].ref # c
      BY <1>3, <1>7 DEF Refs
    <3>2. \A k, l \in 1..n : triage'[k].ref = triage'[l].ref => k = l
      BY <1>2, <1>7 DEF TriagedOnce
    <3>. QED
      BY <1>7, <1>9, <1>10, <2>2, <3>1, <3>2
  <2>3. Refs(triage')  \subseteq Eligible'
    BY <1>2, <1>3, <1>11, <2>1 DEF TriagedOnce
  <2>4. pc' = "screening" /\ \A x \in Candidates : outcome'[x] # "none"
    BY <1>1
  <2>. QED
    BY <1>7, <2>2, <2>3, <2>4 DEF TriagedOnce
<1>13. AnswersAreRemembered'
  <2>1. DOMAIN opinion' = {}
    BY <1>1, <1>2 DEF OpinionsAreOnDoubts
  <2>2. ASSUME NEW x \in Refs(triage)
        PROVE  Asks(x) => memo[TextOf[x]] # "none" /\ memo'[TextOf[x]] = memo[TextOf[x]]
    <3>1. TextOf[x] \in Texts
      BY <1>2 DEF TriagedOnce, Eligible, Texts
    <3>. QED
      BY <1>2, <1>5, <3>1 DEF AnswersAreRemembered
  <2>3. ASSUME NEW i \in 1..(n + 1), Asks(triage'[i].ref)
        PROVE  triage'[i].answer = memo'[TextOf[triage'[i].ref]]
    <3>1. CASE i = n + 1
      BY <1>5, <1>7, <1>9, <2>3, <3>1
    <3>2. CASE i \in 1..n
      <4>1. triage[i].ref \in Refs(triage) /\ triage'[i] = triage[i]
        BY <1>7, <3>2 DEF Refs
      <4>2. triage[i].answer = memo[TextOf[triage[i].ref]]
        BY <1>2, <1>7, <2>3, <3>2, <4>1 DEF AnswersAreRemembered
      <4>. QED
        BY <2>2, <2>3, <4>1, <4>2
    <3>. QED
      BY <1>10, <3>1, <3>2
  <2>4. \A x \in Refs(triage') : Asks(x) => memo'[TextOf[x]] # "none"
    BY <1>5, <1>11, <2>2
  <2>. QED
    BY <1>7, <2>1, <2>3, <2>4 DEF AnswersAreRemembered, Asks
<1>14. OpinionsAreOnDoubts' /\ MajorityPlaces' /\ EveryoneIsPlaced' /\ ExclusionsHaveEvidence'
  <2>1. DOMAIN opinion' = {} /\ pc' = "screening"
    BY <1>1, <1>2 DEF OpinionsAreOnDoubts
  <2>. QED
    BY <1>1, <2>1 DEF OpinionsAreOnDoubts, MajorityPlaces, EveryoneIsPlaced, ExclusionsHaveEvidence, NoCheck
<1>. QED
  BY <1>8, <1>12, <1>13, <1>14 DEF RankingInv

LEMMA TriageFailsKeeps ==
    ASSUME RankingInv, TriageFails
    PROVE  RankingInv'
<1>1. /\ pc = "screening" /\ pc' = "failed" /\ \A x \in Candidates : outcome[x] # "none"
      /\ UNCHANGED <<outcome, check, memo, triage, opinion, shortlist>>
  BY DEF TriageFails
<1>2. DOMAIN opinion = {}
  BY <1>1 DEF RankingInv, OpinionsAreOnDoubts
<1>3. Shape' /\ TriagedOnce' /\ AnswersAreRemembered' /\ ExclusionsHaveEvidence'
  BY <1>1
     DEF RankingInv, Shape, TriagedOnce, Refs, Eligible, AnswersAreRemembered, Asks, ExclusionsHaveEvidence
<1>4. OpinionsAreOnDoubts' /\ MajorityPlaces' /\ EveryoneIsPlaced'
  BY <1>1, <1>2 DEF OpinionsAreOnDoubts, MajorityPlaces, EveryoneIsPlaced
<1>. QED
  BY <1>3, <1>4 DEF RankingInv

\* Everyone is triaged; sorting only moves them.
LEMMA SortTriageKeeps ==
    ASSUME RankingInv, SortTriage
    PROVE  RankingInv'
<1>1. /\ pc = "screening" /\ pc' = "ensemble" /\ \A x \in Candidates : outcome[x] # "none"
      /\ Refs(triage) = Eligible /\ triage' = BestFirst(triage) /\ check' = NoCheck
      /\ UNCHANGED <<outcome, memo, opinion, shortlist>>
  BY DEF SortTriage
<1>2. Shape /\ TriagedOnce /\ AnswersAreRemembered /\ DOMAIN opinion = {}
  BY <1>1 DEF RankingInv, OpinionsAreOnDoubts
<1>3. /\ triage' \in Seq(Entry) /\ DOMAIN triage' = DOMAIN triage
      /\ \A i \in DOMAIN triage' : \E k \in DOMAIN triage : triage'[i] = triage[k]
      /\ Refs(triage') = Refs(triage)
      /\ \A i, j \in DOMAIN triage' : triage'[i].ref = triage'[j].ref => i = j
  <2>1. /\ triage \in Seq(Entry)
        /\ \A i, j \in DOMAIN triage : triage[i].ref = triage[j].ref => i = j
    BY <1>2 DEF Shape, TriagedOnce
  <2>. DEFINE sorted == BestFirst(triage)
  <2>2. /\ sorted \in Seq(Entry) /\ DOMAIN sorted = DOMAIN triage
        /\ \A i \in DOMAIN sorted : \E k \in DOMAIN triage : sorted[i] = triage[k]
        /\ Refs(sorted) = Refs(triage)
        /\ \A i, j \in DOMAIN sorted : sorted[i].ref = sorted[j].ref => i = j
    BY <2>1, SortedByScore
  <2>3. triage' = sorted
    BY <1>1
  <2>. HIDE DEF sorted
  <2>. QED
    BY <2>2, <2>3
<1>4. Shape'
  BY <1>1, <1>2, <1>3 DEF Shape
<1>5. TriagedOnce'
  <2>1. Eligible' = Eligible
    BY <1>1 DEF Eligible
  <2>. QED
    BY <1>1, <1>3, <2>1 DEF TriagedOnce
<1>6. AnswersAreRemembered'
  <2>1. \A i \in DOMAIN triage' : Asks(triage'[i].ref) => triage'[i].answer = memo[TextOf[triage'[i].ref]]
    BY <1>2, <1>3 DEF AnswersAreRemembered
  <2>2. \A c \in Refs(triage') : Asks(c) => memo[TextOf[c]] # "none"
    BY <1>2, <1>3 DEF AnswersAreRemembered
  <2>. QED
    BY <1>1, <1>2, <2>1, <2>2 DEF AnswersAreRemembered, Asks
<1>7. OpinionsAreOnDoubts' /\ MajorityPlaces' /\ EveryoneIsPlaced' /\ ExclusionsHaveEvidence'
  BY <1>1, <1>2 DEF OpinionsAreOnDoubts, MajorityPlaces, EveryoneIsPlaced, ExclusionsHaveEvidence, NoCheck
<1>. QED
  BY <1>4, <1>5, <1>6, <1>7 DEF RankingInv

LEMMA DoubtsAreTriaged == \A list : InDoubt(list) \subseteq Refs(list)
BY DEF InDoubt, Borderline, Refs

\* What the members say goes by the memo, and their median is where most of them are.
LEMMA RescoreKeeps ==
    ASSUME RankingInv, NEW c \in Candidates, Rescore(c)
    PROVE  RankingInv'
<1>1. /\ pc = "ensemble" /\ c \in InDoubt(triage) \ DOMAIN opinion
      /\ UNCHANGED <<outcome, check, triage, shortlist, pc>>
  BY DEF Rescore
<1>2. Shape /\ TriagedOnce /\ AnswersAreRemembered /\ OpinionsAreOnDoubts /\ ExclusionsHaveEvidence /\ MajorityPlaces
  BY DEF RankingInv
<1> DEFINE given(answer, counted, votes) ==
               IF counted = 0 THEN NoOpinion
               ELSE [score |-> MedianOf(votes), answer |-> answer,
                     include |-> Cardinality(Above(counted, votes, Cutoff(triage))), counted |-> counted]
<1>0. PICK answer \in Ask(c) : \E counted \in 0..Members :
          /\ \E votes \in [1..counted -> Scores(c, answer)] :
               opinion' = [x \in DOMAIN opinion \cup {c} |->
                              IF x # c THEN opinion[x] ELSE given(answer, counted, votes)]
          /\ Remember(c, answer)
  BY DEF Rescore, Above
<1>3. PICK counted \in 0..Members :
          \E votes \in [1..counted -> Scores(c, answer)] :
              opinion' = [x \in DOMAIN opinion \cup {c} |->
                             IF x # c THEN opinion[x] ELSE given(answer, counted, votes)]
  BY <1>0
<1>4. PICK votes \in [1..counted -> Scores(c, answer)] :
          opinion' = [x \in DOMAIN opinion \cup {c} |->
                         IF x # c THEN opinion[x] ELSE given(answer, counted, votes)]
  BY <1>3
<1> DEFINE new == given(answer, counted, votes)
<1>5. /\ answer \in Answers \cup {"none"} /\ memo' \in [Texts -> Answers \cup {"none"}]
      /\ \A t \in Texts : memo[t] # "none" => memo'[t] = memo[t]
      /\ Asks(c) => memo'[TextOf[c]] = answer /\ answer # "none"
  BY <1>0, <1>2, AskedOnce
<1>6. counted \in Nat /\ votes \in [1..counted -> Int] /\ Cutoff(triage) \in Int
  <2>1. counted \in Nat
    BY RankingAssumption
  <2>2. votes \in [1..counted -> Int]
    BY <1>5, ScoresAreNumbers
  <2>3. triage # <<>>
    BY <1>1, DoubtsAreTriaged DEF Refs
  <2>. QED
    BY <1>2, <2>1, <2>2, <2>3, CutoffIsNumber DEF Shape
<1>7. /\ new.score \in Int
      /\ new # NoOpinion => new.answer = answer
      /\ new.counted % 2 = 1 => (new.score >= Cutoff(triage) <=> 2 * new.include > new.counted)
  <2>1. CASE counted = 0
    BY <2>1 DEF NoOpinion
  <2>2. CASE counted # 0
    <3>1. new = [score |-> MedianOf(votes), answer |-> answer,
                 include |-> Cardinality(Above(counted, votes, Cutoff(triage))), counted |-> counted]
      BY <2>2
    <3>2. MedianOf(votes) \in Int
      BY <1>6, <2>2, MediansAreNumbers
    <3>3. counted % 2 = 1 =>
              (MedianOf(votes) >= Cutoff(triage) <=> 2 * Cardinality(Above(counted, votes, Cutoff(triage))) > counted)
      BY <1>6, MedianOfMost
    <3>. QED
      BY <3>1, <3>2, <3>3
  <2>. QED
    BY <2>1, <2>2
<1>8. DOMAIN opinion' = DOMAIN opinion \cup {c} /\ opinion'[c] = new /\ \A x \in DOMAIN opinion : opinion'[x] = opinion[x]
  BY <1>1, <1>4
<1>. HIDE DEF new, given
<1>9. Shape'
  BY <1>1, <1>2, <1>5, <1>8 DEF Shape
<1>10. TriagedOnce' /\ ExclusionsHaveEvidence' /\ EveryoneIsPlaced'
  BY <1>1, <1>2 DEF TriagedOnce, Refs, Eligible, ExclusionsHaveEvidence, EveryoneIsPlaced
<1>11. ASSUME NEW x \in Refs(triage)
       PROVE  Asks(x) => memo'[TextOf[x]] = memo[TextOf[x]] /\ memo[TextOf[x]] # "none"
  <2>1. TextOf[x] \in Texts
    BY <1>2 DEF TriagedOnce, Eligible, Texts
  <2>. QED
    BY <1>2, <1>5, <2>1 DEF AnswersAreRemembered
<1>12. AnswersAreRemembered'
  <2>1. ASSUME NEW i \in DOMAIN triage, Asks(triage[i].ref)
        PROVE  triage[i].answer = memo'[TextOf[triage[i].ref]]
    <3>1. triage[i].ref \in Refs(triage)
      BY DEF Refs
    <3>. QED
      BY <1>2, <1>11, <2>1, <3>1 DEF AnswersAreRemembered
  <2>2. ASSUME NEW x \in DOMAIN opinion', Asks(x), opinion'[x] # NoOpinion
        PROVE  opinion'[x].answer = memo'[TextOf[x]]
    <3>1. CASE x = c
      BY <1>5, <1>7, <1>8, <2>2, <3>1
    <3>2. CASE x \in DOMAIN opinion
      <4>1. x \in Refs(triage)
        BY <1>2, <3>2, DoubtsAreTriaged DEF OpinionsAreOnDoubts
      <4>. QED
        BY <1>2, <1>8, <1>11, <2>2, <3>2, <4>1 DEF AnswersAreRemembered
    <3>. QED
      BY <1>8, <3>1, <3>2
  <2>3. \A x \in Refs(triage) : Asks(x) => memo'[TextOf[x]] # "none"
    BY <1>11
  <2>. QED
    BY <1>1, <2>1, <2>2, <2>3 DEF AnswersAreRemembered, Asks
<1>13. OpinionsAreOnDoubts'
  <2>1. InDoubt(triage)' = InDoubt(triage)
    BY <1>1 DEF InDoubt, Borderline, Refs, Cutoff
  <2>. QED
    BY <1>1, <1>2, <1>7, <1>8, <2>1 DEF OpinionsAreOnDoubts
<1>14. MajorityPlaces'
  <2>1. Cutoff(triage)' = Cutoff(triage)
    BY <1>1
  <2>2. ASSUME NEW x \in DOMAIN opinion', opinion'[x].counted % 2 = 1
        PROVE  opinion'[x].score >= Cutoff(triage) <=> 2 * opinion'[x].include > opinion'[x].counted
    <3>1. CASE x = c
      BY <1>7, <1>8, <2>2, <3>1
    <3>2. CASE x \in DOMAIN opinion
      BY <1>2, <1>8, <2>2, <3>2 DEF MajorityPlaces
    <3>. QED
      BY <1>8, <3>1, <3>2
  <2>. QED
    BY <2>1, <2>2 DEF MajorityPlaces
<1>. QED
  BY <1>9, <1>10, <1>12, <1>13, <1>14 DEF RankingInv

\* Cutting a list in two keeps it whole.
LEMMA CutInTwo ==
    ASSUME NEW list \in Seq(Entry)
    PROVE  LET entries == SubSeq(list, 1, Min({Size, Len(list)}))
               below   == SubSeq(list, Size + 1, Len(list))
           IN entries \o below = list /\ Len(entries) = Min({Size, Len(list)})
<1> DEFINE n == Len(list)
<1>1. n \in Nat /\ Size \in Nat \ {0} /\ list = SubSeq(list, 1, n)
  BY RankingAssumption, LenProperties, SubSeqFull
<1>2. CASE Size <= n
  <2>1. Min({Size, n}) = Size
    BY <1>1, <1>2, LesserOfTwo
  <2>2. SubSeq(list, 1, Size) \o SubSeq(list, Size + 1, n) = list
    <3>1. 1 \in 1..(n + 1) /\ Size \in (1 - 1)..n /\ n \in Size..n
      BY <1>1, <1>2
    <3>2. SubSeq(list, 1, Size) \o SubSeq(list, Size + 1, n) = SubSeq(list, 1, n)
      BY <3>1, ConcatAdjacentSubSeq
    <3>. QED
      BY <1>1, <3>2
  <2>3. Len(SubSeq(list, 1, Size)) = Size
    <3>1. \A i \in 1..Size : list[i] \in Entry
      BY <1>1, <1>2, ElementOfSeq
    <3>2. 1 \in Int /\ Size \in Int /\ 1 <= Size /\ Size - 1 + 1 = Size
      BY <1>1
    <3>. QED
      BY <3>1, <3>2, SubSeqProperties
  <2>. QED
    BY <2>1, <2>2, <2>3
<1>3. CASE ~(Size <= n)
  <2>1. Min({Size, n}) = n
    BY <1>1, <1>3, LesserOfTwo
  <2>2. SubSeq(list, Size + 1, n) = <<>>
    BY <1>1, <1>3, SubSeqEmpty
  <2>3. list \o <<>> = list
    BY ConcatEmptySeq
  <2>. QED
    BY <1>1, <2>1, <2>2, <2>3
<1>. QED
  BY <1>2, <1>3

\* The shortlist and those below it are everyone, and new scores are for those in doubt.
LEMMA CutShortlistKeeps ==
    ASSUME RankingInv, CutShortlist
    PROVE  RankingInv'
<1> DEFINE merged == Merge(triage)
           placed == BestFirst(merged)
<1>1. /\ pc = "ensemble" /\ pc' = "complete"
      /\ UNCHANGED <<outcome, check, memo, triage, opinion>>
      /\ shortlist' = [entries |-> SubSeq(placed, 1, Min({Size, Len(placed)})),
                        below   |-> SubSeq(placed, Size + 1, Len(placed)),
                        excluded |-> {c \in Candidates : outcome[c] = "excluded"},
                        manual_review |-> {c \in Candidates : outcome[c] = "needs_manual_review"}]
  BY DEF CutShortlist
<1>2. /\ Shape /\ TriagedOnce /\ AnswersAreRemembered /\ OpinionsAreOnDoubts
      /\ ExclusionsHaveEvidence /\ MajorityPlaces
  BY DEF RankingInv
<1>3. triage \in Seq(Entry) /\ \A i, j \in DOMAIN triage : triage[i].ref = triage[j].ref => i = j
  BY <1>2 DEF Shape, TriagedOnce
<1>4. /\ merged \in Seq(Entry) /\ DOMAIN merged = DOMAIN triage
      /\ \A i \in DOMAIN triage :
            /\ merged[i].ref = triage[i].ref
            /\ merged[i].score # triage[i].score =>
                   triage[i].ref \in DOMAIN opinion /\ opinion[triage[i].ref] # NoOpinion
      /\ Refs(merged) = Refs(triage)
  BY <1>2, <1>3, MergedScores DEF OpinionsAreOnDoubts
<1>. HIDE DEF merged
<1>5. \A i, j \in DOMAIN merged : merged[i].ref = merged[j].ref => i = j
  BY <1>3, <1>4
<1>6. /\ placed \in Seq(Entry)
      /\ \A i, j \in DOMAIN placed : i < j => placed[i].score >= placed[j].score
      /\ \A i \in DOMAIN placed : \E k \in DOMAIN merged : placed[i] = merged[k]
      /\ Refs(placed) = Refs(merged)
      /\ \A i, j \in DOMAIN placed : placed[i].ref = placed[j].ref => i = j
  BY <1>4, <1>5, SortedByScore
<1>. HIDE DEF placed
<1>7. /\ shortlist'.entries \o shortlist'.below = placed
      /\ Len(shortlist'.entries) = Min({Size, Len(placed)})
  BY <1>1, <1>6, CutInTwo
<1>8. Refs(placed) = Eligible /\ Len(placed) = Cardinality(Eligible)
  <2>1. Refs(placed) = Eligible
    BY <1>1, <1>2, <1>4, <1>6 DEF TriagedOnce
  <2>. QED
    BY <1>6, <2>1, EachCounts
<1>9. shortlist'.excluded = Candidates \ Eligible
  BY <1>1, <1>2 DEF TriagedOnce, Shape, Eligible
<1>10. \A i \in 1..(Len(placed) - 1) : placed[i].score >= placed[i + 1].score
  <2>1. Len(placed) \in Nat /\ DOMAIN placed = 1..Len(placed)
    BY <1>6, LenProperties
  <2>. QED
    BY <1>6, <2>1
<1>11. ASSUME NEW i \in DOMAIN placed, NEW j \in DOMAIN triage,
              placed[i].ref = triage[j].ref, placed[i].score # triage[j].score
       PROVE  /\ \/ outcome[placed[i].ref] = "needs_manual_review"
                 \/ Distance(triage[j].score, triage[Size].score) <= Margin
              /\ opinion[placed[i].ref] # NoOpinion
  <2>1. PICK k \in DOMAIN triage : placed[i] = merged[k]
    BY <1>4, <1>6
  <2>2. k = j
    BY <1>3, <1>4, <1>11, <2>1
  <2>3. opinion[triage[j].ref] # NoOpinion /\ triage[j].ref \in InDoubt(triage)
    BY <1>2, <1>4, <1>11, <2>1, <2>2 DEF OpinionsAreOnDoubts
  <2>4. CASE triage[j].ref \in Borderline(triage)
    <3>1. Len(triage) \in Nat /\ Size \in Nat
      BY <1>3, LenProperties, RankingAssumption
    <3>2. PICK l \in DOMAIN triage :
              /\ triage[j].ref = triage[l].ref /\ ~(Size >= Len(triage))
              /\ Distance(triage[l].score, Cutoff(triage)) <= Margin
      BY <2>4 DEF Borderline
    <3>3. l = j
      BY <1>3, <3>2
    <3>4. Min({Size, Len(triage)}) = Size
      BY <3>1, <3>2, LesserOfTwo
    <3>. QED
      BY <1>11, <2>3, <3>2, <3>3, <3>4 DEF Cutoff
  <2>5. CASE outcome[triage[j].ref] = "needs_manual_review"
    BY <1>11, <2>3, <2>5
  <2>. QED
    BY <1>11, <2>3, <2>4, <2>5 DEF InDoubt
<1>12. EveryoneIsPlaced'
  <2>1. Eligible' = Eligible /\ triage' = triage /\ outcome' = outcome /\ opinion' = opinion
    BY <1>1 DEF Eligible
  <2>2. (Refs(shortlist.entries \o shortlist.below))' = Refs(placed)
    BY <1>7 DEF Refs
  <2>3. /\ (Refs(shortlist.entries \o shortlist.below))' = Eligible'
        /\ Len(shortlist'.entries \o shortlist'.below) = Cardinality(Eligible')
        /\ shortlist'.excluded = Candidates \ Eligible'
        /\ Len(shortlist'.entries) = Min({Size, Len(shortlist'.entries \o shortlist'.below)})
    BY <1>7, <1>8, <1>9, <2>1, <2>2
  <2>. QED
    BY <1>7, <1>10, <1>11, <2>1, <2>3 DEF EveryoneIsPlaced
<1>13. Shape' /\ TriagedOnce' /\ AnswersAreRemembered' /\ ExclusionsHaveEvidence'
  BY <1>1, <1>2 DEF Shape, TriagedOnce, Refs, Eligible, AnswersAreRemembered, Asks, ExclusionsHaveEvidence
<1>14. OpinionsAreOnDoubts' /\ MajorityPlaces'
  <2>1. InDoubt(triage)' = InDoubt(triage)
    BY <1>1 DEF InDoubt, Borderline, Refs, Cutoff
  <2>2. Cutoff(triage)' = Cutoff(triage)
    BY <1>1
  <2>3. OpinionsAreOnDoubts'
    BY <1>1, <1>2, <2>1 DEF OpinionsAreOnDoubts
  <2>4. MajorityPlaces'
    BY <1>1, <1>2, <2>2 DEF MajorityPlaces
  <2>. QED
    BY <2>3, <2>4
<1>. QED
  BY <1>12, <1>13, <1>14 DEF RankingInv

LEMMA StutteringKeeps ==
    ASSUME RankingInv, UNCHANGED vars
    PROVE  RankingInv'
<1>1. Eligible' = Eligible /\ Refs(triage)' = Refs(triage) /\ InDoubt(triage)' = InDoubt(triage)
  BY DEF vars, Eligible, Refs, InDoubt, Borderline, Cutoff
<1>2. Cutoff(triage)' = Cutoff(triage)
  BY DEF vars
<1>3. Shape' /\ TriagedOnce' /\ AnswersAreRemembered' /\ OpinionsAreOnDoubts'
  BY <1>1 DEF vars, RankingInv, Shape, TriagedOnce, AnswersAreRemembered, Asks, OpinionsAreOnDoubts
<1>4. ExclusionsHaveEvidence' /\ MajorityPlaces'
  BY <1>2 DEF vars, RankingInv, ExclusionsHaveEvidence, MajorityPlaces
<1>5. EveryoneIsPlaced'
  <2>1. /\ pc' = pc /\ shortlist' = shortlist /\ EveryoneIsPlaced
        /\ triage' = triage /\ outcome' = outcome /\ opinion' = opinion
        /\ (Refs(shortlist.entries \o shortlist.below))' = Refs(shortlist.entries \o shortlist.below)
    BY DEF vars, RankingInv, Refs
  <2>. QED
    BY <1>1, <2>1 DEF EveryoneIsPlaced
<1>. QED
  BY <1>3, <1>4, <1>5 DEF RankingInv

-----------------------------------------------------------------------------
(* The theorems.                                                           *)

\* runner.py, rank.py and ensemble.py: in every state of a run its parts agree.
\* Candidates are triaged once, after the screening; the memo holds the answers that
\* were given; second opinions are on candidates in doubt.
THEOREM RankingIsConsistent == Spec => []RankingInv
<1>1. Init => RankingInv
  BY RankingStarts
<1>2. RankingInv /\ [Next]_vars => RankingInv'
  <2>. SUFFICES ASSUME RankingInv, [Next]_vars PROVE RankingInv'
    OBVIOUS
  <2>1. ASSUME NEW c \in Candidates, Screen(c) PROVE RankingInv'
    BY <2>1, ScreenKeeps
  <2>2. ASSUME NEW c \in Candidates, Rescore(c) PROVE RankingInv'
    BY <2>2, RescoreKeeps
  <2>3. CASE Triage
    BY <2>3, TriageKeeps
  <2>4. CASE TriageFails
    BY <2>4, TriageFailsKeeps
  <2>5. CASE SortTriage
    BY <2>5, SortTriageKeeps
  <2>6. CASE CutShortlist
    BY <2>6, CutShortlistKeeps
  <2>7. CASE UNCHANGED vars
    BY <2>7, StutteringKeeps
  <2>. QED
    BY <2>1, <2>2, <2>3, <2>4, <2>5, <2>6, <2>7 DEF Next
<1>. QED
  BY <1>1, <1>2, PTL DEF Spec

\* judge.py: whenever the ensemble excludes a candidate, more than half of the replies
\* that arrived said no and quoted the profile, however many members it has.
THEOREM NobodyIsExcludedOnAnAssertion == Spec => []ExclusionsHaveEvidence
<1>1. RankingInv => ExclusionsHaveEvidence
  BY DEF RankingInv
<1>. QED
  BY <1>1, RankingIsConsistent, PTL

\* ensemble.py: with an odd number of votes the combined score is on the side of the
\* cutoff that most of the members voted for: one outlier moves nobody across it.
THEOREM MostMembersPlace == Spec => []MajorityPlaces
<1>1. RankingInv => MajorityPlaces
  BY DEF RankingInv
<1>. QED
  BY <1>1, RankingIsConsistent, PTL

\* runner.py and rank.py: a run that completes has everyone who passed the requirement
\* on the shortlist or below it, once and in order, whatever members failed.
THEOREM NobodyIsLost == Spec => []EveryoneIsPlaced
<1>1. RankingInv => EveryoneIsPlaced
  BY DEF RankingInv
<1>. QED
  BY <1>1, RankingIsConsistent, PTL

\* judge.py and rank.py: profiles that read the same get one answer to a preference, at
\* triage and from the ensemble, in whatever order the threads ask.
THEOREM EqualProfilesGetOneAnswer == Spec => []EqualProfilesAreJudgedAlike
<1>1. RankingInv => EqualProfilesAreJudgedAlike
  <2>. SUFFICES ASSUME RankingInv, NEW c \in Eligible, NEW d \in Eligible,
                       TextOf[c] = TextOf[d], Asks(c), Asks(d)
                PROVE  LET of(x) == {triage[i].answer : i \in {j \in DOMAIN triage : triage[j].ref = x}}
                               \cup {opinion[y].answer : y \in {z \in DOMAIN opinion : z = x /\ opinion[z] # NoOpinion}}
                       IN Cardinality(of(c) \cup of(d)) <= 1
    BY DEF EqualProfilesAreJudgedAlike
  <2> DEFINE of(x) == {triage[i].answer : i \in {j \in DOMAIN triage : triage[j].ref = x}}
                 \cup {opinion[y].answer : y \in {z \in DOMAIN opinion : z = x /\ opinion[z] # NoOpinion}}
             remembered == memo[TextOf[c]]
  <2>1. of(c) \subseteq {remembered} /\ of(d) \subseteq {remembered}
    BY DEF RankingInv, AnswersAreRemembered
  <2>. HIDE DEF of, remembered
  <2>2. IsFiniteSet({remembered}) /\ Cardinality({remembered}) = 1
    BY FS_Singleton
  <2>3. of(c) \cup of(d) \in SUBSET {remembered}
    BY <2>1
  <2>4. Cardinality(of(c) \cup of(d)) <= 1
    BY <2>2, <2>3, FS_Subset
  <2>. QED
    BY <2>4 DEF of
<1>. QED
  BY <1>1, RankingIsConsistent, PTL
=============================================================================
