------------------------ MODULE ChunkBoundariesProofs ------------------------
(***************************************************************************)
(* Proofs about ChunkBoundaries, for every text, every configuration and   *)
(* every hierarchy of markers.                                             *)
(***************************************************************************)
EXTENDS ChunkBoundaries, FiniteSetTheorems, WellFoundedInduction, TLAPS

\* Unless the repeated words have filled the limit, the cursor has only moved
\* forward: the chunks so far lie before it, in order.
OrderInv ==
    \/ Filled
    \/ /\ cursor \in Nat
       /\ \A k \in DOMAIN chunks : chunks[k].raw[2] <= Reached
       /\ \A j, k \in DOMAIN chunks : j < k => chunks[j].raw[2] <= chunks[k].raw[1]

\* The loop goes on while there is text.
LoopInv == pc # "done" => cursor < Size /\ 0 < Size

\* The previous chunk, if it has any text, has a word.
PrevInv == prev[1] < prev[2] => Letters(prev[1], prev[2]) # {}

ChunkInv == TypeOK /\ LoopInv /\ PrevInv /\ NothingLost /\ OrderInv

-----------------------------------------------------------------------------
(* Least and greatest numbers, which Min and Max choose. *)

\* A set of natural numbers has a least one.
LEMMA LeastNat ==
  ASSUME NEW S \in SUBSET Nat, S # {}
  PROVE  \E x \in S : \A y \in S : x <= y
<1>1. \E x \in S : \A y \in S : ~ (<<y, x>> \in OpToRel(<, Nat))
  BY NatLessThanWellFounded, WFMin
<1>2. \A x, y \in Nat : y < x => <<y, x>> \in OpToRel(<, Nat)
  <2>1. \A x, y \in Nat : y < x => <<y, x>> \in {ss \in Nat \X Nat : ss[1] < ss[2]}
    OBVIOUS
  <2>2. QED
    BY <2>1, Zenon DEF OpToRel
<1>3. \E x \in S : \A y \in S : ~(y < x)
  BY <1>1, <1>2, Zenon
<1>4. QED
  BY <1>3

\* A set of integers with an upper bound has a greatest one.
LEMMA GreatestInt ==
  ASSUME NEW n \in Int, NEW S \in SUBSET Int, S # {}, \A y \in S : y <= n
  PROVE  \E x \in S : \A y \in S : x >= y
<1> DEFINE T == {k \in Nat : n - k \in S}
<1>1. T # {}
  <2>1. PICK x \in S : TRUE
    OBVIOUS
  <2>2. n - x \in Nat /\ n - (n - x) = x
    OBVIOUS
  <2>3. QED
    BY <2>2
<1>2. PICK k \in T : \A y \in T : k <= y
  <2>1. T \in SUBSET Nat
    OBVIOUS
  <2> HIDE DEF T
  <2>2. QED
    BY <1>1, <2>1, LeastNat
<1>3. ASSUME NEW y \in S PROVE n - k >= y
  <2>1. n - y \in Nat /\ n - (n - y) = y
    OBVIOUS
  <2>2. k <= n - y
    BY <1>2, <2>1
  <2>3. QED
    BY <2>1, <2>2
<1>4. QED
  BY <1>3

\* Min is the least one.
LEMMA MinIsLeast ==
  ASSUME NEW S \in SUBSET Nat, S # {}
  PROVE  Min(S) \in S /\ \A y \in S : Min(S) <= y
BY LeastNat DEF Min

\* Max is the greatest one.
LEMMA MaxIsGreatest ==
  ASSUME NEW n \in Int, NEW S \in SUBSET Int, S # {}, \A y \in S : y <= n
  PROVE  Max(S) \in S /\ \A y \in S : Max(S) >= y
BY GreatestInt DEF Max

\* A fraction of a number is no more than the number.
LEMMA FractionBound ==
  ASSUME NEW n \in Nat, NEW num \in Nat, NEW den \in Nat \ {0}, num <= den
  PROVE  (n * num) \div den \in Nat /\ (n * num) \div den <= n
<1>1. PICK x \in Nat : x = n * num
  OBVIOUS
<1>2. x <= n * den
  BY <1>1
<1>3. x \div den \in Nat
  OBVIOUS
<1>4. x \div den <= n
  BY <1>2
<1>5. QED
  BY <1>1, <1>3, <1>4

-----------------------------------------------------------------------------
(* Letters and words. *)

\* What strip returns lies in the slice and has all its letters.
LEMMA StripKeeps ==
  ASSUME NEW a \in Nat, NEW b \in Nat, a <= b
  PROVE  /\ Strip(a, b)[1] \in Nat /\ Strip(a, b)[2] \in Nat
         /\ a <= Strip(a, b)[1] /\ Strip(a, b)[1] <= Strip(a, b)[2] /\ Strip(a, b)[2] <= b
         /\ Strip(a, b) = <<Strip(a, b)[1], Strip(a, b)[2]>>
         /\ Letters(Strip(a, b)[1], Strip(a, b)[2]) = Letters(a, b)
<1>1. CASE Letters(a, b) = {}
  <2>1. Strip(a, b) = <<a, a>> /\ Letters(a, a) = {}
    BY <1>1 DEF Strip, Letters
  <2>2. /\ Strip(a, b)[1] = a /\ Strip(a, b)[2] = a
        /\ Strip(a, b) = <<Strip(a, b)[1], Strip(a, b)[2]>>
    BY <2>1
  <2>3. Letters(Strip(a, b)[1], Strip(a, b)[2]) = Letters(a, b)
    BY <1>1, <2>1, <2>2
  <2>4. QED
    BY <2>2, <2>3
<1>2. CASE Letters(a, b) # {}
  <2>1. PICK S \in SUBSET Nat : S = Letters(a, b)
    <3>1. Letters(a, b) \in SUBSET Nat
      BY DEF Letters
    <3>2. QED
      BY <3>1
  <2>2. \A i \in S : a <= i /\ i < b /\ i <= b
    BY <2>1 DEF Letters
  <2>3. PICK lo \in S : lo = Min(S) /\ \A y \in S : lo <= y
    BY <1>2, <2>1, MinIsLeast
  <2>4. PICK hi \in S : hi = Max(S) /\ \A y \in S : hi >= y
    <3>1. S \in SUBSET Int /\ b \in Int
      BY <2>1
    <3>2. QED
      BY <1>2, <2>1, <2>2, <3>1, MaxIsGreatest
  <2>5. Strip(a, b) = <<lo, hi + 1>>
    BY <1>2, <2>1, <2>3, <2>4 DEF Strip
  <2>6. Letters(lo, hi + 1) = Letters(a, b)
    <3>1. ASSUME NEW i \in Letters(a, b) PROVE i \in Letters(lo, hi + 1)
      BY <2>1, <2>2, <2>3, <2>4 DEF Letters
    <3>2. ASSUME NEW i \in Letters(lo, hi + 1) PROVE i \in Letters(a, b)
      BY <2>1, <2>2, <2>3, <2>4 DEF Letters
    <3>3. QED
      BY <3>1, <3>2
  <2>7. QED
    BY <2>2, <2>3, <2>4, <2>5, <2>6
<1>3. QED
  BY <1>1, <1>2

\* A slice from a to b that may also be empty because b comes before a.
LEMMA StripSlice ==
  ASSUME NEW a \in Nat, NEW b \in Nat, NEW n \in Nat, a <= n, b <= n
  PROVE  \E from, to \in 0..n :
           /\ Strip(a, b) = <<from, to>> /\ a <= from /\ from <= to /\ (a <= b => to <= b)
           /\ Letters(from, to) = Letters(a, b)
           /\ from < to => Letters(from, to) # {}
<1>1. ASSUME Letters(a, b) = {} PROVE Strip(a, b) = <<a, a>>
  BY <1>1 DEF Strip
<1>2. Letters(a, a) = {} /\ (~(a <= b) => Letters(a, b) = {})
  BY DEF Letters
<1>3. CASE Letters(a, b) = {}
  BY <1>1, <1>2, <1>3
<1>4. CASE Letters(a, b) # {}
  <2>1. a <= b
    BY <1>2, <1>4
  <2>2. PICK from \in Nat, to \in Nat :
          /\ Strip(a, b) = <<from, to>> /\ a <= from /\ from <= to /\ to <= b
          /\ Letters(from, to) = Letters(a, b)
    BY <2>1, StripKeeps
  <2>3. from \in 0..n /\ to \in 0..n
    BY <2>2
  <2>4. QED
    BY <1>4, <2>1, <2>2, <2>3
<1>5. QED
  BY <1>3, <1>4

\* A slice has at most one word per character.
LEMMA WordsBounded ==
  ASSUME NEW a \in Nat, NEW b \in Nat
  PROVE  /\ IsFiniteSet(Words(a, b)) /\ WordCount(a, b) \in Nat
         /\ a <= b => WordCount(a, b) <= b - a
<1>1. PICK S \in SUBSET (a..(b - 1)) : S = Words(a, b)
  BY DEF Words, Letters
<1>2. IsFiniteSet(a..(b - 1)) /\ Cardinality(a..(b - 1)) = IF a > b - 1 THEN 0 ELSE b - 1 - a + 1
  BY FS_Interval
<1>3. IsFiniteSet(S) /\ Cardinality(S) <= Cardinality(a..(b - 1)) /\ Cardinality(S) \in Nat
  BY <1>2, FS_Subset, FS_CardinalityType
<1>4. QED
  BY <1>1, <1>2, <1>3 DEF WordCount

\* The last words of a slice: for every number of them up to all there is a word to
\* start from.
LEMMA LastWords ==
  ASSUME NEW a \in Nat, NEW b \in Nat, NEW n \in Nat \ {0}, n <= WordCount(a, b)
  PROVE  \E i \in Words(a, b) : WordCount(i, b) = n
<1> DEFINE W == Words(a, b)
           T == {i \in W : WordCount(i, b) >= n}
<1>1. W \in SUBSET Nat /\ \A i \in W : a <= i /\ i < b /\ i <= b
  BY DEF Words, Letters
<1>2. \A i \in W : WordCount(i, b) \in Nat
  BY <1>1, WordsBounded
<1>3. IsFiniteSet(W) /\ Cardinality(W) \in Nat /\ n <= Cardinality(W)
  BY WordsBounded DEF WordCount
<1>4. \* the words from a word on are that word and the later ones
      ASSUME NEW i \in W PROVE Words(i, b) = {j \in W : i <= j}
  BY <1>1 DEF Words, Letters
<1>5. T # {}
  <2>1. W # {}
    BY <1>3, FS_EmptySet
  <2>2. PICK i \in W : \A j \in W : i <= j
    BY <1>1, <2>1, LeastNat
  <2>3. Words(i, b) = W
    BY <1>4, <2>2
  <2>4. WordCount(i, b) = Cardinality(W)
    BY <2>3 DEF WordCount
  <2>5. QED
    BY <1>3, <2>4
<1>6. PICK i \in T : \A j \in T : i >= j
  <2>1. T \in SUBSET Int /\ b \in Int /\ \A j \in T : j <= b
    BY <1>1
  <2> HIDE DEF T
  <2>2. QED
    BY <1>5, <2>1, GreatestInt
<1>7. i \in W /\ WordCount(i, b) >= n /\ WordCount(i, b) \in Nat
  BY <1>2
<1> DEFINE R == {j \in W : i <= j} \ {i}
<1>8. IsFiniteSet(R) /\ Cardinality(R) = WordCount(i, b) - 1
  <2>1. IsFiniteSet(Words(i, b)) /\ Words(i, b) = {j \in W : i <= j} /\ i \in Words(i, b)
    <3>1. i \in Nat /\ i <= i
      BY <1>1, <1>7
    <3>2. IsFiniteSet(Words(i, b))
      BY <3>1, WordsBounded
    <3>3. Words(i, b) = {j \in W : i <= j}
      BY <1>4, <1>7
    <3>4. i \in Words(i, b)
      BY <1>7, <3>1, <3>3
    <3>5. QED
      BY <3>2, <3>3, <3>4
  <2>2. QED
    BY <2>1, FS_RemoveElement DEF WordCount
<1>9. CASE R = {}
  <2>1. Cardinality(R) = 0
    BY <1>9, FS_EmptySet
  <2>2. QED
    BY <1>7, <1>8, <2>1
<1>10. CASE R # {}
  <2>1. R \in SUBSET Nat
    BY <1>1
  <2>2. PICK j \in R : \A k \in R : j <= k
    <3> HIDE DEF R
    <3>1. QED
      BY <1>10, <2>1, LeastNat
  <2>3. j \in W /\ i < j
    BY <1>1, <1>7
  <2>4. Words(j, b) = R
    <3>1. Words(j, b) = {k \in W : j <= k}
      BY <1>4, <2>3
    <3>2. QED
      BY <1>1, <1>7, <2>2, <2>3, <3>1
  <2>5. j \notin T
    BY <1>1, <1>6, <1>7, <2>3
  <2>6. WordCount(j, b) < n /\ WordCount(j, b) = Cardinality(R)
    BY <1>2, <2>3, <2>4, <2>5 DEF WordCount
  <2>7. WordCount(i, b) = n
    BY <1>7, <1>8, <2>6
  <2>8. QED
    BY <1>7, <2>7
<1>11. QED
  BY <1>9, <1>10

-----------------------------------------------------------------------------
(* What the helpers of the loop return. *)

\* A break that is found lies in the window, right after a marker.
LEMMA BreakInWindow ==
  ASSUME NEW a \in Nat, NEW b \in Nat, NEW target \in Int, NEW lo \in Int, NEW hi \in Int,
         NearestBreak(a, b, target, lo, hi) # NoBreak
  PROVE  /\ NearestBreak(a, b, target, lo, hi) \in Nat
         /\ NearestBreak(a, b, target, lo, hi) \in lo..hi
         /\ NearestBreak(a, b, target, lo, hi) \in a..b
         /\ \E m \in DOMAIN Markers :
                NearestBreak(a, b, target, lo, hi) \in FindBreaks(a, b, Markers[m])
<1> DEFINE In(m) == FindBreaks(a, b, Markers[m]) \cap lo..hi
           Best == {m \in DOMAIN Markers : In(m) # {}}
           Nearest(p, S) == \A q \in S :
               \/ Distance(p, target) < Distance(q, target)
               \/ Distance(p, target) = Distance(q, target) /\ p <= q
<1>1. ASSUME NEW m \in DOMAIN Markers PROVE In(m) \in SUBSET Nat /\ \A p \in In(m) : p \in a..b
  <2>1. Markers \in Seq(Seq(Characters))
    BY ChunkAssumption
  <2>2. Markers[m] \in Seq(Characters)
    BY <2>1
  <2>3. Len(Markers[m]) \in Nat
    BY <2>2
  <2>4. QED
    BY <2>3 DEF FindBreaks
<1>2. DOMAIN Markers \in SUBSET Nat
  <2>1. Markers \in Seq(Seq(Characters))
    BY ChunkAssumption
  <2>2. DOMAIN Markers = 1..Len(Markers) /\ Len(Markers) \in Nat
    BY <2>1
  <2>3. QED
    BY <2>2
<1>3. Best # {}
  BY DEF NearestBreak
<1>4. PICK m \in Best : m = Min(Best)
  <2>1. Best \in SUBSET Nat
    BY <1>2
  <2> HIDE DEF Best
  <2>2. QED
    BY <1>3, <2>1, MinIsLeast
<1>5. PICK S \in SUBSET Nat : S = In(m) /\ S # {} /\ \A p \in S : p \in a..b /\ p \in lo..hi
  <2>1. In(m) \in SUBSET Nat /\ In(m) # {} /\ \A p \in In(m) : p \in a..b /\ p \in lo..hi
    BY <1>1, <1>4
  <2>2. QED
    BY <2>1
<1>6. NearestBreak(a, b, target, lo, hi) = CHOOSE p \in S : Nearest(p, S)
  BY <1>3, <1>4, <1>5 DEF NearestBreak
<1>7. \A p \in S : Distance(p, target) \in Nat
  BY DEF Distance, Most
<1>8. \E p \in S : Nearest(p, S)
  <2> DEFINE D == {Distance(p, target) : p \in S}
  <2>1. D \in SUBSET Nat /\ D # {}
    BY <1>5, <1>7
  <2>2. PICK d \in D : \A e \in D : d <= e
    <3> HIDE DEF D
    <3>1. QED
      BY <2>1, LeastNat
  <2> DEFINE E == {p \in S : Distance(p, target) = d}
  <2>3. E \in SUBSET Nat /\ E # {}
    OBVIOUS
  <2>4. PICK p \in E : \A q \in E : p <= q
    <3> HIDE DEF E
    <3>1. QED
      BY <2>3, LeastNat
  <2>5. ASSUME NEW q \in S
        PROVE  \/ Distance(p, target) < Distance(q, target)
               \/ Distance(p, target) = Distance(q, target) /\ p <= q
    <3>1. d <= Distance(q, target) /\ Distance(p, target) = d /\ d \in Nat
          /\ Distance(q, target) \in Nat
      BY <1>7, <2>1, <2>2
    <3>2. CASE Distance(q, target) = d
      BY <2>4, <3>1, <3>2
    <3>3. CASE Distance(q, target) # d
      BY <3>1, <3>3
    <3>4. QED
      BY <3>2, <3>3
  <2>6. QED
    BY <2>5
<1>9. NearestBreak(a, b, target, lo, hi) \in S
  BY <1>6, <1>8
<1>10. m \in DOMAIN Markers /\ S \in SUBSET FindBreaks(a, b, Markers[m])
  BY <1>4, <1>5
<1>11. QED
  BY <1>5, <1>9, <1>10

\* The end of the word that completes a fraction lies in the slice.
LEMMA FractionInSlice ==
  ASSUME NEW a \in Nat, NEW b \in Nat, a <= b, NEW num \in Nat, NEW den \in Nat \ {0}
  PROVE  CharForWordFraction(a, b, num, den) \in a..b
<1> DEFINE count == Most(1, (WordCount(a, b) * num) \div den)
           S == {b} \cup {p \in (a + 1)..b : WordCount(a, p) = count /\ IsSpace(p)}
<1>1. S \in SUBSET Nat /\ S # {} /\ \A p \in S : p \in a..b
  OBVIOUS
<1>2. CharForWordFraction(a, b, num, den) = Min(S)
  BY DEF CharForWordFraction
<1> HIDE DEF S
<1>3. QED
  BY <1>1, <1>2, MinIsLeast

\* int() of a quotient of one or more is one or more.
LEMMA TruncateAtLeast ==
  ASSUME NEW n \in Int, NEW d \in Nat \ {0}
  PROVE  Truncate(n, d) \in Int /\ (n >= d => Truncate(n, d) >= 1)
<1>1. CASE n >= 0
  <2>1. n \in Nat /\ n \div d \in Int /\ (n >= d => n \div d >= 1)
    BY <1>1
  <2>2. QED
    BY <1>1, <2>1 DEF Truncate
<1>2. CASE ~(n >= 0)
  <2>1. (- n) \div d \in Int /\ ~(n >= d)
    BY <1>2
  <2>2. QED
    BY <1>2, <2>1 DEF Truncate
<1>3. QED
  BY <1>1, <1>2

-----------------------------------------------------------------------------
(* The state of the loop. *)

\* The numbers that the loop computes with.
LEMMA LoopNumbers ==
  ASSUME ChunkInv
  PROVE  /\ Size \in Nat /\ cursor \in Int /\ Here \in 0..Size
         /\ pc = "loop" => cursor < Size /\ Here < Size /\ (cursor >= 0 => Here = cursor)
         /\ prev[1] \in 0..Size /\ prev[2] \in 0..Size
         /\ config.target \in Nat /\ config.hard \in Nat \ {0}
         /\ config.overlap[1] \in Nat /\ config.overlap[2] \in Nat \ {0}
         /\ config.overlap[1] < config.overlap[2]
<1>1. text \in Texts /\ config \in Configs /\ cursor \in Int /\ prev \in Intervals
  BY DEF ChunkInv, TypeOK
<1>2. Size \in Nat
  BY <1>1, ChunkAssumption DEF Size
<1>3. prev[1] \in 0..Size /\ prev[2] \in 0..Size
  BY <1>1 DEF Intervals
<1>4. /\ config.target \in Nat /\ config.hard \in Nat \ {0}
      /\ config.overlap[1] \in Nat /\ config.overlap[2] \in Nat \ {0}
      /\ config.overlap[1] < config.overlap[2]
  BY <1>1, ChunkAssumption
<1>5. pc = "loop" => cursor < Size /\ 0 < Size
  BY <1>2 DEF ChunkInv, LoopInv
<1>6. Here \in 0..Size /\ (pc = "loop" => Here < Size /\ (cursor >= 0 => Here = cursor))
  BY <1>1, <1>2, <1>5 DEF Here, Bound, Least, Most
<1>7. QED
  BY <1>1, <1>2, <1>3, <1>4, <1>5, <1>6

\* A slice with a letter has a word: the one that begins with its first letter.
LEMMA LetterInWord ==
  ASSUME NEW a \in Nat, NEW b \in Nat, Letters(a, b) # {}
  PROVE  WordCount(a, b) >= 1
<1>1. Letters(a, b) \in SUBSET Nat
  BY DEF Letters
<1>2. PICK m \in Letters(a, b) : \A y \in Letters(a, b) : m <= y
  BY <1>1, LeastNat
<1>3. m \in Nat /\ a <= m /\ m < b
  BY <1>1 DEF Letters
<1>4. m = a \/ IsSpace(m - 1)
  <2>1. SUFFICES ASSUME m # a, ~IsSpace(m - 1) PROVE FALSE
    OBVIOUS
  <2>2. m - 1 \in Letters(a, b)
    BY <1>3, <2>1 DEF Letters
  <2>3. QED
    BY <1>2, <1>3, <2>2
<1>5. Words(a, b) # {}
  BY <1>4 DEF Words
<1>6. QED
  BY <1>5, WordsBounded, FS_EmptySet DEF WordCount

\* A stripped slice has no other words.
LEMMA StripWords ==
  ASSUME NEW a \in Nat, NEW b \in Nat, a <= b
  PROVE  WordCount(Strip(a, b)[1], Strip(a, b)[2]) <= WordCount(a, b)
<1>1. PICK from \in Nat, to \in Nat :
        /\ from = Strip(a, b)[1] /\ to = Strip(a, b)[2] /\ a <= from
        /\ Letters(from, to) = Letters(a, b)
  BY StripKeeps
<1>2. ASSUME NEW i \in Words(from, to) PROVE i \in Words(a, b)
  <2>1. i \in Letters(a, b) /\ (i = from \/ IsSpace(i - 1))
    BY <1>1 DEF Words
  <2>2. CASE i = from /\ i # a
    <3>1. i \in Nat /\ i - 1 \in a..(b - 1) /\ i - 1 \notin Letters(from, to)
      BY <1>1, <2>1, <2>2 DEF Letters
    <3>2. IsSpace(i - 1)
      BY <1>1, <3>1 DEF Letters
    <3>3. QED
      BY <2>1, <3>2 DEF Words
  <2>3. CASE ~(i = from /\ i # a)
    BY <2>1, <2>3 DEF Words
  <2>4. QED
    BY <2>2, <2>3
<1>3. PICK S, T : S = Words(a, b) /\ T = Words(from, to)
  OBVIOUS
<1>4. IsFiniteSet(S) /\ T \in SUBSET S
  BY <1>2, <1>3, WordsBounded
<1>5. Cardinality(T) <= Cardinality(S)
  BY <1>4, FS_Subset
<1>6. QED
  BY <1>1, <1>3, <1>5 DEF WordCount

\* The end of a slice has no more words than the slice: where it begins within a
\* word, that word begins before it.
LEMMA SuffixWords ==
  ASSUME NEW a \in Nat, NEW m \in Nat, NEW b \in Nat, a <= m, m <= b
  PROVE  WordCount(m, b) <= WordCount(a, b)
<1>1. PICK S, T : S = Words(a, b) /\ T = Words(m, b)
  OBVIOUS
<1>2. IsFiniteSet(S) /\ IsFiniteSet(T)
  BY <1>1, WordsBounded
<1>3. \A i \in T : i \in S \/ i = m
  BY <1>1 DEF Words, Letters
<1>4. CASE m \in T /\ m \notin S
  <2>1. m > a /\ ~IsSpace(m - 1) /\ m - 1 \in Letters(a, m)
    BY <1>1, <1>4 DEF Words, Letters
  <2>2. WordCount(a, m) >= 1 /\ IsFiniteSet(Words(a, m))
    BY <2>1, LetterInWord, WordsBounded
  <2>3. Words(a, m) # {}
    BY <2>2, FS_EmptySet DEF WordCount
  <2>4. PICK i : i \in Words(a, m)
    BY <2>3
  <2>5. i \in S /\ i \notin T
    BY <1>1, <2>4 DEF Words, Letters
  <2>6. T \ {m} \in SUBSET (S \ {i})
    BY <1>3, <2>5
  <2>7. /\ IsFiniteSet(S \ {i}) /\ Cardinality(S \ {i}) = Cardinality(S) - 1
        /\ Cardinality(T \ {m}) = Cardinality(T) - 1
    BY <1>2, <1>4, <2>5, FS_RemoveElement
  <2>8. Cardinality(T \ {m}) <= Cardinality(S \ {i})
    BY <2>6, <2>7, FS_Subset
  <2>9. Cardinality(S) \in Nat /\ Cardinality(T) \in Nat
    BY <1>2, FS_CardinalityType
  <2>10. QED
    BY <1>1, <2>7, <2>8, <2>9 DEF WordCount
<1>5. CASE ~(m \in T /\ m \notin S)
  <2>1. T \in SUBSET S
    BY <1>3, <1>5
  <2>2. Cardinality(T) <= Cardinality(S)
    BY <1>2, <2>1, FS_Subset
  <2>3. QED
    BY <1>1, <2>2 DEF WordCount
<1>6. QED
  BY <1>4, <1>5

\* The repeated words are a slice of the text, and no more than the words of the
\* previous chunk.
LEMMA PrefixInText ==
  ASSUME ChunkInv, pc = "loop"
  PROVE  OverlapPrefix \in Intervals /\ OverlapWords <= WordCount(prev[1], prev[2])
<1>1. PICK a \in 0..Size, b \in 0..Size : a = prev[1] /\ b = prev[2]
  BY LoopNumbers
<1>2. PICK num \in Nat, den \in Nat \ {0} :
        num = config.overlap[1] /\ den = config.overlap[2] /\ num < den
  BY LoopNumbers
<1>3. Size \in Nat
  BY LoopNumbers
<1> DEFINE start == CharForWordFraction(a, b, den - num, den)
           slack == Most(MinSlack, (b - a) \div 10)
           snap == NearestBreak(a, b, start, Most(a, start - slack), Least(b, start + slack))
           count == Most(1, (WordCount(a, b) * num) \div den)
<1>4. CASE ~Overlaps
  <2>1. OverlapPrefix = <<0, 0>>
    BY <1>4 DEF OverlapPrefix
  <2>2. Words(0, 0) = {}
    BY DEF Words, Letters
  <2>3. WordCount(0, 0) = 0 /\ WordCount(a, b) \in Nat
    BY <1>3, <2>2, FS_EmptySet, WordsBounded DEF WordCount
  <2>4. OverlapWords <= WordCount(a, b)
    BY <2>1, <2>3 DEF OverlapWords
  <2>5. QED
    BY <1>1, <1>3, <2>1, <2>4 DEF Intervals
<1>5. CASE Overlaps /\ snap # NoBreak
  <2>1. a < b /\ OverlapPrefix = Strip(snap, b)
    BY <1>1, <1>2, <1>5 DEF Overlaps, OverlapPrefix
  <2>2. a \in Nat /\ b \in Nat /\ a <= b /\ den - num \in Nat
    BY <1>2, <1>3, <2>1
  <2>3. start \in Int
    BY <2>2, FractionInSlice
  <2>4. slack \in Int
    BY <2>2, ChunkAssumption DEF Most
  <2> HIDE DEF start, slack
  <2>5. Most(a, start - slack) \in Int /\ Least(b, start + slack) \in Int
    BY <2>2, <2>3, <2>4 DEF Most, Least
  <2>6. snap \in Nat /\ snap \in a..b
    BY <1>5, <2>2, <2>3, <2>5, BreakInWindow
  <2> HIDE DEF snap
  <2>7. /\ Strip(snap, b)[1] \in 0..Size /\ Strip(snap, b)[2] \in 0..Size
        /\ Strip(snap, b) = <<Strip(snap, b)[1], Strip(snap, b)[2]>>
    <3>1. snap <= b /\ b <= Size
      BY <1>3, <2>2, <2>6
    <3>2. QED
      BY <1>3, <2>2, <2>6, <3>1, StripKeeps
  <2>8. OverlapWords <= WordCount(a, b)
    <3>1. snap <= b /\ a <= snap
      BY <2>2, <2>6
    <3>2. WordCount(Strip(snap, b)[1], Strip(snap, b)[2]) <= WordCount(snap, b)
      BY <2>2, <2>6, <3>1, StripWords
    <3>3. WordCount(snap, b) <= WordCount(a, b)
      BY <2>2, <2>6, <3>1, SuffixWords
    <3>4. PICK x \in Nat, y \in Nat : x = Strip(snap, b)[1] /\ y = Strip(snap, b)[2]
      BY <1>3, <2>7
    <3>5. WordCount(x, y) \in Nat /\ WordCount(snap, b) \in Nat /\ WordCount(a, b) \in Nat
      BY <2>2, <2>6, WordsBounded
    <3>6. OverlapWords = WordCount(x, y)
      BY <2>1, <3>4 DEF OverlapWords
    <3>7. QED
      BY <3>2, <3>3, <3>4, <3>5, <3>6
  <2>9. QED
    BY <1>1, <2>1, <2>7, <2>8 DEF Intervals
<1>6. CASE Overlaps /\ snap = NoBreak
  <2>1. a < b /\ OverlapPrefix = <<CHOOSE i \in Words(a, b) : WordCount(i, b) = count, b>>
    BY <1>1, <1>2, <1>6 DEF Overlaps, OverlapPrefix
  <2>2. a \in Nat /\ b \in Nat
    BY <1>3
  <2>3. WordCount(a, b) \in Nat /\ WordCount(a, b) >= 1
    <3>1. Letters(a, b) # {}
      BY <1>1, <2>1 DEF ChunkInv, PrevInv
    <3>2. QED
      BY <2>2, <3>1, LetterInWord, WordsBounded
  <2>4. count \in Nat \ {0} /\ count <= WordCount(a, b)
    <3>1. ASSUME NEW n \in Nat, n >= 1
          PROVE  Most(1, (n * num) \div den) \in Nat \ {0} /\ Most(1, (n * num) \div den) <= n
      <4>1. (n * num) \div den \in Nat /\ (n * num) \div den <= n
        <5>1. num <= den
          BY <1>2
        <5>2. QED
          BY <5>1, FractionBound
      <4>2. QED
        BY <3>1, <4>1 DEF Most
    <3>2. QED
      BY <2>3, <3>1
  <2> HIDE DEF count
  <2>5. \E i \in Words(a, b) : WordCount(i, b) = count
    BY <2>2, <2>4, LastWords
  <2>6. PICK i \in Words(a, b) : OverlapPrefix = <<i, b>> /\ WordCount(i, b) = count
    BY <2>1, <2>5
  <2>7. i \in 0..Size
    BY <1>3, <2>2 DEF Words, Letters
  <2>8. OverlapWords <= WordCount(a, b)
    BY <2>4, <2>6 DEF OverlapWords
  <2>9. QED
    BY <1>1, <2>6, <2>7, <2>8 DEF Intervals
<1>7. QED
  BY <1>4, <1>5, <1>6

\* Counts of words, against characters.
LEMMA LoopCounts ==
  ASSUME ChunkInv, pc = "loop"
  PROVE  /\ OverlapWords \in Nat /\ RemainingWords \in Nat
         /\ RemainingWords <= Size - Here
<1>1. Size \in Nat /\ Here \in Nat /\ Here < Size
  BY LoopNumbers
<1>2. OverlapPrefix[1] \in Nat /\ OverlapPrefix[2] \in Nat
  BY <1>1, PrefixInText DEF Intervals
<1>3. PICK x \in Nat, y \in Nat : x = OverlapPrefix[1] /\ y = OverlapPrefix[2]
  BY <1>2
<1>4. WordCount(x, y) \in Nat
  BY WordsBounded
<1>5. OverlapWords \in Nat
  BY <1>3, <1>4 DEF OverlapWords
<1>6. WordCount(Here, Size) \in Nat /\ WordCount(Here, Size) <= Size - Here
  BY <1>1, WordsBounded
<1>7. QED
  BY <1>5, <1>6 DEF RemainingWords

\* So many words take at least as many characters.
LEMMA CharsAtLeast ==
  ASSUME ChunkInv, pc = "loop", NEW num \in Int, NEW den \in Nat \ {0}
  PROVE  Chars(num, den) \in Int /\ (num >= den => Chars(num, den) >= 1)
<1>1. PICK rest \in Nat \ {0} : rest = Size - Here
  BY LoopNumbers
<1>2. PICK words \in Nat \ {0} : words = Most(1, RemainingWords) /\ words <= rest
  BY <1>1, LoopCounts DEF Most
<1>3. Chars(num, den) = Truncate(num * rest, den * words)
  BY <1>1, <1>2 DEF Chars
<1>4. num * rest \in Int /\ den * words \in Nat \ {0}
  OBVIOUS
<1>5. num >= den => num * rest >= den * words
  <2>1. num >= den => num * rest >= den * rest
    OBVIOUS
  <2>2. den * rest >= den * words
    BY <1>2
  <2>3. QED
    BY <2>1, <2>2
<1>6. QED
  BY <1>3, <1>4, <1>5, TruncateAtLeast

\* A break that the loop finds is after the cursor: the window starts at least one
\* character further on.  It is a break within the hard limit.
LEMMA BreakAhead ==
  ASSUME ChunkInv, pc = "loop", BreakPos # NoBreak
  PROVE  /\ BreakPos \in Nat /\ BreakPos > cursor /\ BreakPos <= Size
         /\ \E num \in Int : /\ num <= (config.hard - OverlapWords) * Tolerance[2]
                              /\ BreakPos <= cursor + Chars(num, Tolerance[2])
         /\ \E m \in DOMAIN Markers : BreakPos \in FindBreaks(0, Size, Markers[m])
<1>1. PICK size \in Nat, here \in Int, at \in Nat :
        size = Size /\ here = cursor /\ at = Here /\ at < size
  BY LoopNumbers
<1>2. PICK t1 \in Nat, t2 \in Nat \ {0} :
        t1 = Tolerance[1] /\ t2 = Tolerance[2] /\ t1 <= t2
  BY ChunkAssumption
<1>3. PICK over \in Nat, hard \in Nat : over = OverlapWords /\ hard = config.hard
  BY LoopNumbers, LoopCounts
<1>4. PICK target \in Nat : target = EffectiveTarget /\ target * (t2 - t1) >= t2
  <2>1. MinTarget \in Nat /\ MinTarget * (t2 - t1) >= t2
    BY <1>2, ChunkAssumption
  <2>2. EffectiveTarget \in Nat /\ EffectiveTarget >= MinTarget
    BY <1>3, <2>1, LoopNumbers DEF EffectiveTarget, Most
  <2>3. PICK target \in Nat : target = EffectiveTarget /\ target >= MinTarget
    BY <2>2
  <2>4. t2 - t1 \in Nat
    BY <1>2
  <2>5. \A m, n, d \in Nat : m >= n => m * d >= n * d
    OBVIOUS
  <2>6. target * (t2 - t1) >= MinTarget * (t2 - t1)
    BY <2>1, <2>3, <2>4, <2>5
  <2>7. target * (t2 - t1) \in Nat /\ MinTarget * (t2 - t1) \in Nat
    BY <2>1, <2>4
  <2>8. QED
    BY <2>1, <2>3, <2>6, <2>7
<1> DEFINE far == Least(target * (t2 + t1), (hard - over) * t2)
           lo == Chars(target * (t2 - t1), t2)
           hi == Chars(far, t2)
           middle == Chars(target, 1)
<1>5. lo \in Int /\ lo >= 1
  <2>1. target * (t2 - t1) \in Int
    BY <1>2
  <2>2. PICK n \in Int : n = target * (t2 - t1) /\ n >= t2
    BY <1>4, <2>1
  <2>3. Chars(n, t2) \in Int /\ Chars(n, t2) >= 1
    BY <2>2, CharsAtLeast
  <2>4. QED
    BY <2>2, <2>3
<1>6. far \in Int /\ far <= (hard - over) * t2
  BY <1>2 DEF Least
<1> HIDE DEF far
<1>7. hi \in Int /\ middle \in Int
  BY <1>6, CharsAtLeast
<1>8. BreakPos = NearestBreak(0, size, here + middle, here + lo, here + Least(hi, size - at))
  BY <1>1, <1>2, <1>3, <1>4 DEF BreakPos, far
<1> HIDE DEF lo, hi, middle
<1>9. here + middle \in Int /\ here + lo \in Int /\ here + Least(hi, size - at) \in Int
  BY <1>5, <1>7 DEF Least
<1>10. /\ BreakPos \in Nat /\ BreakPos \in (here + lo)..(here + Least(hi, size - at))
       /\ BreakPos \in 0..size
       /\ \E m \in DOMAIN Markers : BreakPos \in FindBreaks(0, size, Markers[m])
  BY <1>8, <1>9, BreakInWindow
<1>11. PICK end \in Nat : end = BreakPos
  BY <1>10
<1>12. end > here /\ end <= size /\ end <= here + hi
  BY <1>1, <1>5, <1>7, <1>9, <1>10, <1>11 DEF Least
<1>13. \E num \in Int : /\ num <= (config.hard - OverlapWords) * Tolerance[2]
                        /\ BreakPos <= cursor + Chars(num, Tolerance[2])
  <2>1. far <= (config.hard - OverlapWords) * Tolerance[2]
    BY <1>2, <1>3, <1>6
  <2>2. BreakPos <= cursor + Chars(far, Tolerance[2])
    BY <1>1, <1>2, <1>11, <1>12 DEF hi
  <2>3. QED
    BY <1>6, <2>1, <2>2
<1>14. \E m \in DOMAIN Markers : BreakPos \in FindBreaks(0, Size, Markers[m])
  BY <1>1, <1>10
<1>15. QED
  BY <1>1, <1>11, <1>12, <1>13, <1>14

\* The hard split is after the cursor unless the repeated words fill the limit.  It
\* is after a space within the limit, or at the limit.
LEMMA HardAhead ==
  ASSUME ChunkInv, pc = "loop"
  PROVE  /\ HardSplit \in Int /\ (OverlapWords < config.hard => HardSplit > cursor)
         /\ HardChars \in Int /\ HardChars = Chars(config.hard - OverlapWords, 1)
         /\ \/ /\ HardSplit <= cursor + HardChars /\ HardSplit > cursor
               /\ cursor >= 0 => HardSplit <= Size /\ IsSpace(HardSplit - 1)
            \/ HardSplit = cursor + HardChars
<1>1. PICK size \in Nat, here \in Int, at \in Nat :
        size = Size /\ here = cursor /\ at = Here /\ (here >= 0 => at = here)
  BY LoopNumbers
<1>2. PICK over \in Nat, hard \in Nat : over = OverlapWords /\ hard = config.hard
  BY LoopNumbers, LoopCounts
<1>3. PICK limit \in Int : limit = HardChars /\ (over < hard => limit >= 1)
  <2>1. hard - over \in Int /\ 1 \in Nat \ {0} /\ (over < hard => hard - over >= 1)
    OBVIOUS
  <2>2. Chars(hard - over, 1) \in Int /\ (hard - over >= 1 => Chars(hard - over, 1) >= 1)
    BY <2>1, CharsAtLeast
  <2>3. HardChars = Chars(hard - over, 1)
    BY <1>2 DEF HardChars
  <2>4. QED
    BY <2>1, <2>2, <2>3
<1>4. PICK n \in Int : n = Least(limit, size - at) /\ n <= size - at /\ n <= limit
  BY DEF Least
<1>5. Candidates = (here + 1)..(here + n)
  BY <1>1, <1>3, <1>4 DEF Candidates
<1> DEFINE Ok(p) == At(p - 1) >= 0 /\ Char(At(p - 1)) \in {" ", "nl"}
<1>6. Spaces = {p \in (here + 1)..(here + n) : Ok(p)}
  BY <1>5 DEF Spaces
<1>7. ASSUME NEW p \in Int, p > here, here >= 0 PROVE Ok(p) => IsSpace(p - 1)
  <2>1. At(p - 1) = p - 1
    BY <1>7 DEF At
  <2>2. QED
    BY <2>1 DEF IsSpace
<1> HIDE DEF Ok
<1>8. PICK S \in SUBSET Int : /\ S = Spaces
                              /\ \A p \in S : p > here /\ p <= here + n /\ Ok(p)
  <2>1. \A p \in (here + 1)..(here + n) : p \in Int /\ p > here /\ p <= here + n
    OBVIOUS
  <2>2. QED
    BY <1>6, <2>1
<1>9. CASE S # {}
  <2>1. Max(S) \in S
    <3>1. here + n \in Int
      OBVIOUS
    <3>2. QED
      BY <1>8, <1>9, <3>1, MaxIsGreatest
  <2>2. PICK m \in Int : m = HardSplit /\ m > here /\ m <= here + n /\ Ok(m)
    BY <1>8, <1>9, <2>1 DEF HardSplit
  <2>3. m <= here + limit /\ (here >= 0 => m <= size)
    BY <1>1, <1>4, <2>2
  <2>4. here >= 0 => IsSpace(m - 1)
    BY <1>7, <2>2
  <2>5. QED
    BY <1>1, <1>2, <1>3, <2>2, <2>3, <2>4 DEF HardChars
<1>10. CASE S = {}
  <2>1. HardSplit = here + limit
    BY <1>1, <1>3, <1>8, <1>10 DEF HardSplit
  <2>2. QED
    BY <1>1, <1>2, <1>3, <2>1 DEF HardChars
<1>11. QED
  BY <1>9, <1>10

-----------------------------------------------------------------------------
(* A chunk is emitted. *)

\* An appended element and the ones before it.
LEMMA AppendElements ==
  ASSUME NEW S, NEW s \in Seq(S), NEW c \in S
  PROVE  /\ Append(s, c) \in Seq(S)
         /\ DOMAIN s = 1..Len(s) /\ DOMAIN Append(s, c) = 1..(Len(s) + 1) /\ Len(s) \in Nat
         /\ \A k \in DOMAIN s : Append(s, c)[k] = s[k]
         /\ Append(s, c)[Len(s) + 1] = c
OBVIOUS

\* With a chunk from the cursor to e, or none when there is nothing in it, the
\* chunks hold the text up to e.  They are in order unless the repeated words have
\* filled the limit.
LEMMA EmitKeeps ==
  ASSUME ChunkInv, pc = "loop", NEW e \in Nat, e <= Size, Emit(Strip(Here, e))
  PROVE  /\ chunks' \in Seq(Chunk)
         /\ Letters(0, e) \in SUBSET
              UNION {Letters(chunks'[k].raw[1], chunks'[k].raw[2]) : k \in DOMAIN chunks'}
         /\ \/ \E k \in DOMAIN chunks' :
                   WordCount(chunks'[k].prefix[1], chunks'[k].prefix[2]) >= config.hard
            \/ /\ OverlapWords < config.hard /\ cursor \in Nat
               /\ Here <= e =>
                    /\ \A k \in DOMAIN chunks' : chunks'[k].raw[2] <= e
                    /\ \A j, k \in DOMAIN chunks' : j < k => chunks'[j].raw[2] <= chunks'[k].raw[1]
<1>1. PICK here \in Nat, size \in Nat : here = Here /\ size = Size /\ here < size
  BY LoopNumbers
<1>2. PICK from \in 0..size, to \in 0..size :
        /\ Strip(Here, e) = <<from, to>> /\ here <= from /\ from <= to /\ (here <= e => to <= e)
        /\ Letters(from, to) = Letters(here, e)
  BY <1>1, StripSlice
<1>3. Reached = here
  BY <1>1 DEF Reached
<1>4. PICK over \in Nat, hard \in Nat \ {0} : over = OverlapWords /\ hard = config.hard
  BY LoopNumbers, LoopCounts
<1>5. chunks \in Seq(Chunk)
  BY DEF ChunkInv, TypeOK
<1>6. \A k \in DOMAIN chunks : chunks[k].raw[1] \in Nat /\ chunks[k].raw[2] \in Nat
  <2>1. SUFFICES ASSUME NEW k \in DOMAIN chunks
                 PROVE  chunks[k].raw[1] \in Nat /\ chunks[k].raw[2] \in Nat
    OBVIOUS
  <2>2. chunks[k] \in Chunk
    BY <1>5
  <2>3. chunks[k].raw \in Intervals
    BY <2>2 DEF Chunk
  <2>4. QED
    BY <1>1, <2>3 DEF Intervals
<1>7. Letters(0, here) \in SUBSET
        UNION {Letters(chunks[k].raw[1], chunks[k].raw[2]) : k \in DOMAIN chunks}
  BY <1>3 DEF ChunkInv, NothingLost
<1>8. \/ Filled
      \/ /\ cursor \in Nat /\ \A k \in DOMAIN chunks : chunks[k].raw[2] <= here
         /\ \A j, k \in DOMAIN chunks : j < k => chunks[j].raw[2] <= chunks[k].raw[1]
  BY <1>3 DEF ChunkInv, OrderInv
<1>9. Letters(0, e) \in SUBSET (Letters(0, here) \cup Letters(here, e))
  BY <1>1 DEF Letters
<1>10. CASE over = 0 /\ from = to
  <2>1. chunks' = chunks
    BY <1>2, <1>4, <1>10 DEF Emit
  <2>2. Letters(here, e) = {}
    BY <1>2, <1>10 DEF Letters
  <2>3. Letters(0, e) \in SUBSET
          UNION {Letters(chunks'[k].raw[1], chunks'[k].raw[2]) : k \in DOMAIN chunks'}
    BY <1>7, <1>9, <2>1, <2>2
  <2>4. CASE Filled
    <3>1. \E k \in DOMAIN chunks' :
            WordCount(chunks'[k].prefix[1], chunks'[k].prefix[2]) >= config.hard
      BY <2>1, <2>4 DEF Filled
    <3>2. QED
      BY <1>5, <2>1, <2>3, <3>1
  <2>5. CASE ~Filled
    <3>1. over < hard
      BY <1>10
    <3>2. here <= e => \A k \in DOMAIN chunks : chunks[k].raw[2] <= e
      BY <1>6, <1>8, <2>5
    <3>3. QED
      BY <1>1, <1>4, <1>5, <1>8, <2>1, <2>3, <2>5, <3>1, <3>2
  <2>6. QED
    BY <2>4, <2>5
<1>11. CASE ~(over = 0 /\ from = to)
  <2> DEFINE c == [prefix |-> OverlapPrefix, raw |-> <<from, to>>]
  <2>1. chunks' = Append(chunks, c)
    BY <1>2, <1>4, <1>11 DEF Emit
  <2>2. c \in Chunk
    <3>1. <<from, to>> \in Intervals
      BY <1>1, <1>2 DEF Intervals
    <3>2. QED
      BY <3>1, PrefixInText DEF Chunk
  <2>3. c.raw[1] = from /\ c.raw[2] = to /\ c.prefix = OverlapPrefix
    OBVIOUS
  <2> HIDE DEF c
  <2>4. PICK n \in Nat :
          /\ n = Len(chunks) /\ chunks' \in Seq(Chunk)
          /\ DOMAIN chunks = 1..n /\ DOMAIN chunks' = 1..(n + 1)
          /\ \A k \in DOMAIN chunks : chunks'[k] = chunks[k]
          /\ chunks'[n + 1] = c
    BY <1>5, <2>1, <2>2, AppendElements
  <2>5. \A k \in 1..(n + 1) : k \in 1..n \/ k = n + 1
    OBVIOUS
  <2>6. n + 1 \in DOMAIN chunks' /\ \A k \in DOMAIN chunks : k \in DOMAIN chunks'
    BY <2>4
  <2>7. Letters(0, e) \in SUBSET
          UNION {Letters(chunks'[k].raw[1], chunks'[k].raw[2]) : k \in DOMAIN chunks'}
    <3> DEFINE Of(k) == Letters(chunks[k].raw[1], chunks[k].raw[2])
               New(k) == Letters(chunks'[k].raw[1], chunks'[k].raw[2])
    <3>1. \A k \in DOMAIN chunks : New(k) = Of(k)
      BY <2>4
    <3>2. New(n + 1) = Letters(from, to)
      BY <2>3, <2>4
    <3>3. Letters(0, here) \in SUBSET UNION {Of(k) : k \in DOMAIN chunks}
      BY <1>7
    <3> HIDE DEF Of, New
    <3>4. Letters(0, e) \in SUBSET UNION {New(k) : k \in DOMAIN chunks'}
      BY <1>2, <1>9, <2>6, <3>1, <3>2, <3>3, Zenon
    <3>5. QED
      BY <3>4 DEF New
  <2>8. CASE Filled
    <3>1. PICK k \in DOMAIN chunks : WordCount(chunks[k].prefix[1], chunks[k].prefix[2]) >= config.hard
      BY <2>8 DEF Filled
    <3>2. WordCount(chunks'[k].prefix[1], chunks'[k].prefix[2]) >= config.hard
      BY <2>4, <3>1
    <3>3. QED
      BY <2>4, <2>6, <2>7, <3>2
  <2>9. CASE ~ (over < hard)
    <3>1. WordCount(chunks'[n + 1].prefix[1], chunks'[n + 1].prefix[2]) >= config.hard
      BY <1>4, <2>3, <2>4, <2>9 DEF OverlapWords
    <3>2. QED
      BY <2>4, <2>6, <2>7, <3>1
  <2>10. CASE ~Filled /\ over < hard
    <3>1. ASSUME NEW k \in 1..n PROVE chunks'[k].raw[2] <= here /\ chunks'[k].raw[2] \in Nat
      BY <1>6, <1>8, <2>4, <2>10
    <3>2. ASSUME here <= e, NEW k \in DOMAIN chunks' PROVE chunks'[k].raw[2] <= e
      <4>1. CASE k \in 1..n
        BY <3>1, <3>2, <4>1
      <4>2. CASE k = n + 1
        BY <1>2, <2>3, <2>4, <3>2, <4>2
      <4>3. QED
        BY <2>4, <2>5, <4>1, <4>2
    <3>3. ASSUME NEW j \in DOMAIN chunks', NEW k \in DOMAIN chunks', j < k
          PROVE  chunks'[j].raw[2] <= chunks'[k].raw[1]
      <4>1. j \in 1..n
        BY <2>4, <3>3
      <4>2. CASE k \in 1..n
        BY <1>8, <2>4, <2>10, <3>3, <4>1, <4>2
      <4>3. CASE k = n + 1
        BY <1>2, <2>3, <2>4, <3>1, <4>1, <4>3
      <4>4. QED
        BY <2>4, <2>5, <4>2, <4>3
    <3>4. cursor \in Nat
      BY <1>8, <2>10
    <3>5. QED
      BY <1>1, <1>4, <2>4, <2>7, <2>10, <3>2, <3>3, <3>4
  <2>11. QED
    BY <2>8, <2>9, <2>10
<1>12. QED
  BY <1>10, <1>11

\* What a step with an emitted chunk keeps: the chunks hold the text up to e, where
\* the loop then is.
LEMMA ReachedKeeps ==
  ASSUME ChunkInv, pc = "loop", NEW e \in Nat, e <= Size, Emit(Strip(Here, e)),
         text' = text, config' = config, Reached' = e,
         OverlapWords < config.hard /\ cursor \in Nat => Here <= e /\ cursor' \in Nat
  PROVE  chunks' \in Seq(Chunk') /\ NothingLost' /\ OrderInv'
<1>1. /\ chunks' \in Seq(Chunk)
      /\ Letters(0, e) \in SUBSET
           UNION {Letters(chunks'[k].raw[1], chunks'[k].raw[2]) : k \in DOMAIN chunks'}
      /\ \/ \E k \in DOMAIN chunks' :
                WordCount(chunks'[k].prefix[1], chunks'[k].prefix[2]) >= config.hard
         \/ /\ OverlapWords < config.hard /\ cursor \in Nat
            /\ Here <= e =>
                 /\ \A k \in DOMAIN chunks' : chunks'[k].raw[2] <= e
                 /\ \A j, k \in DOMAIN chunks' : j < k => chunks'[j].raw[2] <= chunks'[k].raw[1]
  BY EmitKeeps
<1>2. Chunk' = Chunk
  BY DEF Chunk, Intervals, Size
<1>3. ASSUME NEW a, NEW b PROVE Letters(a, b)' = Letters(a, b) /\ WordCount(a, b)' = WordCount(a, b)
  BY DEF WordCount, Words, Letters, IsSpace, Char
<1>4. PICK cs : cs = chunks'
  OBVIOUS
<1>5. NothingLost'
  <2>1. Letters(0, e)' \in SUBSET UNION {Letters(cs[k].raw[1], cs[k].raw[2])' : k \in DOMAIN cs}
    BY <1>1, <1>3, <1>4
  <2>2. QED
    BY <1>4, <2>1 DEF NothingLost
<1>6. OrderInv'
  <2>1. CASE \E k \in DOMAIN cs : WordCount(cs[k].prefix[1], cs[k].prefix[2]) >= config.hard
    <3>1. \E k \in DOMAIN cs : WordCount(cs[k].prefix[1], cs[k].prefix[2])' >= config'.hard
      BY <1>3, <2>1
    <3>2. Filled'
      BY <1>4, <3>1 DEF Filled
    <3>3. QED
      BY <3>2 DEF OrderInv
  <2>2. CASE OverlapWords < config.hard /\ cursor \in Nat /\ Here <= e
             /\ (\A k \in DOMAIN chunks' : chunks'[k].raw[2] <= e)
             /\ (\A j, k \in DOMAIN chunks' : j < k => chunks'[j].raw[2] <= chunks'[k].raw[1])
    BY <2>2 DEF OrderInv
  <2>3. QED
    BY <1>1, <1>4, <2>1, <2>2
<1>7. QED
  BY <1>1, <1>2, <1>5, <1>6

\* A cut keeps the invariant, if it is after the cursor wherever the repeated words do
\* not fill the limit.
LEMMA CutKeeps ==
  ASSUME ChunkInv, pc = "loop", NEW end \in Int, Cut(end),
         OverlapWords < config.hard => end > cursor
  PROVE  ChunkInv'
<1>1. PICK size \in Nat, here \in Nat : /\ size = Size /\ here = Here /\ here < size
                                        /\ cursor \in Int /\ (cursor >= 0 => here = cursor)
  BY LoopNumbers
<1>2. PICK e \in Nat : /\ e = Bound(end) /\ e <= size /\ (end >= size => e = size)
                       /\ cursor >= 0 /\ end > cursor => here <= e
  BY <1>1 DEF Bound, Least, Most
<1>3. /\ Emit(Strip(Here, e)) /\ prev' = Strip(here, e) /\ cursor' = end
      /\ pc' = (IF end < size THEN "loop" ELSE "done") /\ text' = text /\ config' = config
  BY <1>1, <1>2 DEF Cut
<1>4. Size' = size /\ Intervals' = Intervals
  BY <1>1, <1>3 DEF Size, Intervals
<1>5. Reached' = e
  <2>1. Here' = e
    BY <1>1, <1>2, <1>3, <1>4 DEF Here, Bound
  <2>2. QED
    BY <1>2, <1>3, <1>4, <2>1 DEF Reached
<1>6. chunks' \in Seq(Chunk') /\ NothingLost' /\ OrderInv'
  <2>1. OverlapWords < config.hard /\ cursor \in Nat => Here <= e /\ cursor' \in Nat
    BY <1>1, <1>2, <1>3
  <2>2. QED
    BY <1>1, <1>2, <1>3, <1>5, <2>1, ReachedKeeps
<1>7. PICK from \in 0..size, to \in 0..size :
        Strip(here, e) = <<from, to>> /\ (from < to => Letters(from, to) # {})
  <2>1. here <= size /\ e <= size
    BY <1>1, <1>2
  <2>2. \E from, to \in 0..size :
          /\ Strip(here, e) = <<from, to>> /\ here <= from /\ from <= to /\ (here <= e => to <= e)
          /\ Letters(from, to) = Letters(here, e)
          /\ from < to => Letters(from, to) # {}
    BY <2>1, StripSlice
  <2>3. QED
    BY <2>2
<1>8. prev' \in Intervals'
  BY <1>1, <1>3, <1>4, <1>7 DEF Intervals
<1>9. TypeOK'
  <2>1. text' \in Texts /\ config' \in Configs
    BY <1>3 DEF ChunkInv, TypeOK
  <2>2. cursor' \in Int /\ pc' \in {"loop", "done", "failed"}
    BY <1>3
  <2>3. QED
    BY <1>6, <1>8, <2>1, <2>2 DEF TypeOK
<1>10. LoopInv'
  BY <1>1, <1>3, <1>4 DEF LoopInv
<1>11. PrevInv'
  <2>1. Letters(from, to)' = Letters(from, to)
    BY <1>3 DEF Letters, IsSpace, Char
  <2>2. prev'[1] = from /\ prev'[2] = to
    BY <1>3, <1>7
  <2>3. QED
    BY <1>7, <2>1, <2>2 DEF PrevInv
<1>12. QED
  BY <1>6, <1>9, <1>10, <1>11 DEF ChunkInv

\* The last chunk keeps it.
LEMMA FinalKeeps ==
  ASSUME ChunkInv, FinalChunk
  PROVE  ChunkInv'
<1>1. PICK size \in Nat : size = Size /\ Here <= size
  BY LoopNumbers DEF FinalChunk, Iterate
<1>2. /\ pc = "loop" /\ Emit(Strip(Here, size)) /\ pc' = "done"
      /\ text' = text /\ config' = config /\ cursor' = cursor /\ prev' = prev
  BY <1>1 DEF FinalChunk, Iterate
<1>3. Size' = size /\ Intervals' = Intervals /\ Reached' = size
  BY <1>1, <1>2 DEF Size, Intervals, Reached
<1>4. chunks' \in Seq(Chunk') /\ NothingLost' /\ OrderInv'
  BY <1>1, <1>2, <1>3, ReachedKeeps
<1>5. TypeOK'
  BY <1>2, <1>3, <1>4 DEF ChunkInv, TypeOK
<1>6. LoopInv'
  BY <1>2 DEF LoopInv
<1>7. PrevInv'
  BY <1>2 DEF ChunkInv, PrevInv, Letters, IsSpace, Char
<1>8. QED
  BY <1>4, <1>5, <1>6, <1>7 DEF ChunkInv

\* So does a step that changes nothing but that the loop has failed.
LEMMA StillKeeps ==
  ASSUME ChunkInv, UNCHANGED <<text, config, cursor, prev, chunks>>,
         pc' = pc \/ (pc = "loop" /\ pc' = "failed")
  PROVE  ChunkInv'
<1>1. text' = text /\ config' = config /\ cursor' = cursor /\ prev' = prev /\ chunks' = chunks
  OBVIOUS
<1>2. Size' = Size /\ Intervals' = Intervals /\ Chunk' = Chunk
  BY <1>1 DEF Size, Intervals, Chunk
<1>3. Reached' = Reached
  BY <1>1, <1>2 DEF Reached, Here, Bound
<1>4. TypeOK'
  BY <1>1, <1>2 DEF ChunkInv, TypeOK
<1>5. LoopInv'
  BY <1>1, <1>2 DEF ChunkInv, LoopInv
<1>6. PrevInv'
  BY <1>1 DEF ChunkInv, PrevInv, Letters, IsSpace, Char
<1>7. PICK cs, e : cs = chunks /\ e = Reached
  OBVIOUS
<1>8. ASSUME NEW a, NEW b PROVE Letters(a, b)' = Letters(a, b) /\ WordCount(a, b)' = WordCount(a, b)
  BY <1>1 DEF WordCount, Words, Letters, IsSpace, Char
<1>9. cs = chunks' /\ e = Reached'
  BY <1>1, <1>3, <1>7
<1>10. NothingLost'
  <2>1. Letters(0, e) \in SUBSET UNION {Letters(cs[k].raw[1], cs[k].raw[2]) : k \in DOMAIN cs}
    BY <1>7 DEF ChunkInv, NothingLost
  <2>2. Letters(0, e)' \in SUBSET UNION {Letters(cs[k].raw[1], cs[k].raw[2])' : k \in DOMAIN cs}
    BY <1>8, <2>1
  <2>3. QED
    BY <1>9, <2>2 DEF NothingLost
<1>11. OrderInv'
  <2>1. CASE Filled
    <3>1. \E k \in DOMAIN cs : WordCount(cs[k].prefix[1], cs[k].prefix[2]) >= config.hard
      BY <1>7, <2>1 DEF Filled
    <3>2. \E k \in DOMAIN cs : WordCount(cs[k].prefix[1], cs[k].prefix[2])' >= config'.hard
      BY <1>1, <1>8, <3>1
    <3>3. Filled'
      BY <1>9, <3>2 DEF Filled
    <3>4. QED
      BY <3>3 DEF OrderInv
  <2>2. CASE ~Filled
    BY <1>1, <1>3, <2>2 DEF ChunkInv, OrderInv
  <2>3. QED
    BY <2>1, <2>2
<1>12. QED
  BY <1>4, <1>5, <1>6, <1>10, <1>11 DEF ChunkInv

-----------------------------------------------------------------------------
(* The theorems. *)

\* At the start nothing is cut.
LEMMA ChunkStart == Init => ChunkInv
<1> SUFFICES ASSUME Init PROVE ChunkInv
  OBVIOUS
<1>1. /\ text \in Texts /\ config \in Configs /\ cursor = 0 /\ prev = <<0, 0>> /\ chunks = <<>>
      /\ pc = (IF Size = 0 THEN "done" ELSE "loop")
  BY DEF Init
<1>2. Size \in Nat
  BY <1>1, ChunkAssumption DEF Size
<1>3. TypeOK
  BY <1>1, <1>2 DEF TypeOK, Intervals
<1>4. LoopInv /\ PrevInv
  BY <1>1, <1>2 DEF LoopInv, PrevInv
<1>5. Reached = 0
  BY <1>1, <1>2 DEF Reached, Here, Bound, Least
<1>6. DOMAIN chunks = {}
  BY <1>1
<1>7. OrderInv
  BY <1>1, <1>6 DEF OrderInv
<1>8. NothingLost
  <2>1. Letters(0, 0) = {}
    BY DEF Letters
  <2>2. QED
    BY <1>5, <1>6, <2>1 DEF NothingLost
<1>9. QED
  BY <1>3, <1>4, <1>7, <1>8 DEF ChunkInv

\* What a break or a hard split does to the cursor.
LEMMA CutAhead ==
  ASSUME ChunkInv, CutAtBreak \/ CutHard
  PROVE  /\ pc = "loop" /\ ~Fits
         /\ \E end \in Int : /\ Cut(end) /\ (OverlapWords < config.hard => end > cursor)
                             /\ end = BreakPos \/ end = HardSplit
<1>1. CASE CutAtBreak
  <2>1. pc = "loop" /\ ~Fits /\ BreakPos # NoBreak /\ Cut(BreakPos)
    BY <1>1 DEF CutAtBreak, Iterate
  <2>2. PICK end \in Int : end = BreakPos /\ end > cursor
    BY <2>1, BreakAhead
  <2>3. Cut(end)
    BY <2>1, <2>2 DEF Cut
  <2>4. QED
    BY <2>1, <2>2, <2>3
<1>2. CASE CutHard
  <2>1. pc = "loop" /\ ~Fits /\ Cut(HardSplit)
    BY <1>2 DEF CutHard, Iterate
  <2>2. PICK end \in Int : end = HardSplit /\ (OverlapWords < config.hard => end > cursor)
    BY <2>1, HardAhead
  <2>3. Cut(end)
    BY <2>1, <2>2 DEF Cut
  <2>4. QED
    BY <2>1, <2>2, <2>3
<1>3. QED
  BY <1>1, <1>2

\* Every step of the loop keeps the invariant.
LEMMA ChunkStep == ChunkInv /\ [Next]_vars => ChunkInv'
<1> SUFFICES ASSUME ChunkInv, [Next]_vars PROVE ChunkInv'
  OBVIOUS
<1>1. CASE FinalChunk
  BY <1>1, FinalKeeps
<1>2. CASE CutAtBreak \/ CutHard
  BY <1>2, CutAhead, CutKeeps
<1>3. CASE IndexError
  <2>1. pc = "loop" /\ pc' = "failed" /\ UNCHANGED <<text, config, cursor, prev, chunks>>
    BY <1>3 DEF IndexError, Iterate
  <2>2. QED
    BY <2>1, StillKeeps
<1>4. CASE UNCHANGED vars
  <2>1. UNCHANGED <<text, config, cursor, prev, chunks>> /\ pc' = pc
    BY <1>4 DEF vars
  <2>2. QED
    BY <2>1, StillKeeps
<1>5. QED
  BY <1>1, <1>2, <1>3, <1>4 DEF Next

\* The inductive invariant of chunk_at_boundaries holds throughout, for every text,
\* configuration and hierarchy of markers.
THEOREM ChunkInvariant == Spec => []ChunkInv
BY ChunkStart, ChunkStep, PTL DEF Spec

\* The intervals of the chunks, the repeated ones too, are slices of the text, also
\* while the cursor is negative.
THEOREM ChunkTypeCorrect == Spec => []TypeOK
<1>1. ChunkInv => TypeOK
  BY DEF ChunkInv
<1>2. QED
  BY <1>1, ChunkInvariant, PTL

\* No letter of the text is lost, whatever break or hard split chunk_at_boundaries
\* takes and however far it goes back.
THEOREM NothingIsLost == Spec => []NothingLost
<1>1. ChunkInv => NothingLost
  BY DEF ChunkInv
<1>2. QED
  BY <1>1, ChunkInvariant, PTL

\* chunk_at_boundaries cuts no letter twice, and its chunks are in the order of the
\* text, unless the repeated words of a chunk alone fill the hard limit.
THEOREM NothingCutTwice == Spec => []CutOnce
<1>1. ChunkInv => CutOnce
  BY DEF ChunkInv, OrderInv, CutOnce
<1>2. QED
  BY <1>1, ChunkInvariant, PTL

\* chunk_at_boundaries stops advancing only where the repeated words alone fill the
\* hard limit; rounding and the window of the markers never cause it.
THEOREM StallOnlyFull == Spec => StallsOnlyWhenFull
<1>1. ASSUME ChunkInv, [Next]_vars
      PROVE  [pc' = "loop" /\ cursor' <= cursor => OverlapWords >= config.hard]_vars
  <2> USE <1>1
  <2>1. CASE FinalChunk
    BY <2>1 DEF FinalChunk
  <2>2. CASE CutAtBreak \/ CutHard
    <3>1. pc = "loop"
      BY <2>2, CutAhead
    <3>2. PICK end \in Int : Cut(end) /\ (OverlapWords < config.hard => end > cursor)
      BY <2>2, CutAhead
    <3>3. cursor' = end
      BY <3>2 DEF Cut
    <3>4. cursor \in Int /\ OverlapWords \in Nat /\ config.hard \in Nat
      BY <3>1, LoopNumbers, LoopCounts
    <3>5. QED
      BY <3>2, <3>3, <3>4
  <2>3. CASE IndexError
    BY <2>3 DEF IndexError
  <2>4. CASE UNCHANGED vars
    BY <2>4
  <2>5. QED
    BY <1>1, <2>1, <2>2, <2>3, <2>4 DEF Next
<1>2. QED
  BY <1>1, ChunkInvariant, PTL DEF Spec, StallsOnlyWhenFull

-----------------------------------------------------------------------------
(* The hard limit, for even texts. *)

\* In an even text the cursor is where a word begins or ends, never negative, and
\* every chunk so far is within the hard limit; so are the words that can be repeated.
EvenInv ==
    Even => /\ WithinHardLimit
            /\ cursor \in Nat
            /\ WordCount(prev[1], prev[2]) <= config.hard
            /\ cursor < Size => cursor = 0 \/ IsSpace(cursor) \/ IsSpace(cursor - 1)

LimitInv == ChunkInv /\ EvenInv

\* The cursor is then a position of the text, and the repeated words do not exceed
\* the limit.
LEMMA EvenNumbers ==
  ASSUME LimitInv, pc = "loop", Even
  PROVE  /\ Size \in Nat /\ cursor \in Nat /\ cursor < Size /\ Here = cursor
         /\ OverlapWords \in Nat /\ config.hard \in Nat /\ OverlapWords <= config.hard
<1>1. ChunkInv /\ cursor \in Nat /\ WordCount(prev[1], prev[2]) <= config.hard
  BY DEF LimitInv, EvenInv
<1>2. PICK a \in Nat, b \in Nat : a = prev[1] /\ b = prev[2]
  BY <1>1, LoopNumbers
<1>3. WordCount(prev[1], prev[2]) \in Nat
  BY <1>2, WordsBounded
<1>4. OverlapWords \in Nat /\ OverlapWords <= WordCount(prev[1], prev[2])
  BY <1>1, LoopCounts, PrefixInText
<1>5. OverlapWords <= config.hard
  BY <1>1, <1>3, <1>4, LoopNumbers
<1>6. QED
  BY <1>1, <1>4, <1>5, LoopNumbers

\* Division with remainder.
LEMMA DivisionForm ==
  ASSUME NEW i \in Nat, NEW d \in Nat \ {0}
  PROVE  \E q \in Nat : i = q * d + (i % d) /\ i % d \in 0..(d - 1)
<1>1. i \div d \in Nat /\ i = (i \div d) * d + (i % d) /\ i % d \in 0..(d - 1)
  OBVIOUS
<1>2. QED
  BY <1>1

\* Multiples are ordered as their factors, at least one multiple apart.
LEMMA MultipleOrder ==
  ASSUME NEW p \in Int, NEW q \in Int, NEW d \in Nat \ {0}
  PROVE  /\ p < q <=> p * d < q * d
         /\ p <= q <=> p * d <= q * d
         /\ p < q => p * d + d <= q * d
<1>1. ASSUME NEW a \in Int, NEW b \in Int, a < b PROVE a * d + d <= b * d
  <2>1. PICK k \in Nat : b = a + 1 + k
    <3>1. b - a - 1 \in Nat /\ b = a + 1 + (b - a - 1)
      BY <1>1
    <3>2. QED
      BY <3>1
  <2>2. b * d = a * d + d + k * d /\ k * d >= 0
    BY <2>1
  <2>3. QED
    BY <2>2
<1>2. QED
  BY <1>1

\* The remainder of a multiple and a little more.
LEMMA RemainderForm ==
  ASSUME NEW q \in Nat, NEW d \in Nat \ {0}, NEW r \in 0..(d - 1)
  PROVE  (q * d + r) % d = r
<1>1. PICK p \in Nat : q * d + r = p * d + ((q * d + r) % d) /\ (q * d + r) % d \in 0..(d - 1)
  <2>1. q * d + r \in Nat
    OBVIOUS
  <2>2. QED
    BY <2>1, DivisionForm
<1>2. PICK s \in 0..(d - 1) : s = (q * d + r) % d
  BY <1>1
<1>3. ~ (p < q)
  BY <1>1, <1>2, MultipleOrder
<1>4. ~ (q < p)
  BY <1>1, <1>2, MultipleOrder
<1>5. QED
  BY <1>1, <1>2, <1>3, <1>4

\* Consecutive multiples are as many as their factors.
LEMMA Multiples ==
  ASSUME NEW d \in Nat \ {0}, NEW j \in Nat, NEW w \in Nat
  PROVE  /\ IsFiniteSet({t * d : t \in j..(j + w - 1)})
         /\ Cardinality({t * d : t \in j..(j + w - 1)}) = w
<1> DEFINE S == j..(j + w - 1)
           T == {t * d : t \in S}
           f == [t \in S |-> t * d]
<1>1. IsFiniteSet(S) /\ Cardinality(S) = w
  BY FS_Interval
<1>2. \A t, u \in S : t * d = u * d => t = u
  BY MultipleOrder
<1>3. f \in Injection(S, T)
  BY <1>2 DEF Injection, IsInjective
<1>4. f \in Surjection(S, T)
  BY DEF Surjection
<1>5. f \in Bijection(S, T)
  BY <1>3, <1>4 DEF Bijection
<1>6. QED
  BY <1>1, <1>5, FS_Bijection DEF ExistsBijection

\* int() of a quotient: how far from it.
LEMMA TruncateBounds ==
  ASSUME NEW n \in Int, NEW d \in Nat \ {0}
  PROVE  /\ Truncate(n, d) \in Int /\ (n <= 0 => Truncate(n, d) <= 0)
         /\ n >= 0 => Truncate(n, d) * d <= n /\ n < (Truncate(n, d) + 1) * d
<1>1. CASE n >= 0
  <2>1. PICK q \in Nat : q = n \div d
    BY <1>1
  <2>2. q * d <= n /\ n < (q + 1) * d /\ (n <= 0 => q <= 0)
    BY <1>1, <2>1
  <2>3. Truncate(n, d) = q
    BY <1>1, <2>1 DEF Truncate
  <2>4. QED
    BY <1>1, <2>2, <2>3
<1>2. CASE ~(n >= 0)
  <2>1. (- n) \div d \in Nat
    BY <1>2
  <2>2. QED
    BY <1>2, <2>1 DEF Truncate
<1>3. QED
  BY <1>1, <1>2

\* How far k words of the average length reach from the begin of a word (gap = 0)
\* or from the separator before it (gap = 1), where w words of d - 1 characters are
\* left: to the end of the k-th of them at most, and just there when k < w.
LEMMA AverageReach ==
  ASSUME NEW d \in Nat \ {0}, NEW k \in Nat \ {0}, NEW w \in Nat \ {0}, NEW gap \in {0, 1},
         NEW x \in Int, x * w <= k * (w * d - 1 + gap)
  PROVE  /\ x <= k * d - 1 + gap
         /\ k < w /\ k * (w * d - 1 + gap) < (x + 1) * w => x = k * d - 1 + gap
<1>1. k * (w * d - 1 + gap) = (k * d) * w - k + k * gap
  OBVIOUS
<1>2. PICK m \in Nat : m = k * d
  OBVIOUS
<1>3. ASSUME x >= m + gap PROVE FALSE
  <2>1. x * w >= (m + gap) * w
    BY <1>3
  <2>2. QED
    BY <1>1, <1>2, <2>1
<1>4. ASSUME k < w, k * (w * d - 1 + gap) < (x + 1) * w, x + 1 <= m - 1 + gap PROVE FALSE
  <2>1. (x + 1) * w <= (m - 1 + gap) * w
    BY <1>4
  <2>2. QED
    BY <1>1, <1>2, <1>4, <2>1
<1>5. QED
  BY <1>2, <1>3, <1>4

\* Characters for words, where words are left: at most so many words' share.
LEMMA CharsShare ==
  ASSUME ChunkInv, pc = "loop", RemainingWords >= 1,
         NEW num \in Int, NEW den \in Nat \ {0}, NEW k \in Int, num <= k * den
  PROVE  /\ Chars(num, den) \in Int
         /\ k <= 0 => Chars(num, den) <= 0
         /\ k >= 1 => Chars(num, den) * RemainingWords <= k * (Size - Here)
         /\ num >= 0 /\ den = 1 => num * (Size - Here) < (Chars(num, den) + 1) * RemainingWords
<1>1. PICK rest \in Nat \ {0} : rest = Size - Here
  BY LoopNumbers
<1>2. PICK words \in Nat \ {0} : words = RemainingWords
  BY LoopCounts
<1>3. PICK n \in Int, d \in Nat \ {0} : n = num * rest /\ d = den * words
  OBVIOUS
<1>4. Chars(num, den) = Truncate(n, d)
  <2>1. Most(1, RemainingWords) = words
    BY <1>2 DEF Most
  <2>2. QED
    BY <1>1, <1>3, <2>1 DEF Chars
<1>5. PICK x \in Int : /\ x = Chars(num, den) /\ (n <= 0 => x <= 0)
                       /\ n >= 0 => x * d <= n /\ n < (x + 1) * d
  BY <1>4, TruncateBounds
<1>6. ASSUME k <= 0 PROVE x <= 0
  <2>1. num <= 0
    BY <1>6
  <2>2. n <= 0
    BY <1>3, <2>1
  <2>3. QED
    BY <1>5, <2>2
<1>7. ASSUME k >= 1 PROVE x * words <= k * rest
  <2>1. CASE n >= 0
    <3>1. x * d <= num * rest /\ num * rest <= (k * den) * rest
      BY <1>3, <1>5, <2>1
    <3>2. (x * words) * den <= (k * rest) * den
      BY <1>3, <3>1
    <3>3. x * words \in Int /\ k * rest \in Int
      OBVIOUS
    <3>4. QED
      BY <3>2, <3>3, MultipleOrder
  <2>2. CASE n < 0
    <3>1. x <= 0
      BY <1>5, <2>2
    <3>2. x * words <= 0 /\ k * rest >= 0
      BY <1>7, <3>1
    <3>3. QED
      BY <3>2
  <2>3. QED
    BY <2>1, <2>2
<1>8. ASSUME num >= 0, den = 1 PROVE num * rest < (x + 1) * words
  <2>1. n >= 0 /\ d = words
    BY <1>3, <1>8
  <2>2. QED
    BY <1>3, <1>5, <2>1
<1>9. QED
  BY <1>1, <1>2, <1>5, <1>6, <1>7, <1>8

\* Where the separators of an even text are, by the period of its words.
LEMMA EvenGaps ==
  ASSUME ChunkInv, Even
  PROVE  \E d \in Nat \ {0}, all \in Nat :
           /\ d >= 2 /\ Size = all * d - 1
           /\ \A i \in 0..(Size - 1) : IsSpace(i) <=> \E q \in Nat : i = q * d + (d - 1)
<1>1. PICK size \in Nat : size = Size
  BY LoopNumbers
<1>2. PICK n \in 1..size : /\ {i \in 0..(size - 1) : IsSpace(i)} = {i \in 0..(size - 1) : i % (n + 1) = n}
                           /\ (size + 1) % (n + 1) = 0
  BY <1>1 DEF Even
<1>3. PICK d \in Nat \ {0} : d = n + 1
  BY <1>1
<1>4. d >= 2 /\ n = d - 1 /\ d - 1 \in 0..(d - 1)
  BY <1>1, <1>3
<1>5. \A i \in 0..(size - 1) : IsSpace(i) <=> i % d = d - 1
  BY <1>2, <1>3, <1>4
<1>6. ASSUME NEW i \in 0..(size - 1) PROVE i % d = d - 1 <=> \E q \in Nat : i = q * d + (d - 1)
  <2>1. i \in Nat
    BY <1>1
  <2>2. PICK p \in Nat : i = p * d + (i % d)
    BY <2>1, DivisionForm
  <2>3. ASSUME NEW q \in Nat, i = q * d + (d - 1) PROVE i % d = d - 1
    <3>1. (q * d + (d - 1)) % d = d - 1
      BY <1>4, RemainderForm
    <3>2. QED
      BY <2>3, <3>1
  <2>4. QED
    BY <2>2, <2>3
<1>7. PICK all \in Nat : size = all * d - 1
  <2>1. PICK q \in Nat : size + 1 = q * d + ((size + 1) % d)
    <3>1. size + 1 \in Nat
      OBVIOUS
    <3>2. QED
      BY <3>1, DivisionForm
  <2>2. size + 1 = q * d
    BY <1>2, <1>3, <2>1
  <2>3. QED
    BY <1>1, <2>2
<1>8. \A i \in 0..(size - 1) : IsSpace(i) <=> \E q \in Nat : i = q * d + (d - 1)
  BY <1>5, <1>6
<1>9. /\ d >= 2 /\ Size = all * d - 1
      /\ \A i \in 0..(Size - 1) : IsSpace(i) <=> \E q \in Nat : i = q * d + (d - 1)
  BY <1>1, <1>4, <1>7, <1>8
<1>10. QED
  BY <1>9, Zenon

\* The words of an even text from the cursor on, when it is where a word begins or
\* ends: they begin at multiples of the period, and the characters left are those of
\* whole words.
LEMMA EvenWords ==
  ASSUME LimitInv, pc = "loop", Even
  PROVE  \E d, j \in Nat, gap \in {0, 1} :
           /\ d >= 2 /\ RemainingWords >= 1
           /\ cursor = j * d - gap
           /\ Size - cursor = RemainingWords * d - 1 + gap
           /\ \A k, b \in Nat : b <= Size /\ b <= (j + k) * d - 1 => WordCount(cursor, b) <= k
           /\ \A q \in Nat \ {0} : q * d - 1 < Size => IsSpace(q * d - 1)
<1> USE DEF LimitInv
<1>1. PICK here \in Nat, size \in Nat : here = cursor /\ size = Size /\ here < size
  BY EvenNumbers
<1>2. PICK d \in Nat \ {0}, all \in Nat :
        /\ d >= 2 /\ size = all * d - 1
        /\ \A i \in 0..(size - 1) : IsSpace(i) <=> \E q \in Nat : i = q * d + (d - 1)
  <2>1. PICK d \in Nat \ {0}, all \in Nat :
          /\ d >= 2 /\ Size = all * d - 1
          /\ \A i \in 0..(Size - 1) : IsSpace(i) <=> \E q \in Nat : i = q * d + (d - 1)
    BY EvenGaps, Zenon
  <2>2. QED
    BY <1>1, <2>1, Zenon
<1>3. \A q \in Nat \ {0} : q * d - 1 < size => IsSpace(q * d - 1)
  <2>1. ASSUME NEW q \in Nat \ {0}, q * d - 1 < size PROVE IsSpace(q * d - 1)
    <3>1. q - 1 \in Nat /\ q * d - 1 = (q - 1) * d + (d - 1)
      OBVIOUS
    <3>2. (q - 1) * d \in Nat
      BY <3>1
    <3>3. q * d - 1 \in 0..(size - 1)
      BY <1>1, <1>2, <2>1, <3>1, <3>2
    <3>4. QED
      BY <1>2, <3>1, <3>3
  <2>2. QED
    BY <2>1
<1>4. \A t \in Nat : t * d < size => ~IsSpace(t * d)
  <2>1. ASSUME NEW t \in Nat, t * d < size, NEW q \in Nat, t * d = q * d + (d - 1) PROVE FALSE
    <3>1. ~ (q < t)
      BY <1>2, <2>1, MultipleOrder
    <3>2. ~ (t <= q)
      BY <1>2, <2>1, MultipleOrder
    <3>3. QED
      BY <3>1, <3>2
  <2>2. \A t \in Nat : t * d \in Nat
    OBVIOUS
  <2>3. QED
    BY <1>1, <1>2, <2>1, <2>2
<1>5. PICK j \in Nat, gap \in {0, 1} : here = j * d - gap /\ (gap = 1 => IsSpace(here)) /\ (gap = 0 => ~IsSpace(here))
  <2>1. here = 0 \/ IsSpace(here) \/ (here >= 1 /\ IsSpace(here - 1))
    BY <1>1 DEF EvenInv
  <2>2. CASE here = 0
    BY <1>1, <1>4, <2>2
  <2>3. CASE IsSpace(here)
    <3>1. PICK q \in Nat : here = q * d + (d - 1)
      BY <1>1, <1>2, <2>3
    <3>2. q + 1 \in Nat /\ here = (q + 1) * d - 1
      BY <3>1
    <3>3. QED
      BY <2>3, <3>2
  <2>4. CASE here >= 1 /\ IsSpace(here - 1)
    <3>1. PICK q \in Nat : here - 1 = q * d + (d - 1)
      BY <1>1, <1>2, <2>4
    <3>2. q + 1 \in Nat /\ here = (q + 1) * d - 0
      BY <3>1
    <3>3. PICK t \in Nat : here = t * d
      BY <3>2
    <3>4. ~IsSpace(here)
      BY <1>1, <1>4, <3>3
    <3>5. here = t * d - 0
      BY <3>3
    <3>6. QED
      BY <3>4, <3>5
  <2>5. QED
    BY <2>1, <2>2, <2>3, <2>4
<1>6. ASSUME NEW b \in Nat, b <= size, NEW i \in Words(here, b)
      PROVE  \E t \in Nat : i = t * d /\ t >= j /\ t * d < b
  <2>1. i \in Nat /\ here <= i /\ i < b /\ ~IsSpace(i) /\ (i = here \/ IsSpace(i - 1))
    BY <1>6 DEF Words, Letters
  <2>2. i >= j * d
    BY <1>5, <2>1
  <2>3. CASE i = here
    BY <1>5, <2>1, <2>3
  <2>4. CASE i # here /\ IsSpace(i - 1)
    <3>1. i - 1 \in 0..(size - 1)
      BY <1>1, <1>6, <2>1, <2>4
    <3>2. PICK q \in Nat : i - 1 = q * d + (d - 1)
      BY <1>2, <2>4, <3>1
    <3>3. q + 1 \in Nat /\ i = (q + 1) * d
      BY <2>1, <3>2
    <3>4. q + 1 >= j
      BY <2>2, <3>3, MultipleOrder
    <3>5. QED
      BY <2>1, <3>3, <3>4
  <2>5. QED
    BY <2>1, <2>3, <2>4
<1>7. ASSUME NEW k \in Nat, NEW b \in Nat, b <= size, b <= (j + k) * d - 1
      PROVE  Words(here, b) \in SUBSET {t * d : t \in j..(j + k - 1)}
  <2>1. ASSUME NEW i \in Words(here, b) PROVE i \in {t * d : t \in j..(j + k - 1)}
    <3>1. PICK t \in Nat : i = t * d /\ t >= j /\ t * d < b
      BY <1>6, <1>7
    <3>2. t * d < (j + k) * d
      BY <1>7, <3>1
    <3>3. t < j + k
      BY <3>2, MultipleOrder
    <3>4. QED
      BY <3>1, <3>3
  <2>2. QED
    BY <2>1
<1>8. ASSUME NEW k \in Nat, NEW b \in Nat, b <= size, b <= (j + k) * d - 1
      PROVE  WordCount(here, b) <= k
  <2>1. PICK T : T = {t * d : t \in j..(j + k - 1)}
    OBVIOUS
  <2>2. IsFiniteSet(T) /\ Cardinality(T) = k
    BY <2>1, Multiples
  <2>3. Words(here, b) \in SUBSET T
    BY <1>7, <1>8, <2>1
  <2>4. QED
    BY <2>2, <2>3, FS_Subset DEF WordCount
<1>9. PICK w \in Nat : w = all - j /\ j < all
  <2>1. j * d < all * d
    BY <1>1, <1>2, <1>5
  <2>2. QED
    BY <2>1, MultipleOrder
<1>10. {t * d : t \in j..(j + w - 1)} \in SUBSET Words(here, size)
  <2>1. ASSUME NEW t \in j..(j + w - 1) PROVE t * d \in Words(here, size)
    <3>1. t \in Nat /\ t < all /\ j <= t /\ t * d \in Nat
      BY <1>9
    <3>2. t * d + d <= all * d /\ j * d <= t * d
      BY <3>1, MultipleOrder
    <3>3. t * d < size /\ t * d >= here
      BY <1>2, <1>5, <3>1, <3>2
    <3>4. t * d \in Letters(here, size)
      BY <1>1, <1>4, <3>1, <3>3 DEF Letters
    <3>5. t * d = here \/ IsSpace(t * d - 1)
      <4>1. CASE t = 0
        BY <1>5, <3>1, <3>3, <4>1
      <4>2. CASE t # 0
        BY <1>3, <3>1, <3>3, <4>2
      <4>3. QED
        BY <4>1, <4>2
    <3>6. QED
      BY <3>4, <3>5 DEF Words
  <2>2. QED
    BY <2>1
<1>11. RemainingWords = w
  <2>1. size <= (j + w) * d - 1
    BY <1>2, <1>9
  <2>2. size <= size
    BY <1>1
  <2>3. Words(here, size) \in SUBSET {t * d : t \in j..(j + w - 1)}
    BY <1>7, <2>1, <2>2
  <2>4. PICK S, T : S = Words(here, size) /\ T = {t * d : t \in j..(j + w - 1)}
    OBVIOUS
  <2>5. S \in SUBSET T /\ T \in SUBSET S
    BY <1>10, <2>3, <2>4
  <2>6. S = T
    BY <2>5, Zenon
  <2>7. Cardinality(T) = w
    BY <2>4, Multiples
  <2>8. QED
    BY <1>1, <2>4, <2>6, <2>7, EvenNumbers DEF RemainingWords, WordCount
<1>12. size - here = w * d - 1 + gap
  BY <1>2, <1>5, <1>9
<1>13. \A k, b \in Nat : b <= Size /\ b <= (j + k) * d - 1 => WordCount(cursor, b) <= k
  BY <1>1, <1>8
<1>14. /\ d >= 2 /\ RemainingWords >= 1
       /\ cursor = j * d - gap
       /\ Size - cursor = RemainingWords * d - 1 + gap
       /\ \A q \in Nat \ {0} : q * d - 1 < Size => IsSpace(q * d - 1)
  BY <1>1, <1>2, <1>3, <1>5, <1>9, <1>11, <1>12
<1>15. d \in Nat
  OBVIOUS
<1>16. QED
  BY <1>13, <1>14, <1>15, Zenon

\* A cut within the characters of the words that the limit leaves, in an even text:
\* the chunk is within the limit.
LEMMA EvenReach ==
  ASSUME LimitInv, pc = "loop", Even, NEW end \in Nat, end > cursor,
         NEW num \in Int, NEW den \in Nat \ {0}, num <= (config.hard - OverlapWords) * den,
         end <= cursor + Chars(num, den)
  PROVE  OverlapWords + WordCount(cursor, Least(end, Size)) <= config.hard
<1>1. PICK here \in Nat, size \in Nat : here = cursor /\ size = Size /\ here < size /\ Here = here
  BY EvenNumbers
<1>2. PICK over \in Nat, hard \in Nat : over = OverlapWords /\ hard = config.hard
  BY EvenNumbers
<1>3. PICK d \in Nat, j \in Nat, gap \in {0, 1} :
        /\ d >= 2 /\ RemainingWords >= 1 /\ cursor = j * d - gap
        /\ Size - cursor = RemainingWords * d - 1 + gap
        /\ \A k, b \in Nat : b <= Size /\ b <= (j + k) * d - 1 => WordCount(cursor, b) <= k
  BY EvenWords, Zenon
<1>4. PICK w \in Nat \ {0} : w = RemainingWords
  BY <1>3, LoopCounts DEF LimitInv
<1>5. PICK k \in Int : k = hard - over
  OBVIOUS
<1>6. num <= k * den
  BY <1>2, <1>5
<1>7. PICK x \in Int : /\ x = Chars(num, den) /\ (k <= 0 => x <= 0)
                       /\ k >= 1 => x * w <= k * (size - here)
  BY <1>1, <1>3, <1>4, <1>6, CharsShare DEF LimitInv
<1>8. k >= 1 /\ k \in Nat \ {0}
  BY <1>1, <1>7
<1>9. size - here = w * d - 1 + gap
  BY <1>1, <1>3, <1>4
<1>10. x <= k * d - 1 + gap
  <2>1. x * w <= k * (w * d - 1 + gap)
    BY <1>7, <1>8, <1>9
  <2>2. d \in Nat \ {0}
    BY <1>3
  <2>3. QED
    BY <1>8, <2>1, <2>2, AverageReach
<1>11. PICK e \in Nat : e = Least(end, Size) /\ e <= end /\ e <= Size
  BY <1>1 DEF Least
<1>12. e <= (j + k) * d - 1
  <2>1. here = j * d - gap /\ end <= here + x
    BY <1>1, <1>3, <1>7
  <2>2. (j + k) * d = j * d + k * d
    OBVIOUS
  <2>3. j * d \in Int /\ k * d \in Int
    OBVIOUS
  <2>4. QED
    BY <1>10, <1>11, <2>1, <2>2, <2>3
<1>13. WordCount(cursor, e) <= k /\ WordCount(cursor, e) \in Nat
  <2>1. k \in Nat
    BY <1>8
  <2>2. WordCount(cursor, e) <= k
    BY <1>3, <1>11, <1>12, <2>1
  <2>3. WordCount(cursor, e) \in Nat
    BY <1>1, WordsBounded
  <2>4. QED
    BY <2>2, <2>3
<1>14. QED
  BY <1>2, <1>5, <1>11, <1>13

\* A hard split of an even text is where a word ends or the next one begins.
LEMMA EvenHardSplit ==
  ASSUME LimitInv, pc = "loop", Even, ~Fits, HardSplit > cursor, HardSplit < Size
  PROVE  IsSpace(HardSplit) \/ IsSpace(HardSplit - 1)
<1>1. PICK here \in Nat, size \in Nat : here = cursor /\ size = Size /\ here < size /\ Here = here
  BY EvenNumbers
<1>2. PICK over \in Nat, hard \in Nat : over = OverlapWords /\ hard = config.hard
  BY EvenNumbers
<1>3. PICK d \in Nat, j \in Nat, gap \in {0, 1} :
        /\ d >= 2 /\ RemainingWords >= 1 /\ cursor = j * d - gap
        /\ Size - cursor = RemainingWords * d - 1 + gap
        /\ \A q \in Nat \ {0} : q * d - 1 < Size => IsSpace(q * d - 1)
  BY EvenWords, Zenon
<1>4. PICK w \in Nat \ {0} : w = RemainingWords
  BY <1>3, LoopCounts DEF LimitInv
<1>5. PICK k \in Int : k = hard - over
  OBVIOUS
<1>6. PICK x \in Int : /\ x = Chars(k, 1) /\ (k <= 0 => x <= 0)
                       /\ k >= 1 => x * w <= k * (size - here)
                       /\ k >= 0 => k * (size - here) < (x + 1) * w
  <2>1. k <= k * 1
    OBVIOUS
  <2>2. 1 \in Nat \ {0} /\ ChunkInv /\ RemainingWords >= 1
    BY <1>3 DEF LimitInv
  <2>3. /\ Chars(k, 1) \in Int /\ (k <= 0 => Chars(k, 1) <= 0)
        /\ k >= 1 => Chars(k, 1) * RemainingWords <= k * (Size - Here)
        /\ k >= 0 => k * (Size - Here) < (Chars(k, 1) + 1) * RemainingWords
    BY <2>1, <2>2, CharsShare
  <2>4. QED
    BY <1>1, <1>4, <2>3
<1>7. CASE HardSplit = here + x
  <2>1. k >= 1 /\ k \in Nat \ {0}
    BY <1>1, <1>6, <1>7
  <2>2. k < w
    BY <1>2, <1>4, <1>5 DEF Fits
  <2>3. size - here = w * d - 1 + gap
    BY <1>1, <1>3, <1>4
  <2>4. x = k * d - 1 + gap
    <3>1. x * w <= k * (w * d - 1 + gap) /\ k * (w * d - 1 + gap) < (x + 1) * w
      BY <1>6, <2>1, <2>3
    <3>2. d \in Nat \ {0}
      BY <1>3
    <3>3. QED
      BY <2>1, <2>2, <3>1, <3>2, AverageReach
  <2>5. HardSplit = (j + k) * d - 1
    <3>1. (j + k) * d = j * d + k * d /\ j * d \in Int /\ k * d \in Int
      OBVIOUS
    <3>2. here = j * d - gap
      BY <1>1, <1>3
    <3>3. QED
      BY <1>7, <2>4, <3>1, <3>2
  <2>6. PICK q \in Nat \ {0} : q = j + k
    BY <2>1
  <2>7. QED
    BY <1>3, <2>5, <2>6
<1>8. CASE IsSpace(HardSplit - 1)
  BY <1>8
<1>9. \/ HardSplit = cursor + HardChars
      \/ IsSpace(HardSplit - 1)
  BY <1>1, HardAhead DEF LimitInv
<1>10. HardChars = x
  BY <1>2, <1>5, <1>6 DEF HardChars
<1>11. QED
  BY <1>1, <1>7, <1>8, <1>9, <1>10

\* A break of an even text is where a word ends or the next one begins.
LEMMA EvenBreak ==
  ASSUME LimitInv, pc = "loop", Even, BreakPos # NoBreak, BreakPos < Size
  PROVE  IsSpace(BreakPos) \/ IsSpace(BreakPos - 1)
<1>1. PICK m \in DOMAIN Markers : BreakPos \in FindBreaks(0, Size, Markers[m])
  BY BreakAhead DEF LimitInv
<1>2. BreakPos \in UNION {FindBreaks(0, Size, Markers[i]) : i \in DOMAIN Markers}
  BY <1>1
<1>3. \A p \in UNION {FindBreaks(0, Size, Markers[i]) : i \in DOMAIN Markers} :
        p = Size \/ IsSpace(p) \/ IsSpace(p - 1)
  BY DEF Even
<1>4. BreakPos # Size
  BY BreakAhead, LoopNumbers DEF LimitInv
<1>5. QED
  BY <1>2, <1>3, <1>4

\* A chunk within the limit is added to chunks within it.
LEMMA EmitWithin ==
  ASSUME LimitInv, pc = "loop", Even, NEW e \in Nat, cursor <= e, e <= Size,
         Emit(Strip(Here, e)), text' = text, config' = config,
         OverlapWords + WordCount(cursor, e) <= config.hard
  PROVE  WithinHardLimit'
<1>1. PICK here \in Nat, hard \in Nat, over \in Nat :
        here = cursor /\ here = Here /\ hard = config.hard /\ over = OverlapWords
  BY EvenNumbers
<1>2. PICK from \in Nat, to \in Nat :
        /\ Strip(Here, e) = <<from, to>> /\ WordCount(from, to) \in Nat
        /\ over + WordCount(from, to) <= hard
  <2>1. here <= e
    BY <1>1
  <2>2. PICK from \in Nat, to \in Nat : /\ Strip(here, e) = <<from, to>>
                                       /\ WordCount(from, to) <= WordCount(here, e)
    BY <2>1, StripKeeps, StripWords
  <2>3. WordCount(from, to) \in Nat /\ WordCount(here, e) \in Nat
    BY WordsBounded
  <2>4. QED
    BY <1>1, <2>2, <2>3
<1>3. PICK p : p = OverlapPrefix
  OBVIOUS
<1>4. over = WordCount(p[1], p[2])
  BY <1>1, <1>3 DEF OverlapWords
<1>5. PICK cs \in Seq(Chunk) : cs = chunks
  BY DEF LimitInv, ChunkInv, TypeOK
<1>6. \A k \in DOMAIN cs :
        WordCount(cs[k].prefix[1], cs[k].prefix[2]) + WordCount(cs[k].raw[1], cs[k].raw[2]) <= hard
  BY <1>1, <1>5 DEF LimitInv, EvenInv, WithinHardLimit, ChunkWords
<1> DEFINE c == [prefix |-> p, raw |-> <<from, to>>]
<1>7. chunks' = cs \/ chunks' = Append(cs, c)
  BY <1>2, <1>3, <1>5 DEF Emit
<1>8. c \in Chunk
  <2>1. p \in Intervals /\ Size \in Nat /\ here < Size
    BY <1>1, <1>3, PrefixInText, EvenNumbers DEF LimitInv
  <2>2. from <= to /\ to <= e
    BY <1>1, <1>2, StripKeeps
  <2>3. <<from, to>> \in Intervals
    BY <2>1, <2>2 DEF Intervals
  <2>4. QED
    BY <2>1, <2>3 DEF Chunk
<1>9. ASSUME NEW k \in DOMAIN chunks'
      PROVE  WordCount(chunks'[k].prefix[1], chunks'[k].prefix[2])
               + WordCount(chunks'[k].raw[1], chunks'[k].raw[2]) <= hard
  <2>1. CASE chunks' = cs
    BY <1>6, <2>1
  <2>2. CASE chunks' = Append(cs, c)
    <3>1. c.prefix = p /\ c.raw[1] = from /\ c.raw[2] = to
      OBVIOUS
    <3> HIDE DEF c
    <3>2. (k \in DOMAIN cs /\ chunks'[k] = cs[k]) \/ chunks'[k] = c
      BY <1>8, <2>2, AppendElements
    <3>3. QED
      BY <1>2, <1>4, <1>6, <3>1, <3>2
  <2>3. QED
    BY <1>7, <2>1, <2>2
<1>10. ASSUME NEW a, NEW b PROVE WordCount(a, b)' = WordCount(a, b)
  BY DEF WordCount, Words, Letters, IsSpace, Char
<1>11. PICK new : new = chunks'
  OBVIOUS
<1>12. \A k \in DOMAIN new :
         WordCount(new[k].prefix[1], new[k].prefix[2])' + WordCount(new[k].raw[1], new[k].raw[2])' <= hard
  BY <1>9, <1>10, <1>11
<1>13. QED
  BY <1>1, <1>11, <1>12 DEF WithinHardLimit, ChunkWords

\* Whether a text is even does not depend on the loop.
LEMMA EvenFrame ==
  ASSUME text' = text
  PROVE  Even' <=> Even
BY DEF Even, FindBreaks, Size, IsSpace, Char

\* A cut keeps the limit of even texts, if it is within the limit and where a word
\* ends or begins.
LEMMA CutWithin ==
  ASSUME LimitInv, pc = "loop", NEW end \in Int, Cut(end),
         Even => /\ end >= cursor
                 /\ OverlapWords + WordCount(cursor, Least(end, Size)) <= config.hard
                 /\ end < Size => end = 0 \/ IsSpace(end) \/ IsSpace(end - 1)
  PROVE  EvenInv'
<1>1. /\ Emit(Strip(Here, Bound(end))) /\ prev' = Strip(Here, Bound(end))
      /\ cursor' = end /\ text' = text /\ config' = config
  BY DEF Cut
<1>2. SUFFICES ASSUME Even
               PROVE  /\ WithinHardLimit'
                      /\ end \in Nat
                      /\ (WordCount(prev[1], prev[2]) <= config.hard)'
                      /\ end < Size' => end = 0 \/ IsSpace(end)' \/ IsSpace(end - 1)'
  BY <1>1, EvenFrame DEF EvenInv
<1>3. PICK here \in Nat, size \in Nat, hard \in Nat, over \in Nat :
        /\ here = cursor /\ here = Here /\ size = Size /\ hard = config.hard /\ over = OverlapWords
        /\ here < size
  BY <1>2, EvenNumbers
<1>4. end \in Nat /\ end >= here
  BY <1>2, <1>3
<1>5. PICK e \in Nat : /\ e = Bound(end) /\ e = Least(end, Size) /\ here <= e /\ e <= size
  BY <1>3, <1>4 DEF Bound, Least
<1>6. over + WordCount(here, e) <= hard /\ WordCount(here, e) \in Nat
  BY <1>2, <1>3, <1>5, WordsBounded
<1>7. WithinHardLimit'
  BY <1>1, <1>2, <1>3, <1>5, <1>6, EmitWithin
<1>8. PICK from \in Nat, to \in Nat :
        prev' = <<from, to>> /\ WordCount(from, to) <= WordCount(here, e)
  <2>1. prev' = Strip(here, e)
    BY <1>1, <1>3, <1>5
  <2>2. QED
    BY <1>5, <2>1, StripKeeps, StripWords
<1>9. WordCount(from, to) <= hard
  <2>1. WordCount(from, to) \in Nat
    BY WordsBounded
  <2>2. QED
    BY <1>6, <1>8, <2>1
<1>10. WordCount(from, to)' = WordCount(from, to)
  BY <1>1 DEF WordCount, Words, Letters, IsSpace, Char
<1>11. (WordCount(prev[1], prev[2]) <= config.hard)'
  <2>1. from = prev'[1] /\ to = prev'[2] /\ hard = config'.hard
    BY <1>1, <1>3, <1>8
  <2>2. WordCount(from, to)' <= hard
    BY <1>9, <1>10
  <2>3. QED
    BY <2>1, <2>2
<1>12. Size' = Size /\ IsSpace(end)' = IsSpace(end) /\ IsSpace(end - 1)' = IsSpace(end - 1)
  BY <1>1 DEF Size, IsSpace, Char
<1>13. QED
  BY <1>2, <1>4, <1>7, <1>11, <1>12

\* A step that leaves the cursor, the previous chunk and the text alone keeps what the
\* limit rests on.
LEMMA EvenStill ==
  ASSUME LimitInv, UNCHANGED <<text, config, cursor, prev>>, Even => WithinHardLimit'
  PROVE  EvenInv'
<1>1. text' = text /\ config' = config /\ cursor' = cursor /\ prev' = prev
  OBVIOUS
<1>2. PICK a, b, hard : a = prev[1] /\ b = prev[2] /\ hard = config.hard
  OBVIOUS
<1>3. WordCount(a, b)' = WordCount(a, b)
  BY <1>1 DEF WordCount, Words, Letters, IsSpace, Char
<1>4. ASSUME Even PROVE (WordCount(prev[1], prev[2]) <= config.hard)'
  <2>1. WordCount(a, b)' <= hard
    BY <1>2, <1>3, <1>4 DEF LimitInv, EvenInv
  <2>2. a = prev'[1] /\ b = prev'[2] /\ hard = config'.hard
    BY <1>1, <1>2
  <2>3. QED
    BY <2>1, <2>2
<1>5. ASSUME Even PROVE (cursor < Size => cursor = 0 \/ IsSpace(cursor) \/ IsSpace(cursor - 1))'
  BY <1>1, <1>5 DEF LimitInv, EvenInv, IsSpace, Char, Size
<1>6. ASSUME Even PROVE cursor' \in Nat
  BY <1>1, <1>6 DEF LimitInv, EvenInv
<1>7. QED
  BY <1>1, <1>4, <1>5, <1>6, EvenFrame DEF EvenInv

\* Chunks that do not change stay within the limit.
LEMMA WithinStill ==
  ASSUME LimitInv, UNCHANGED <<text, config, chunks>>, Even
  PROVE  WithinHardLimit'
<1>1. text' = text /\ config' = config /\ chunks' = chunks
  OBVIOUS
<1>2. PICK cs, hard : cs = chunks /\ hard = config.hard
  OBVIOUS
<1>3. ASSUME NEW a, NEW b PROVE WordCount(a, b)' = WordCount(a, b)
  BY <1>1 DEF WordCount, Words, Letters, IsSpace, Char
<1>4. \A k \in DOMAIN cs :
        WordCount(cs[k].prefix[1], cs[k].prefix[2]) + WordCount(cs[k].raw[1], cs[k].raw[2]) <= hard
  BY <1>2 DEF LimitInv, EvenInv, WithinHardLimit, ChunkWords
<1>5. \A k \in DOMAIN cs :
        WordCount(cs[k].prefix[1], cs[k].prefix[2])' + WordCount(cs[k].raw[1], cs[k].raw[2])' <= hard
  BY <1>3, <1>4
<1>6. cs = chunks' /\ hard = config'.hard
  BY <1>1, <1>2
<1>7. QED
  BY <1>5, <1>6 DEF WithinHardLimit, ChunkWords

\* Where the repeated words are exactly the limit, a hard split of an even text stays
\* at the cursor; otherwise it is within the limit, where a word ends or begins.
LEMMA EvenSplit ==
  ASSUME LimitInv, pc = "loop", Even, ~Fits
  PROVE  /\ HardSplit \in Int /\ HardSplit >= cursor
         /\ OverlapWords + WordCount(cursor, Least(HardSplit, Size)) <= config.hard
         /\ HardSplit < Size => \/ HardSplit = 0 \/ IsSpace(HardSplit) \/ IsSpace(HardSplit - 1)
<1>1. PICK here \in Nat, size \in Nat, over \in Nat, hard \in Nat :
        /\ here = cursor /\ size = Size /\ over = OverlapWords /\ hard = config.hard
        /\ here < size /\ Here = here /\ over <= hard
  BY EvenNumbers
<1>2. PICK num \in Int : num = hard - over
  OBVIOUS
<1>3. PICK end \in Int : /\ end = HardSplit /\ (over < hard => end > here)
                         /\ end <= here + Chars(num, 1)
  <2>1. HardChars = Chars(num, 1) /\ HardChars \in Int
    BY <1>1, <1>2, HardAhead DEF LimitInv
  <2>2. HardSplit \in Int /\ (over < hard => HardSplit > here) /\ HardSplit <= here + HardChars
    BY <1>1, <2>1, HardAhead DEF LimitInv
  <2>3. QED
    BY <2>1, <2>2
<1>4. CASE over < hard
  <2>1. end \in Nat /\ end > cursor /\ end <= cursor + Chars(num, 1)
    BY <1>1, <1>3, <1>4
  <2>2. num <= (config.hard - OverlapWords) * 1 /\ 1 \in Nat \ {0}
    BY <1>1, <1>2
  <2>3. OverlapWords + WordCount(cursor, Least(end, Size)) <= config.hard
    BY <2>1, <2>2, EvenReach
  <2>4. end < Size => IsSpace(end) \/ IsSpace(end - 1)
    BY <1>3, <2>1, EvenHardSplit
  <2>5. QED
    BY <1>1, <1>3, <2>1, <2>3, <2>4
<1>5. CASE over = hard
  <2>1. Chars(0, 1) = 0
    <3>1. PICK words \in Nat \ {0} : words = Most(1, RemainingWords)
      BY LoopCounts DEF Most, LimitInv
    <3>2. 0 \div words = 0 /\ size - here \in Nat
      BY <1>1
    <3>3. QED
      BY <1>1, <3>1, <3>2 DEF Chars, Truncate
  <2>2. HardChars = 0
    BY <1>1, <1>5, <2>1 DEF HardChars
  <2>3. HardSplit = here
    BY <1>1, <1>3, <2>2, HardAhead DEF LimitInv
  <2>4. Least(HardSplit, Size) = here
    BY <1>1, <2>3 DEF Least
  <2>5. Words(here, here) = {}
    BY DEF Words, Letters
  <2>6. WordCount(here, here) = 0
    BY <2>5, FS_EmptySet DEF WordCount
  <2>7. OverlapWords + WordCount(cursor, Least(HardSplit, Size)) <= config.hard
    BY <1>1, <1>5, <2>4, <2>6
  <2>8. cursor = 0 \/ IsSpace(cursor) \/ IsSpace(cursor - 1)
    BY <1>1 DEF LimitInv, EvenInv
  <2>9. QED
    BY <1>1, <2>3, <2>7, <2>8
<1>6. QED
  BY <1>1, <1>4, <1>5

\* The limit of even texts is inductive with the invariant of the loop.
LEMMA LimitStep == LimitInv /\ [Next]_vars => LimitInv'
<1> SUFFICES ASSUME LimitInv, [Next]_vars PROVE EvenInv'
  BY ChunkStep DEF LimitInv
<1>1. CASE FinalChunk
  <2>1. /\ pc = "loop" /\ Fits /\ Emit(Strip(Here, Size))
        /\ text' = text /\ config' = config /\ cursor' = cursor /\ prev' = prev
    BY <1>1 DEF FinalChunk, Iterate
  <2>2. ASSUME Even PROVE WithinHardLimit'
    <3>1. PICK e \in Nat : e = Size /\ cursor <= e
      BY <2>1, <2>2, EvenNumbers
    <3>2. OverlapWords + WordCount(cursor, e) <= config.hard
      BY <2>1, <2>2, <3>1, EvenNumbers DEF Fits, RemainingWords
    <3>3. e <= Size /\ Emit(Strip(Here, e))
      BY <2>1, <3>1
    <3>4. QED
      BY <2>1, <2>2, <3>1, <3>2, <3>3, EmitWithin
  <2>3. QED
    BY <2>1, <2>2, EvenStill
<1>2. CASE CutAtBreak
  <2>1. pc = "loop" /\ BreakPos # NoBreak /\ Cut(BreakPos)
    BY <1>2 DEF CutAtBreak, Iterate
  <2>2. PICK end \in Nat, num \in Int :
          /\ end = BreakPos /\ end > cursor
          /\ num <= (config.hard - OverlapWords) * Tolerance[2]
          /\ end <= cursor + Chars(num, Tolerance[2])
    BY <2>1, BreakAhead DEF LimitInv
  <2>3. Cut(end) /\ end \in Int
    BY <2>1, <2>2 DEF Cut
  <2>4. ASSUME Even PROVE /\ end >= cursor
                          /\ OverlapWords + WordCount(cursor, Least(end, Size)) <= config.hard
                          /\ end < Size => end = 0 \/ IsSpace(end) \/ IsSpace(end - 1)
    <3>1. Tolerance[2] \in Nat \ {0}
      BY ChunkAssumption
    <3>2. OverlapWords + WordCount(cursor, Least(end, Size)) <= config.hard
      BY <2>1, <2>2, <2>4, <3>1, EvenReach
    <3>3. end < Size => IsSpace(end) \/ IsSpace(end - 1)
      BY <2>1, <2>2, <2>4, EvenBreak
    <3>4. end >= cursor
      BY <2>1, <2>2, <2>4, EvenNumbers
    <3>5. QED
      BY <3>2, <3>3, <3>4
  <2>5. QED
    BY <2>1, <2>3, <2>4, CutWithin
<1>3. CASE CutHard
  <2>1. pc = "loop" /\ ~Fits /\ Cut(HardSplit)
    BY <1>3 DEF CutHard, Iterate
  <2>2. PICK end \in Int : end = HardSplit
    BY <2>1, HardAhead DEF LimitInv
  <2>3. Cut(end)
    BY <2>1, <2>2 DEF Cut
  <2>4. ASSUME Even PROVE /\ end >= cursor
                          /\ OverlapWords + WordCount(cursor, Least(end, Size)) <= config.hard
                          /\ end < Size => end = 0 \/ IsSpace(end) \/ IsSpace(end - 1)
    BY <2>1, <2>2, <2>4, EvenSplit
  <2>5. QED
    BY <2>1, <2>3, <2>4, CutWithin
<1>4. CASE UNCHANGED <<text, config, cursor, prev, chunks>>
  <2>1. UNCHANGED <<text, config, cursor, prev>> /\ UNCHANGED <<text, config, chunks>>
    BY <1>4
  <2>2. QED
    BY <2>1, EvenStill, WithinStill
<1>5. QED
  BY <1>1, <1>2, <1>3, <1>4 DEF Next, IndexError, vars

\* In a text of even words no chunk of chunk_at_boundaries exceeds the hard limit, the
\* repeated words included.
THEOREM EvenWithinLimit == Spec => []EvenTextWithinLimit
<1>1. Init => LimitInv
  <2>1. SUFFICES ASSUME Init PROVE EvenInv
    BY ChunkStart DEF LimitInv
  <2>2. DOMAIN chunks = {} /\ cursor = 0 /\ prev[1] = 0 /\ prev[2] = 0
    BY <2>1 DEF Init
  <2>3. Words(0, 0) = {}
    BY DEF Words, Letters
  <2>4. WordCount(0, 0) = 0 /\ config.hard \in Nat
    BY <2>1, <2>3, FS_EmptySet, ChunkStart, LoopNumbers DEF WordCount
  <2>5. QED
    BY <2>2, <2>4 DEF EvenInv, WithinHardLimit
<1>2. LimitInv => EvenTextWithinLimit
  BY DEF LimitInv, EvenInv, EvenTextWithinLimit
<1>3. QED
  BY <1>1, <1>2, LimitStep, PTL DEF Spec

=============================================================================
