---------------------------- MODULE SequenceFacts ----------------------------
(***************************************************************************)
(* What the edits of sequences the models use do to the elements: removing *)
(* and inserting one, taking the first, adding at either end.              *)
(***************************************************************************)
EXTENDS Integers, Sequences, SequencesExt, FiniteSetsExt, SequenceTheorems,
        WellFoundedInduction, TLAPS

-----------------------------------------------------------------------------
(* The elements of a sequence. *)

LEMMA ElementsOf ==
  ASSUME NEW S, NEW s \in Seq(S)
  PROVE  /\ Len(s) \in Nat /\ DOMAIN s = 1..Len(s)
         /\ \A i \in 1..Len(s) : s[i] \in S /\ s[i] \in ToSet(s)
         /\ \A e \in ToSet(s) : \E i \in 1..Len(s) : s[i] = e
         /\ ToSet(s) \subseteq S
         /\ ToSet(<<>>) = {}
<1>1. Len(s) \in Nat /\ DOMAIN s = 1..Len(s) /\ \A i \in 1..Len(s) : s[i] \in S
  BY LenProperties, ElementOfSeq
<1> QED BY <1>1 DEF ToSet

(* One more element in front *)
LEMMA ConsElements ==
  ASSUME NEW S, NEW s \in Seq(S), NEW e \in S
  PROVE  <<e>> \o s \in Seq(S) /\ ToSet(<<e>> \o s) = {e} \cup ToSet(s)
<1> DEFINE t == <<e>> \o s
<1>1. /\ t \in Seq(S) /\ Len(t) = 1 + Len(s)
      /\ \A i \in 1..(1 + Len(s)) : t[i] = IF i = 1 THEN e ELSE s[i - 1]
  <2>1. <<e>> \in Seq(S) /\ Len(<<e>>) = 1 /\ <<e>>[1] = e
    OBVIOUS
  <2> QED BY <2>1, ConcatProperties
<1> HIDE DEF t
<1>2. Len(s) \in Nat /\ DOMAIN s = 1..Len(s) /\ DOMAIN t = 1..(1 + Len(s))
  BY <1>1, LenProperties
<1>3. ToSet(t) \subseteq {e} \cup ToSet(s)
  <2> SUFFICES ASSUME NEW i \in 1..(1 + Len(s)), i # 1 PROVE t[i] \in ToSet(s)
    BY <1>1, <1>2 DEF ToSet
  <2>1. i - 1 \in 1..Len(s) /\ t[i] = s[i - 1]
    BY <1>1, <1>2
  <2> QED BY <1>2, <2>1 DEF ToSet
<1>4. ToSet(s) \subseteq ToSet(t)
  <2> SUFFICES ASSUME NEW i \in 1..Len(s) PROVE s[i] \in ToSet(t)
    BY <1>2 DEF ToSet
  <2>1. i + 1 \in 1..(1 + Len(s)) /\ i + 1 # 1 /\ (i + 1) - 1 = i
    BY <1>2
  <2>2. t[i + 1] = s[i]
    BY <1>1, <2>1
  <2> QED BY <1>2, <2>1, <2>2 DEF ToSet
<1>5. e \in ToSet(t)
  <2>1. 1 \in 1..(1 + Len(s)) /\ t[1] = e
    BY <1>1, <1>2
  <2> QED BY <1>2, <2>1 DEF ToSet
<1> QED BY <1>1, <1>3, <1>4, <1>5 DEF t

(* The first element and the others *)
LEMMA HeadTailElements ==
  ASSUME NEW S, NEW s \in Seq(S), s # <<>>
  PROVE  /\ Head(s) \in S /\ Tail(s) \in Seq(S)
         /\ ToSet(s) = {Head(s)} \cup ToSet(Tail(s))
<1>1. /\ Head(s) \in S /\ Tail(s) \in Seq(S) /\ Len(s) \in Nat /\ Len(s) >= 1
      /\ Len(Tail(s)) = Len(s) - 1
      /\ \A i \in 1..Len(Tail(s)) : Tail(s)[i] = s[i + 1]
      /\ Head(s) = s[1]
  BY HeadTailProperties
<1>2. DOMAIN s = 1..Len(s) /\ DOMAIN Tail(s) = 1..(Len(s) - 1)
  BY <1>1, LenProperties
<1>3. Head(s) \in ToSet(s)
  <2>1. 1 \in 1..Len(s)
    BY <1>1
  <2> QED BY <1>1, <1>2, <2>1 DEF ToSet
<1>4. ToSet(Tail(s)) \subseteq ToSet(s)
  <2> SUFFICES ASSUME NEW i \in 1..(Len(s) - 1) PROVE Tail(s)[i] \in ToSet(s)
    BY <1>2 DEF ToSet
  <2>1. i + 1 \in 1..Len(s) /\ Tail(s)[i] = s[i + 1]
    BY <1>1
  <2> QED BY <1>2, <2>1 DEF ToSet
<1>5. ToSet(s) \subseteq {Head(s)} \cup ToSet(Tail(s))
  <2> SUFFICES ASSUME NEW i \in 1..Len(s), i # 1 PROVE s[i] \in ToSet(Tail(s))
    BY <1>1, <1>2 DEF ToSet
  <2>1. i - 1 \in 1..(Len(s) - 1) /\ (i - 1) + 1 = i
    BY <1>1
  <2>2. Tail(s)[i - 1] = s[i]
    BY <1>1, <2>1
  <2> QED BY <1>2, <2>1, <2>2 DEF ToSet
<1> QED BY <1>1, <1>3, <1>4, <1>5

-----------------------------------------------------------------------------
(* The smallest and the largest index. *)

LEMMA MinOf ==
  ASSUME NEW S \in SUBSET Nat, S # {}
  PROVE  Min(S) \in S /\ \A k \in S : Min(S) <= k
<1> DEFINE R == OpToRel(<, Nat)
<1>1. PICK x \in S : \A y \in S : <<y, x>> \notin R
  <2>1. IsWellFoundedOn(R, Nat)
    BY NatLessThanWellFounded
  <2> HIDE DEF R
  <2> QED BY <2>1, WFMin
<1>2. \A k \in S : x <= k
  <2> SUFFICES ASSUME NEW k \in S PROVE x <= k
    OBVIOUS
  <2>1. <<k, x>> \notin R
    BY <1>1
  <2>2. k \in Nat /\ x \in Nat
    OBVIOUS
  <2>3. ~(k < x)
    BY <2>1, <2>2 DEF OpToRel
  <2> QED BY <2>2, <2>3
<1> QED BY <1>2 DEF Min

(* What holds of lo and passes from each number to the next, up to hi      *)
LEMMA RangeInduction ==
  ASSUME NEW lo \in Nat, NEW hi \in Nat, NEW P,
         lo \in P, \A i \in lo..(hi - 1) : i \in P => i + 1 \in P
  PROVE  \A i \in lo..hi : i \in P
<1> DEFINE Bad == {i \in lo..hi : i \notin P}
<1> SUFFICES ASSUME Bad # {} PROVE FALSE
  OBVIOUS
<1>1. Bad \in SUBSET Nat
  OBVIOUS
<1> DEFINE m == Min(Bad)
<1>2. m \in Bad /\ \A k \in Bad : m <= k
  BY <1>1, MinOf
<1>3. m \in lo..hi /\ m \notin P /\ m \in Nat
  BY <1>2
<1> HIDE DEF m, Bad
<1>4. m - 1 \in lo..(hi - 1)
  BY <1>3
<1>5. m - 1 \in P
  <2>1. m - 1 \in lo..hi /\ ~(m <= m - 1)
    BY <1>3, <1>4
  <2> QED BY <1>2, <2>1 DEF Bad
<1>6. (m - 1) + 1 = m
  BY <1>3
<1> QED BY <1>3, <1>4, <1>5, <1>6

(* NatLessThanWellFounded orders the distances to an upper bound. *)
LEMMA MaxOf ==
  ASSUME NEW n \in Nat, NEW S \in SUBSET (1..n), S # {}
  PROVE  Max(S) \in S /\ \A k \in S : k <= Max(S)
<1> DEFINE R == OpToRel(<, Nat)
           T == {n - k : k \in S}
<1>1. PICK x \in T : \A y \in T : <<y, x>> \notin R
  <2>1. IsWellFoundedOn(R, Nat)
    BY NatLessThanWellFounded
  <2>2. \A k \in S : n - k \in Nat
    OBVIOUS
  <2>3. T \subseteq Nat /\ T # {}
    BY <2>2
  <2> HIDE DEF R, T
  <2> QED BY <2>1, <2>3, WFMin
<1>2. PICK k \in S : x = n - k
  OBVIOUS
<1>3. \A j \in S : k >= j
  <2> SUFFICES ASSUME NEW j \in S PROVE k >= j
    OBVIOUS
  <2>1. <<n - j, n - k>> \notin R
    BY <1>1, <1>2
  <2>2. n - j \in Nat /\ n - k \in Nat /\ k \in Nat /\ j \in Nat
    OBVIOUS
  <2>3. ~(n - j < n - k)
    BY <2>1, <2>2 DEF OpToRel
  <2> QED BY <2>2, <2>3
<1> QED BY <1>3 DEF Max

-----------------------------------------------------------------------------
(* Removing an element. *)

(* Removing position i keeps every other element and adds none. *)
LEMMA RemoveAtFacts ==
  ASSUME NEW S, NEW s \in Seq(S), NEW i \in 1..Len(s)
  PROVE  /\ RemoveAt(s, i) \in Seq(S)
         /\ Len(RemoveAt(s, i)) = Len(s) - 1
         /\ ToSet(RemoveAt(s, i)) \subseteq ToSet(s)
         /\ \A j \in 1..Len(s) : j # i => s[j] \in ToSet(RemoveAt(s, i))
         /\ \A j \in 1..(i-1) : RemoveAt(s, i)[j] = s[j]
         /\ \A j \in i..(Len(s)-1) : RemoveAt(s, i)[j] = s[j+1]
<1> DEFINE n == Len(s)
           lo == SubSeq(s, 1, i-1)
           hi == SubSeq(s, i+1, n)
           r == RemoveAt(s, i)
<1>1. n \in Nat /\ i \in Nat /\ i >= 1 /\ i <= n /\ DOMAIN s = 1..n
  BY LenProperties
<1>2. \A j \in 1..n : s[j] \in S
  BY ElementOfSeq
<1>3. r = lo \o hi
  BY DEF RemoveAt
<1> HIDE DEF n, r
<1>4. /\ lo \in Seq(S) /\ Len(lo) = i-1
      /\ \A j \in 1..(i-1) : lo[j] = s[j]
  <2>1. \A j \in 1..(i-1) : s[j] \in S
    BY <1>1, <1>2
  <2>2. 1 \in Int /\ i-1 \in Int
    BY <1>1
  <2>3. /\ lo \in Seq(S) /\ Len(lo) = (IF 1 <= i-1 THEN (i-1)-1+1 ELSE 0)
        /\ \A j \in 1..((i-1)-1+1) : lo[j] = s[1+j-1]
    BY <2>1, <2>2, SubSeqProperties
  <2> HIDE DEF lo
  <2>4. (IF 1 <= i-1 THEN (i-1)-1+1 ELSE 0) = i-1
    BY <1>1
  <2>5. ASSUME NEW j \in 1..(i-1) PROVE lo[j] = s[j]
    <3>1. j \in 1..((i-1)-1+1) /\ 1+j-1 = j
      BY <1>1
    <3> QED BY <2>3, <3>1
  <2> QED BY <2>3, <2>4, <2>5
<1>5. /\ hi \in Seq(S) /\ Len(hi) = n-i
      /\ \A j \in 1..(n-i) : hi[j] = s[i+j]
  <2>1. \A j \in (i+1)..n : s[j] \in S
    BY <1>1, <1>2
  <2>2. i+1 \in Int /\ n \in Int
    BY <1>1
  <2>3. /\ hi \in Seq(S) /\ Len(hi) = (IF i+1 <= n THEN n-(i+1)+1 ELSE 0)
        /\ \A j \in 1..(n-(i+1)+1) : hi[j] = s[(i+1)+j-1]
    BY <2>1, <2>2, SubSeqProperties
  <2> HIDE DEF hi
  <2>4. (IF i+1 <= n THEN n-(i+1)+1 ELSE 0) = n-i
    BY <1>1
  <2>5. ASSUME NEW j \in 1..(n-i) PROVE hi[j] = s[i+j]
    <3>1. j \in 1..(n-(i+1)+1) /\ (i+1)+j-1 = i+j
      BY <1>1
    <3> QED BY <2>3, <3>1
  <2> QED BY <2>3, <2>4, <2>5
<1> HIDE DEF lo, hi
<1>6. /\ r \in Seq(S) /\ Len(r) = n-1
      /\ \A j \in 1..(n-1) : r[j] = IF j <= i-1 THEN lo[j] ELSE hi[j-(i-1)]
  <2>1. /\ lo \o hi \in Seq(S)
        /\ Len(lo \o hi) = Len(lo) + Len(hi)
        /\ \A j \in 1..(Len(lo) + Len(hi)) :
             (lo \o hi)[j] = IF j <= Len(lo) THEN lo[j] ELSE hi[j - Len(lo)]
    BY <1>4, <1>5, ConcatProperties
  <2>2. Len(lo) + Len(hi) = n-1
    BY <1>1, <1>4, <1>5
  <2> QED BY <1>3, <1>4, <2>1, <2>2
<1>7. DOMAIN r = 1..(n-1)
  BY <1>6, LenProperties
<1>8. ASSUME NEW j \in 1..(n-1)
      PROVE  \E k \in 1..n : r[j] = s[k]
  <2>1. CASE j <= i-1
    BY <2>1, <1>1, <1>4, <1>6
  <2>2. CASE ~(j <= i-1)
    <3>1. j-(i-1) \in 1..(n-i) /\ i+(j-(i-1)) \in 1..n
      BY <2>2, <1>1
    <3> QED BY <2>2, <3>1, <1>5, <1>6
  <2> QED BY <2>1, <2>2
<1>9. ASSUME NEW j \in 1..n, j # i
      PROVE  \E k \in 1..(n-1) : r[k] = s[j]
  <2>1. CASE j < i
    <3>1. j \in 1..(n-1) /\ j <= i-1 /\ j \in 1..(i-1)
      BY <2>1, <1>1
    <3> QED BY <3>1, <1>4, <1>6
  <2>2. CASE j > i
    <3>1. j-1 \in 1..(n-1) /\ ~(j-1 <= i-1) /\ (j-1)-(i-1) \in 1..(n-i)
          /\ i+((j-1)-(i-1)) = j
      BY <2>2, <1>1
    <3> QED BY <3>1, <1>5, <1>6
  <2> QED BY <2>1, <2>2, <1>9, <1>1
<1>10. ToSet(r) \subseteq ToSet(s)
  BY <1>1, <1>7, <1>8 DEF ToSet
<1>11. \A j \in 1..n : j # i => s[j] \in ToSet(r)
  BY <1>7, <1>9 DEF ToSet
<1>12. ASSUME NEW j \in 1..(i-1)
       PROVE  r[j] = s[j]
  <2>1. j \in 1..(n-1) /\ j <= i-1
    BY <1>1
  <2> QED BY <2>1, <1>4, <1>6
<1>13. ASSUME NEW j \in i..(n-1)
       PROVE  r[j] = s[j+1]
  <2>1. j \in 1..(n-1) /\ ~(j <= i-1) /\ j-(i-1) \in 1..(n-i) /\ i+(j-(i-1)) = j+1
    BY <1>1
  <2> QED BY <2>1, <1>5, <1>6
<1> QED BY <1>6, <1>10, <1>11, <1>12, <1>13 DEF r, n

(* Removing the first occurrence of an element. *)
LEMMA RemoveFirstFacts ==
  ASSUME NEW S, NEW s \in Seq(S), NEW e
  PROVE  /\ RemoveFirst(s, e) \in Seq(S)
         /\ ToSet(RemoveFirst(s, e)) \subseteq ToSet(s)
         /\ \A x \in ToSet(s) : x # e => x \in ToSet(RemoveFirst(s, e))
<1> DEFINE I == {i \in 1..Len(s) : s[i] = e}
<1>1. Len(s) \in Nat /\ DOMAIN s = 1..Len(s)
  BY LenProperties
<1>2. CASE I = {}
  <2>1. RemoveFirst(s, e) = s
    BY <1>2 DEF RemoveFirst
  <2> QED BY <2>1
<1>3. CASE I # {}
  <2>1. Min(I) \in I
    <3>1. I \in SUBSET Nat
      BY <1>1
    <3> QED BY <1>3, <3>1, MinOf
  <2>2. RemoveFirst(s, e) = RemoveAt(s, Min(I))
    BY <1>3 DEF RemoveFirst, SelectInSeq
  <2> DEFINE k == Min(I)
  <2>3. k \in 1..Len(s) /\ s[k] = e
    BY <2>1
  <2> HIDE DEF k, I
  <2>4. /\ RemoveAt(s, k) \in Seq(S)
        /\ ToSet(RemoveAt(s, k)) \subseteq ToSet(s)
        /\ \A j \in 1..Len(s) : j # k => s[j] \in ToSet(RemoveAt(s, k))
    BY <2>3, RemoveAtFacts
  <2>5. ASSUME NEW x \in ToSet(s), x # e
        PROVE  x \in ToSet(RemoveAt(s, k))
    <3>1. PICK j \in 1..Len(s) : s[j] = x
      BY <1>1 DEF ToSet
    <3> QED BY <2>3, <2>4, <2>5, <3>1
  <2> QED BY <2>2, <2>4, <2>5 DEF k
<1> QED BY <1>2, <1>3

(* What is left stays in order, and an element that occurs once is gone. *)
LEMMA RemoveFirstOrder ==
  ASSUME NEW S, NEW s \in Seq(S), NEW e
  PROVE  /\ \A i, j \in 1..Len(RemoveFirst(s, e)) : i < j =>
              \E k, l \in 1..Len(s) :
                k < l /\ s[k] = RemoveFirst(s, e)[i] /\ s[l] = RemoveFirst(s, e)[j]
         /\ (\A k, l \in 1..Len(s) : s[k] = s[l] => k = l) => e \notin ToSet(RemoveFirst(s, e))
<1> DEFINE I == {i \in 1..Len(s) : s[i] = e}
           n == Len(s)
           r == RemoveFirst(s, e)
<1>1. n \in Nat /\ DOMAIN s = 1..n
  BY LenProperties
<1>2. CASE I = {}
  <2>1. RemoveFirst(s, e) = s
    BY <1>2 DEF RemoveFirst
  <2>2. e \notin ToSet(s)
    BY <1>1, <1>2 DEF ToSet
  <2>3. \A i, j \in 1..n : i < j => \E k, l \in 1..n : k < l /\ s[k] = s[i] /\ s[l] = s[j]
    OBVIOUS
  <2> QED BY <2>1, <2>2, <2>3
<1>3. CASE I # {}
  <2>1. Min(I) \in I
    <3>1. I \in SUBSET Nat
      BY <1>1
    <3> QED BY <1>3, <3>1, MinOf
  <2>2. r = RemoveAt(s, Min(I))
    BY <1>3 DEF RemoveFirst, SelectInSeq
  <2> DEFINE p == Min(I)
  <2>3. p \in 1..n /\ s[p] = e
    BY <2>1
  <2> HIDE DEF p, I, r
  <2>4. /\ r \in Seq(S) /\ Len(r) = n - 1
        /\ \A j \in 1..(p-1) : r[j] = s[j]
        /\ \A j \in p..(n-1) : r[j] = s[j+1]
    BY <2>2, <2>3, RemoveAtFacts DEF p
  <2> DEFINE at(j) == IF j < p THEN j ELSE j + 1
  <2>5. \A j \in 1..(n-1) : at(j) \in 1..n /\ at(j) # p /\ r[j] = s[at(j)]
    <3> TAKE j \in 1..(n-1)
    <3>1. CASE j < p
      <4>1. j \in 1..(p-1)
        BY <1>1, <2>3, <3>1
      <4> QED BY <1>1, <2>3, <2>4, <3>1, <4>1
    <3>2. CASE ~(j < p)
      <4>1. j \in p..(n-1)
        BY <1>1, <2>3, <3>2
      <4> QED BY <1>1, <2>3, <2>4, <3>2, <4>1
    <3> QED BY <3>1, <3>2
  <2>6. \A i, j \in 1..(n-1) : i < j => at(i) < at(j)
    BY <1>1, <2>3
  <2> HIDE DEF at
  <2>7. \A i, j \in 1..Len(r) : i < j => \E k, l \in 1..n : k < l /\ s[k] = r[i] /\ s[l] = r[j]
    <3> TAKE i, j \in 1..Len(r)
    <3> HAVE i < j
    <3>1. at(i) \in 1..n /\ at(j) \in 1..n /\ at(i) < at(j) /\ r[i] = s[at(i)] /\ r[j] = s[at(j)]
      BY <2>4, <2>5, <2>6
    <3> QED BY <3>1
  <2>8. ASSUME \A k, l \in 1..n : s[k] = s[l] => k = l, e \in ToSet(r)
        PROVE  FALSE
    <3>1. PICK j \in 1..(n-1) : r[j] = e
      BY <2>4, <2>8, ElementsOf
    <3> QED BY <2>3, <2>5, <2>8, <3>1
  <2> QED BY <2>7, <2>8 DEF r
<1> QED BY <1>2, <1>3

(* The same of two positions *)
LEMMA RemoveFirstPair ==
  ASSUME NEW S, NEW s \in Seq(S), NEW e, NEW r, r = RemoveFirst(s, e),
         NEW i \in 1..Len(r), NEW j \in 1..Len(r), i < j
  PROVE  \E k, l \in 1..Len(s) : k < l /\ s[k] = r[i] /\ s[l] = r[j]
BY RemoveFirstOrder

-----------------------------------------------------------------------------
(* Inserting an element at a position up to one past the end. *)
LEMMA InsertAtFacts ==
  ASSUME NEW S, NEW s \in Seq(S), NEW i \in 1..(Len(s)+1), NEW e \in S
  PROVE  /\ InsertAt(s, i, e) \in Seq(S)
         /\ ToSet(InsertAt(s, i, e)) = ToSet(s) \cup {e}
         /\ Len(InsertAt(s, i, e)) = Len(s) + 1
         /\ \A j \in 1..(Len(s)+1) :
              InsertAt(s, i, e)[j] = IF j < i THEN s[j] ELSE IF j = i THEN e ELSE s[j-1]
<1> DEFINE n == Len(s)
           lo == SubSeq(s, 1, i-1)
           hi == SubSeq(s, i, n)
           t == InsertAt(s, i, e)
<1>1. /\ n \in Nat /\ DOMAIN s = 1..n /\ \A j \in 1..n : s[j] \in S
      /\ i \in Nat /\ i >= 1 /\ i <= n + 1
  BY LenProperties, ElementOfSeq
<1>2. t = (lo \o <<e>>) \o hi
  BY DEF InsertAt
<1> HIDE DEF n, t
<1>3. /\ lo \in Seq(S) /\ Len(lo) = i-1
      /\ \A j \in 1..(i-1) : lo[j] = s[j]
  <2>1. (\A j \in 1..(i-1) : s[j] \in S) /\ 1 \in Int /\ i-1 \in Int
    BY <1>1
  <2>2. /\ lo \in Seq(S) /\ Len(lo) = (IF 1 <= i-1 THEN (i-1)-1+1 ELSE 0)
        /\ \A j \in 1..((i-1)-1+1) : lo[j] = s[1+j-1]
    BY <2>1, SubSeqProperties
  <2> HIDE DEF lo
  <2>3. (IF 1 <= i-1 THEN (i-1)-1+1 ELSE 0) = i-1
    BY <1>1
  <2>4. ASSUME NEW j \in 1..(i-1) PROVE lo[j] = s[j]
    <3>1. j \in 1..((i-1)-1+1) /\ 1+j-1 = j
      BY <1>1
    <3> QED BY <2>2, <3>1
  <2> QED BY <2>2, <2>3, <2>4
<1>4. /\ hi \in Seq(S) /\ Len(hi) = n-i+1
      /\ \A j \in 1..(n-i+1) : hi[j] = s[i+j-1]
  <2>1. (\A j \in i..n : s[j] \in S) /\ i \in Int /\ n \in Int
    BY <1>1
  <2>2. /\ hi \in Seq(S) /\ Len(hi) = (IF i <= n THEN n-i+1 ELSE 0)
        /\ \A j \in 1..(n-i+1) : hi[j] = s[i+j-1]
    BY <2>1, SubSeqProperties
  <2> HIDE DEF hi
  <2>3. (IF i <= n THEN n-i+1 ELSE 0) = n-i+1
    BY <1>1
  <2> QED BY <2>2, <2>3
<1> HIDE DEF lo, hi
<1>5. /\ lo \o <<e>> \in Seq(S) /\ Len(lo \o <<e>>) = i
      /\ \A j \in 1..i : (lo \o <<e>>)[j] = IF j <= i-1 THEN lo[j] ELSE e
  <2>1. <<e>> \in Seq(S) /\ Len(<<e>>) = 1 /\ <<e>>[1] = e
    OBVIOUS
  <2>2. /\ lo \o <<e>> \in Seq(S) /\ Len(lo \o <<e>>) = (i-1) + 1
        /\ \A j \in 1..((i-1) + 1) : (lo \o <<e>>)[j] = IF j <= i-1 THEN lo[j] ELSE <<e>>[j-(i-1)]
    BY <1>3, <2>1, ConcatProperties
  <2>3. (i-1) + 1 = i
    BY <1>1
  <2>4. ASSUME NEW j \in 1..i, ~(j <= i-1) PROVE j-(i-1) = 1
    BY <1>1, <2>4
  <2> QED BY <2>1, <2>2, <2>3, <2>4
<1> DEFINE front == lo \o <<e>>
<1> HIDE DEF front
<1>6. /\ t \in Seq(S) /\ Len(t) = n + 1
      /\ \A j \in 1..(n + 1) : t[j] = IF j <= i THEN front[j] ELSE hi[j-i]
  <2>0. front \in Seq(S) /\ Len(front) = i
    BY <1>5 DEF front
  <2>1. /\ front \o hi \in Seq(S) /\ Len(front \o hi) = Len(front) + Len(hi)
        /\ \A j \in 1..(Len(front) + Len(hi)) :
             (front \o hi)[j] = IF j <= Len(front) THEN front[j] ELSE hi[j - Len(front)]
    BY <1>4, <2>0, ConcatProperties
  <2>2. Len(front) + Len(hi) = n + 1
    BY <1>1, <1>4, <2>0
  <2>3. t = front \o hi
    BY <1>2 DEF front
  <2> QED BY <2>0, <2>1, <2>2, <2>3
<1>7. \A j \in 1..(n + 1) : t[j] = IF j < i THEN s[j] ELSE IF j = i THEN e ELSE s[j-1]
  <2> TAKE j \in 1..(n + 1)
  <2>1. CASE j < i
    <3>1. j \in 1..i /\ j <= i-1 /\ j <= i /\ j \in 1..(i-1)
      BY <1>1, <2>1
    <3> QED BY <1>3, <1>5, <1>6, <2>1, <3>1 DEF front
  <2>2. CASE j = i
    <3>1. j \in 1..i /\ ~(j <= i-1) /\ j <= i
      BY <1>1, <2>2
    <3> QED BY <1>5, <1>6, <2>2, <3>1 DEF front
  <2>3. CASE j > i
    <3>1. ~(j <= i) /\ j-i \in 1..(n-i+1) /\ i+(j-i)-1 = j-1
      BY <1>1, <2>3
    <3>2. hi[j-i] = s[j-1]
      BY <1>4, <3>1
    <3> QED BY <1>1, <1>6, <2>3, <3>1, <3>2
  <2> QED BY <1>1, <2>1, <2>2, <2>3
<1>8. DOMAIN t = 1..(n + 1)
  BY <1>6, LenProperties
<1>9. ToSet(t) \subseteq ToSet(s) \cup {e}
  <2> SUFFICES ASSUME NEW j \in 1..(n + 1), j # i PROVE t[j] \in ToSet(s)
    BY <1>7, <1>8 DEF ToSet
  <2>0. j \in Nat /\ j >= 1 /\ j <= n + 1
    BY <1>1
  <2>1. CASE j < i
    <3>1. j \in 1..n /\ t[j] = s[j]
      BY <1>1, <1>7, <2>0, <2>1
    <3> QED BY <1>1, <3>1 DEF ToSet
  <2>2. CASE j > i
    <3>1. j - 1 \in 1..n
      BY <1>1, <2>0, <2>2
    <3>2. t[j] = s[j - 1]
      BY <1>1, <1>7, <2>0, <2>2
    <3> QED BY <1>1, <3>1, <3>2 DEF ToSet
  <2> QED BY <1>1, <2>0, <2>1, <2>2
<1>10. ToSet(s) \subseteq ToSet(t)
  <2> SUFFICES ASSUME NEW j \in 1..n PROVE s[j] \in ToSet(t)
    BY <1>1 DEF ToSet
  <2>1. CASE j < i
    <3>1. j \in 1..(n + 1) /\ t[j] = s[j]
      BY <1>1, <1>7, <2>1
    <3> QED BY <1>8, <3>1 DEF ToSet
  <2>2. CASE ~(j < i)
    <3>1. j + 1 \in 1..(n + 1) /\ ~(j + 1 < i) /\ j + 1 # i /\ (j + 1) - 1 = j
      BY <1>1, <2>2
    <3>2. t[j + 1] = s[j]
      BY <1>7, <3>1
    <3> QED BY <1>8, <3>1, <3>2 DEF ToSet
  <2> QED BY <2>1, <2>2
<1>11. e \in ToSet(t)
  <2>1. i \in 1..(n + 1)
    BY <1>1
  <2>2. t[i] = e
    BY <1>1, <1>7, <2>1
  <2> QED BY <1>8, <2>1, <2>2 DEF ToSet
<1>12. ToSet(t) = ToSet(s) \cup {e}
  BY <1>9, <1>10, <1>11
<1> QED BY <1>6, <1>7, <1>12 DEF t, n

-----------------------------------------------------------------------------
(* Sequences of two. *)

(* Removing one of two elements leaves the other. *)
LEMMA RemoveOfTwo ==
  ASSUME NEW S, NEW s \in Seq(S), Len(s) = 2, NEW i \in 1..2
  PROVE  /\ RemoveAt(s, i) \in Seq(S)
         /\ Len(RemoveAt(s, i)) = 1
         /\ RemoveAt(s, i)[1] = s[3-i]
<1> DEFINE r == RemoveAt(s, i)
<1>0. i \in 1..Len(s) /\ Len(s) \in Nat
  OBVIOUS
<1>1. r \in Seq(S) /\ Len(r) = 1 /\ \A j \in 1..2 : j # i => s[j] \in ToSet(r)
  <2>1. /\ RemoveAt(s, i) \in Seq(S)
        /\ Len(RemoveAt(s, i)) = Len(s) - 1
        /\ \A j \in 1..Len(s) : j # i => s[j] \in ToSet(RemoveAt(s, i))
    BY <1>0, RemoveAtFacts
  <2> QED BY <2>1
<1> HIDE DEF r
<1>2. 3-i \in 1..2 /\ 3-i # i
  OBVIOUS
<1>3. PICK k \in 1..Len(r) : r[k] = s[3-i]
  BY <1>1, <1>2, ElementsOf
<1>4. k = 1
  BY <1>1
<1> QED BY <1>1, <1>3, <1>4 DEF r

(* Replacing one of two elements by the other *)
LEMMA DoubleOfTwo ==
  ASSUME NEW S, NEW s \in Seq(S), Len(s) = 2, NEW i \in 1..2
  PROVE  /\ InsertAt(RemoveAt(s, i), i, s[3-i]) \in Seq(S)
         /\ Len(InsertAt(RemoveAt(s, i), i, s[3-i])) = 2
         /\ \A j \in 1..2 : InsertAt(RemoveAt(s, i), i, s[3-i])[j] = s[3-i]
<1> DEFINE r == RemoveAt(s, i)
           e == s[3-i]
           t == InsertAt(r, i, e)
<1>0. e \in S
  <2>1. 3-i \in 1..Len(s)
    OBVIOUS
  <2>2. \A j \in 1..Len(s) : s[j] \in S
    BY ElementsOf
  <2> QED BY <2>1, <2>2
<1>1. r \in Seq(S) /\ Len(r) = 1 /\ r[1] = e
  BY RemoveOfTwo
<1> HIDE DEF r, e
<1>2. i \in 1..(Len(r)+1)
  BY <1>1
<1>3. /\ t \in Seq(S) /\ Len(t) = Len(r) + 1
      /\ \A j \in 1..(Len(r)+1) : t[j] = IF j < i THEN r[j] ELSE IF j = i THEN e ELSE r[j-1]
  <2>1. r \in Seq(S)
    BY <1>1
  <2> QED BY <1>0, <1>2, <2>1, InsertAtFacts
<1> HIDE DEF t
<1>4. t[1] = e /\ t[2] = e
  <2>1. CASE i = 1
    BY <1>1, <1>3, <2>1
  <2>2. CASE i = 2
    BY <1>1, <1>3, <2>2
  <2> QED BY <2>1, <2>2
<1>5. \A j \in 1..2 : t[j] = e
  BY <1>4
<1>6. Len(t) = 2
  BY <1>1, <1>3
<1> QED BY <1>3, <1>5, <1>6 DEF t, r, e
=============================================================================
