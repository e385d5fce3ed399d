----------------------------- MODULE ListLemmas -----------------------------
(***************************************************************************)
(* The linked lists of the SDK are sequences without repetition.  What     *)
(* inserting and removing an element does to such a sequence.              *)
(***************************************************************************)
EXTENDS Integers, Sequences, SequencesExt, SequenceTheorems,
        WellFoundedInduction, TLAPS

\* A list that holds each of its elements once.
IsList(s, S) == s \in Seq(S) /\ IsInjective(s)
-----------------------------------------------------------------------------
\* A set of places has a first one.
LEMMA FirstPlace ==
  ASSUME NEW T, T \subseteq Nat, T # {}
  PROVE  \E i \in T : \A j \in T : i <= j
<1>1. PICK i \in T : \A j \in T : ~(<<j, i>> \in OpToRel(<, Nat))
  BY NatLessThanWellFounded, WFMin, Zenon
<1>2. \A j \in T : ~(j < i)
  BY <1>1 DEF OpToRel
<1>3. QED
  BY <1>2

\* Membership, place by place.
LEMMA InList ==
  ASSUME NEW S, NEW s \in Seq(S)
  PROVE  /\ ToSet(s) \subseteq S /\ DOMAIN s = 1..Len(s) /\ Len(s) \in Nat
         /\ \A i \in 1..Len(s) : s[i] \in ToSet(s)
         /\ \A x \in ToSet(s) : \E i \in 1..Len(s) : s[i] = x
         /\ s = <<>> <=> ToSet(s) = {}
         /\ s # <<>> => Head(s) \in ToSet(s)
<1>1. DOMAIN s = 1..Len(s) /\ Len(s) \in Nat
  BY LenProperties
<1>2. \A i \in 1..Len(s) : s[i] \in S
  BY ElementOfSeq
<1>3. s # <<>> => Len(s) > 0 /\ Head(s) = s[1]
  BY EmptySeq, <1>1
<1>4. s = <<>> => ToSet(s) = {}
  BY <1>1, EmptySeq DEF ToSet
<1>5. ToSet(s) = {s[i] : i \in 1..Len(s)}
  BY <1>1 DEF ToSet
<1>6. ToSet(s) \subseteq S
  BY <1>2, <1>5
<1>7. \A i \in 1..Len(s) : s[i] \in ToSet(s)
  BY <1>5
<1>8. \A x \in ToSet(s) : \E i \in 1..Len(s) : s[i] = x
  BY <1>5
<1>9. s # <<>> => Head(s) \in ToSet(s)
  BY <1>1, <1>3, <1>7
<1>10. QED
  BY <1>1, <1>4, <1>6, <1>7, <1>8, <1>9

\* A sequence made of the places of another, by an injection of the places:
\* it is a list again, of the elements at those places.
LEMMA Rearranged ==
  ASSUME NEW S, NEW s, IsList(s, S), NEW t \in Seq(S),
         NEW p \in [1..Len(t) -> 1..Len(s)],
         \A i \in 1..Len(t) : t[i] = s[p[i]],
         \A i, j \in 1..Len(t) : p[i] = p[j] => i = j
  PROVE  /\ IsList(t, S)
         /\ ToSet(t) = {s[p[i]] : i \in 1..Len(t)}
<1>1. DOMAIN s = 1..Len(s) /\ DOMAIN t = 1..Len(t)
  BY LenProperties DEF IsList
<1>2. IsInjective(t)
  BY <1>1 DEF IsList, IsInjective
<1>3. ToSet(t) = {t[i] : i \in 1..Len(t)}
  BY <1>1 DEF ToSet
<1>4. {t[i] : i \in 1..Len(t)} = {s[p[i]] : i \in 1..Len(t)}
  OBVIOUS
<1>5. QED
  BY <1>2, <1>3, <1>4 DEF IsList

\* list_del, klist_rm: one element goes, the others keep their order.
LEMMA Removed ==
  ASSUME NEW S, NEW s, IsList(s, S), NEW k \in 1..Len(s)
  PROVE  /\ IsList(RemoveAt(s, k), S)
         /\ ToSet(RemoveAt(s, k)) = ToSet(s) \ {s[k]}
         /\ Len(RemoveAt(s, k)) = Len(s) - 1
         /\ \A i \in 1..Len(s) - 1 : RemoveAt(s, k)[i] = IF i < k THEN s[i] ELSE s[i + 1]
<1> DEFINE a == SubSeq(s, 1, k - 1)
           b == SubSeq(s, k + 1, Len(s))
           t == a \o b
           p == [i \in 1..Len(s) - 1 |-> IF i < k THEN i ELSE i + 1]
<1>1. s \in Seq(S) /\ Len(s) \in Nat /\ DOMAIN s = 1..Len(s)
  BY LenProperties DEF IsList
<1>2. \A i \in 1..Len(s) : s[i] \in S
  BY <1>1, ElementOfSeq
<1>3. /\ a \in Seq(S) /\ Len(a) = k - 1
      /\ \A i \in 1..k - 1 : a[i] = s[i]
  <2>1. 1 \in Int /\ k - 1 \in Int /\ \A i \in 1..k - 1 : s[i] \in S
    BY <1>1, <1>2
  <2>2. /\ a \in Seq(S) /\ Len(a) = IF 1 <= k - 1 THEN (k - 1) - 1 + 1 ELSE 0
        /\ \A i \in 1..(k - 1) - 1 + 1 : a[i] = s[1 + i - 1]
    BY <2>1, SubSeqProperties
  <2>3. QED
    BY <1>1, <2>2
<1>4. /\ b \in Seq(S) /\ Len(b) = Len(s) - k
      /\ \A i \in 1..Len(s) - k : b[i] = s[k + i]
  <2>1. k + 1 \in Int /\ Len(s) \in Int /\ \A i \in k + 1..Len(s) : s[i] \in S
    BY <1>1, <1>2
  <2>2. /\ b \in Seq(S) /\ Len(b) = IF k + 1 <= Len(s) THEN Len(s) - (k + 1) + 1 ELSE 0
        /\ \A i \in 1..Len(s) - (k + 1) + 1 : b[i] = s[(k + 1) + i - 1]
    BY <2>1, SubSeqProperties
  <2>3. QED
    BY <1>1, <2>2
<1> HIDE DEF a, b
<1>5. /\ t \in Seq(S) /\ Len(t) = Len(s) - 1
      /\ \A i \in 1..Len(s) - 1 : t[i] = IF i < k THEN s[i] ELSE s[i + 1]
  <2>1. /\ t \in Seq(S) /\ Len(t) = Len(a) + Len(b)
        /\ \A i \in 1..Len(a) + Len(b) : t[i] = IF i <= Len(a) THEN a[i] ELSE b[i - Len(a)]
    BY <1>3, <1>4, ConcatProperties
  <2> HIDE DEF t
  <2>2. Len(a) + Len(b) = Len(s) - 1
    BY <1>1, <1>3, <1>4
  <2>3. ASSUME NEW i \in 1..Len(s) - 1
        PROVE  t[i] = IF i < k THEN s[i] ELSE s[i + 1]
    <3>1. CASE i < k
      BY <1>1, <1>3, <2>1, <2>2, <3>1
    <3>2. CASE ~(i < k)
      <4>1. i - (k - 1) \in 1..Len(s) - k /\ k + (i - (k - 1)) = i + 1
        BY <1>1, <3>2
      <4>2. t[i] = b[i - (k - 1)]
        BY <1>1, <1>3, <2>1, <2>2, <3>2
      <4>3. QED
        BY <1>4, <3>2, <4>1, <4>2
    <3>3. QED
      BY <3>1, <3>2
  <2>4. QED
    BY <2>1, <2>2, <2>3
<1>6. RemoveAt(s, k) = t
  BY DEF RemoveAt, a, b
<1> HIDE DEF t
<1>7. /\ p \in [1..Len(t) -> 1..Len(s)]
      /\ \A i \in 1..Len(t) : t[i] = s[p[i]]
      /\ \A i, j \in 1..Len(t) : p[i] = p[j] => i = j
  BY <1>1, <1>5
<1>8. {p[i] : i \in 1..Len(t)} = 1..Len(s) \ {k}
  <2>1. ASSUME NEW j \in 1..Len(s) \ {k} PROVE \E i \in 1..Len(t) : p[i] = j
    <3>1. CASE j < k
      BY <1>1, <1>5, <3>1
    <3>2. CASE j > k
      <4>1. j - 1 \in 1..Len(t) /\ p[j - 1] = j
        BY <1>1, <1>5, <3>2
      <4>2. QED
        BY <4>1
    <3>3. j < k \/ j > k
      BY <1>1
    <3>4. QED
      BY <3>1, <3>2, <3>3
  <2>2. ASSUME NEW i \in 1..Len(t) PROVE p[i] \in 1..Len(s) \ {k}
    BY <1>1, <1>5
  <2>3. QED
    BY <2>1, <2>2
<1> HIDE DEF p
<1>9. IsList(t, S) /\ ToSet(t) = {s[p[i]] : i \in 1..Len(t)}
  <2>1. t \in Seq(S)
    BY <1>5
  <2>2. QED
    BY <1>7, <2>1, Rearranged
<1>10. {s[p[i]] : i \in 1..Len(t)} = {s[j] : j \in 1..Len(s) \ {k}}
  BY <1>8
<1>11. {s[j] : j \in 1..Len(s) \ {k}} = ToSet(s) \ {s[k]}
  BY <1>1 DEF ToSet, IsList, IsInjective
<1>12. QED
  BY <1>5, <1>6, <1>9, <1>10, <1>11

\* A sequence that has the places of a list and one more, for a new element, is
\* a list again.
LEMMA OneMoreElement ==
  ASSUME NEW S, NEW s, IsList(s, S), NEW e \in S \ ToSet(s), NEW k \in 1..Len(s) + 1,
         NEW t \in Seq(S), Len(t) = Len(s) + 1,
         \A i \in 1..Len(t) : t[i] = IF i < k THEN s[i] ELSE IF i = k THEN e ELSE s[i - 1]
  PROVE  IsList(t, S) /\ ToSet(t) = ToSet(s) \cup {e}
<1>1. /\ DOMAIN s = 1..Len(s) /\ DOMAIN t = 1..Len(t) /\ Len(s) \in Nat
      /\ \A i \in 1..Len(s) : s[i] # e
  BY LenProperties, InList DEF IsList
<1>2. IsInjective(t)
  <2> SUFFICES ASSUME NEW i \in 1..Len(t), NEW j \in 1..Len(t), t[i] = t[j]
               PROVE  i = j
    BY <1>1 DEF IsInjective
  <2> DEFINE at(n) == IF n < k THEN n ELSE n - 1
  <2>1. CASE i # k /\ j # k
    <3>1. /\ at(i) \in 1..Len(s) /\ at(j) \in 1..Len(s)
          /\ t[i] = s[at(i)] /\ t[j] = s[at(j)]
      BY <1>1, <2>1
    <3>2. at(i) = at(j)
      <4> HIDE DEF at
      <4> QED
        BY <1>1, <3>1 DEF IsList, IsInjective
    <3>3. QED
      BY <1>1, <2>1, <3>2
  <2>2. CASE i = k \/ j = k
    BY <1>1, <2>2
  <2>3. QED
    BY <2>1, <2>2
<1>3. ASSUME NEW i \in 1..Len(t) PROVE t[i] \in ToSet(s) \cup {e}
  <2>1. CASE i < k
    <3>1. i \in 1..Len(s) /\ t[i] = s[i]
      BY <1>1, <2>1
    <3>2. QED
      BY <3>1, InList DEF IsList
  <2>2. CASE i = k
    BY <2>2
  <2>3. CASE i > k
    <3>1. i - 1 \in 1..Len(s) /\ t[i] = s[i - 1]
      BY <1>1, <2>3
    <3>2. QED
      BY <3>1, InList DEF IsList
  <2>4. QED
    BY <1>1, <2>1, <2>2, <2>3
<1>4. ASSUME NEW x \in ToSet(s) \cup {e} PROVE x \in ToSet(t)
  <2>1. CASE x = e
    BY <1>1, <2>1, InList
  <2>2. CASE x \in ToSet(s)
    <3>1. PICK j \in 1..Len(s) : s[j] = x
      BY <2>2, InList DEF IsList
    <3>2. CASE j < k
      <4>1. j \in 1..Len(t) /\ t[j] = x
        BY <1>1, <3>1, <3>2
      <4>2. QED
        BY <4>1, InList
    <3>3. CASE ~(j < k)
      <4>1. j + 1 \in 1..Len(t) /\ ~(j + 1 < k) /\ j + 1 # k /\ (j + 1) - 1 = j
        BY <1>1, <3>3
      <4>2. t[j + 1] = x
        BY <3>1, <4>1
      <4>3. QED
        BY <4>1, <4>2, InList
    <3>4. QED
      BY <3>2, <3>3
  <2>3. QED
    BY <2>1, <2>2
<1>5. ToSet(t) \subseteq ToSet(s) \cup {e}
  BY <1>3, InList
<1>6. QED
  BY <1>2, <1>4, <1>5 DEF IsList

\* A new element at the head of the list.
LEMMA Prepended ==
  ASSUME NEW S, NEW s, IsList(s, S), NEW e \in S \ ToSet(s)
  PROVE  IsList(<<e>> \o s, S) /\ ToSet(<<e>> \o s) = ToSet(s) \cup {e}
<1> DEFINE t == <<e>> \o s
<1>1. s \in Seq(S) /\ Len(s) \in Nat /\ <<e>> \in Seq(S) /\ Len(<<e>>) = 1 /\ <<e>>[1] = e
  BY LenProperties DEF IsList
<1>2. /\ t \in Seq(S) /\ Len(t) = 1 + Len(s)
      /\ \A i \in 1..1 + Len(s) : t[i] = IF i <= 1 THEN <<e>>[i] ELSE s[i - 1]
  BY <1>1, ConcatProperties
<1> HIDE DEF t
<1>3. /\ Len(t) = Len(s) + 1 /\ 1 \in 1..Len(s) + 1
      /\ \A i \in 1..Len(t) : t[i] = IF i < 1 THEN s[i] ELSE IF i = 1 THEN e ELSE s[i - 1]
  BY <1>1, <1>2
<1>4. IsList(t, S) /\ ToSet(t) = ToSet(s) \cup {e}
  BY <1>2, <1>3, OneMoreElement
<1>5. QED
  BY <1>4 DEF t

\* klist_insert: a new element at place k, the others keep their order.
LEMMA Inserted ==
  ASSUME NEW S, NEW s, IsList(s, S), NEW e \in S \ ToSet(s), NEW k \in 1..Len(s) + 1
  PROVE  /\ IsList(InsertAt(s, k, e), S)
         /\ ToSet(InsertAt(s, k, e)) = ToSet(s) \cup {e}
         /\ Len(InsertAt(s, k, e)) = Len(s) + 1
         /\ \A i \in 1..Len(s) + 1 :
              InsertAt(s, k, e)[i] = IF i < k THEN s[i] ELSE IF i = k THEN e ELSE s[i - 1]
<1> DEFINE a == SubSeq(s, 1, k - 1)
           b == SubSeq(s, k, Len(s))
           c == a \o <<e>>
           t == c \o b
<1>1. /\ s \in Seq(S) /\ Len(s) \in Nat /\ <<e>> \in Seq(S)
      /\ Len(<<e>>) = 1 /\ <<e>>[1] = e
  BY LenProperties DEF IsList
<1>2. \A i \in 1..Len(s) : s[i] \in S
  BY <1>1, ElementOfSeq
<1>3. /\ a \in Seq(S) /\ Len(a) = k - 1
      /\ \A i \in 1..k - 1 : a[i] = s[i]
  <2>1. 1 \in Int /\ k - 1 \in Int /\ \A i \in 1..k - 1 : s[i] \in S
    BY <1>1, <1>2
  <2>2. /\ a \in Seq(S) /\ Len(a) = IF 1 <= k - 1 THEN (k - 1) - 1 + 1 ELSE 0
        /\ \A i \in 1..(k - 1) - 1 + 1 : a[i] = s[1 + i - 1]
    BY <2>1, SubSeqProperties
  <2>3. QED
    BY <1>1, <2>2
<1>4. /\ b \in Seq(S) /\ Len(b) = Len(s) - k + 1
      /\ \A i \in 1..Len(s) - k + 1 : b[i] = s[k + i - 1]
  <2>1. k \in Int /\ Len(s) \in Int /\ \A i \in k..Len(s) : s[i] \in S
    BY <1>1, <1>2
  <2>2. /\ b \in Seq(S) /\ Len(b) = IF k <= Len(s) THEN Len(s) - k + 1 ELSE 0
        /\ \A i \in 1..Len(s) - k + 1 : b[i] = s[k + i - 1]
    BY <2>1, SubSeqProperties
  <2>3. QED
    BY <1>1, <2>2
<1> HIDE DEF a, b
<1>5. /\ c \in Seq(S) /\ Len(c) = Len(a) + 1
      /\ \A i \in 1..Len(a) + 1 : c[i] = IF i <= Len(a) THEN a[i] ELSE <<e>>[i - Len(a)]
  BY <1>1, <1>3, ConcatProperties
<1>6. Len(c) = k /\ \A i \in 1..k : c[i] = IF i < k THEN s[i] ELSE e
  BY <1>1, <1>3, <1>5
<1> HIDE DEF c
<1>7. /\ t \in Seq(S) /\ Len(t) = Len(c) + Len(b)
      /\ \A i \in 1..Len(c) + Len(b) : t[i] = IF i <= Len(c) THEN c[i] ELSE b[i - Len(c)]
  BY <1>4, <1>5, ConcatProperties
<1>8. InsertAt(s, k, e) = t
  BY DEF InsertAt, a, b, c
<1> HIDE DEF t
<1>9. Len(t) = Len(s) + 1
  BY <1>1, <1>4, <1>6, <1>7
<1>10. ASSUME NEW i \in 1..Len(t)
       PROVE  t[i] = IF i < k THEN s[i] ELSE IF i = k THEN e ELSE s[i - 1]
  <2>1. CASE i <= k
    BY <1>1, <1>4, <1>6, <1>7, <1>9, <2>1
  <2>2. CASE ~(i <= k)
    <3>1. i - k \in 1..Len(s) - k + 1 /\ k + (i - k) - 1 = i - 1
      BY <1>1, <1>9, <2>2
    <3>2. t[i] = b[i - k]
      BY <1>1, <1>4, <1>6, <1>7, <1>9, <2>2
    <3>3. t[i] = s[k + (i - k) - 1]
      BY <1>4, <3>1, <3>2
    <3>4. QED
      BY <1>1, <2>2, <3>1, <3>3
  <2>3. QED
    BY <2>1, <2>2
<1>11. IsList(t, S) /\ ToSet(t) = ToSet(s) \cup {e}
  <2>1. t \in Seq(S)
    BY <1>7
  <2>2. \A i \in 1..Len(t) : t[i] = IF i < k THEN s[i] ELSE IF i = k THEN e ELSE s[i - 1]
    BY <1>10
  <2>3. QED
    BY <1>9, <2>1, <2>2, OneMoreElement
<1>12. QED
  BY <1>8, <1>9, <1>10, <1>11
-----------------------------------------------------------------------------
\* Induction on the number of rounds of a loop, for a set of numbers.
LEMMA Induction ==
  ASSUME NEW S, 0 \in S, \A n \in Nat : n \in S => n + 1 \in S
  PROVE  Nat \subseteq S
<1> SUFFICES ASSUME Nat \ S # {} PROVE FALSE
  OBVIOUS
<1>1. PICK i \in Nat \ S : \A j \in Nat \ S : i <= j
  BY FirstPlace
<1>2. i - 1 \in Nat /\ i - 1 \notin S
  BY <1>1
<1>3. QED
  BY <1>1, <1>2

\* The smallest of a set of numbers.
LEMMA MinFacts ==
  ASSUME NEW A, A \subseteq Nat, A # {}
  PROVE  Min(A) \in A /\ \A a \in A : Min(A) <= a
<1>1. \E x \in A : \A a \in A : x <= a
  BY FirstPlace
<1>2. QED
  BY <1>1 DEF Min

LEMMA MinIs ==
  ASSUME NEW A, A \subseteq Nat, NEW x \in A, \A a \in A : x <= a
  PROVE  Min(A) = x
<1> DEFINE n == Min(A)
<1>1. n \in A /\ \A a \in A : n <= a
  BY MinFacts
<1> HIDE DEF n
<1>2. x \in Nat /\ n \in Nat /\ n <= x /\ x <= n
  BY <1>1
<1>3. n = x
  BY <1>2
<1>4. QED
  BY <1>3 DEF n

\* The first place of a set of places, 0 if it is empty.
LEMMA FirstOf ==
  ASSUME NEW n \in Nat, NEW I, I \subseteq 1..n
  PROVE  /\ I = {} => (IF I # {} THEN Min(I) ELSE 0) = 0
         /\ I # {} => \E k \in I : /\ (IF I # {} THEN Min(I) ELSE 0) = k
                                   /\ \A i \in 1..k - 1 : i \notin I
<1>1. CASE I # {}
  <2> DEFINE k == Min(I)
  <2>1. k \in I /\ \A i \in I : k <= i
    <3>1. I \subseteq Nat
      OBVIOUS
    <3>2. QED
      BY <1>1, <3>1, MinFacts
  <2> HIDE DEF k
  <2>2. k \in 1..n /\ \A i \in 1..k - 1 : i \notin I
    BY <2>1
  <2>3. (IF I # {} THEN Min(I) ELSE 0) = k
    BY <1>1 DEF k
  <2>4. QED
    BY <1>1, <2>1, <2>2, <2>3
<1>2. QED
  BY <1>1
-----------------------------------------------------------------------------
\* The elements of the list have weights that do not decrease.
SortedBy(s, w) == \A i, j \in 1..Len(s) : i < j => w[s[i]] <= w[s[j]]

\* klist_rm by name: the element goes, if it is there, and the others keep
\* their order.
LEMMA RemovedElement ==
  ASSUME NEW S, NEW s, IsList(s, S), NEW e
  PROVE  /\ IsList(RemoveFirst(s, e), S)
         /\ ToSet(RemoveFirst(s, e)) = ToSet(s) \ {e}
         /\ e \notin ToSet(s) => RemoveFirst(s, e) = s
         /\ \A v, w : SortedBy(s, v) /\ (\A x \in ToSet(s) \ {e} : w[x] = v[x])
                        => SortedBy(RemoveFirst(s, e), w)
<1> DEFINE I == {i \in 1..Len(s) : s[i] = e}
           k == IF I # {} THEN Min(I) ELSE 0
           r == RemoveFirst(s, e)
<1>1. s \in Seq(S) /\ Len(s) \in Nat /\ DOMAIN s = 1..Len(s)
  BY LenProperties DEF IsList
<1>2. CASE e \notin ToSet(s)
  <2>1. r = s /\ ToSet(s) \ {e} = ToSet(s) /\ \A i \in 1..Len(s) : s[i] \in ToSet(s)
    BY <1>1, <1>2, InList DEF RemoveFirst
  <2>2. QED
    BY <2>1, <1>2 DEF SortedBy
<1>3. CASE e \in ToSet(s)
  <2>1. I # {}
    BY <1>1, <1>3, InList
  <2>2. k \in 1..Len(s) /\ s[k] = e
    <3>1. I \subseteq Nat
      BY <1>1
    <3>2. Min(I) \in I
      BY <2>1, <3>1, MinFacts
    <3>3. QED
      BY <2>1, <3>2
  <2>3. r = RemoveAt(s, k)
    BY <2>1 DEF RemoveFirst, SelectInSeq
  <2> HIDE DEF k, r
  <2>4. /\ IsList(r, S) /\ ToSet(r) = ToSet(s) \ {s[k]} /\ Len(r) = Len(s) - 1
        /\ \A i \in 1..Len(s) - 1 : r[i] = IF i < k THEN s[i] ELSE s[i + 1]
    <3>1. k \in 1..Len(s)
      BY <2>2
    <3>2. QED
      BY <2>3, <3>1, Removed
  <2>5. ASSUME NEW v, NEW w, SortedBy(s, v), \A x \in ToSet(s) \ {e} : w[x] = v[x]
        PROVE  SortedBy(r, w)
    <3> SUFFICES ASSUME NEW i \in 1..Len(r), NEW j \in 1..Len(r), i < j
                 PROVE  w[r[i]] <= w[r[j]]
      BY DEF SortedBy
    <3> DEFINE at(n) == IF n < k THEN n ELSE n + 1
    <3>1. /\ at(i) \in 1..Len(s) /\ at(j) \in 1..Len(s) /\ at(i) < at(j)
          /\ r[i] = s[at(i)] /\ r[j] = s[at(j)]
      BY <1>1, <2>2, <2>4
    <3> HIDE DEF at
    <3>2. r[i] \in ToSet(s) \ {e} /\ r[j] \in ToSet(s) \ {e}
      BY <2>2, <2>4, InList DEF IsList
    <3>3. v[r[i]] <= v[r[j]]
      BY <2>5, <3>1 DEF SortedBy
    <3>4. QED
      BY <2>5, <3>2, <3>3
  <2>6. QED
    BY <1>3, <2>2, <2>4, <2>5 DEF r
<1>4. QED
  BY <1>2, <1>3

\* klist_insert at the tail.
LEMMA Appended ==
  ASSUME NEW S, NEW s, IsList(s, S), NEW e \in S \ ToSet(s)
  PROVE  /\ IsList(Append(s, e), S)
         /\ ToSet(Append(s, e)) = ToSet(s) \cup {e}
         /\ Append(s, e) # <<>>
         /\ Len(Append(s, e)) = Len(s) + 1
         /\ \A i \in 1..Len(s) + 1 : Append(s, e)[i] = IF i = Len(s) + 1 THEN e ELSE s[i]
<1> DEFINE t == Append(s, e)
<1>1. s \in Seq(S) /\ Len(s) \in Nat /\ e \in S
  BY LenProperties DEF IsList
<1>2. /\ t \in Seq(S) /\ Len(t) = Len(s) + 1 /\ t # <<>>
      /\ \A i \in 1..Len(s) : t[i] = s[i]
      /\ t[Len(s) + 1] = e
  BY <1>1, AppendProperties
<1> HIDE DEF t
<1> DEFINE k == Len(s) + 1
<1>3. /\ k \in 1..Len(s) + 1
      /\ \A i \in 1..Len(t) : t[i] = IF i < k THEN s[i] ELSE IF i = k THEN e ELSE s[i - 1]
  BY <1>1, <1>2
<1> HIDE DEF k
<1>4. IsList(t, S) /\ ToSet(t) = ToSet(s) \cup {e}
  <2>1. t \in Seq(S) /\ Len(t) = Len(s) + 1
    BY <1>2
  <2>2. QED
    BY <1>3, <2>1, OneMoreElement
<1>5. QED
  BY <1>1, <1>2, <1>4 DEF t

\* A new element between those of smaller and those of greater weight.
LEMMA SortedWithNew ==
  ASSUME NEW S, NEW s \in Seq(S), NEW e \in S, NEW w \in [S -> Nat], SortedBy(s, w),
         NEW p \in 1..Len(s) + 1,
         \A i \in 1..Len(s) : i < p => w[s[i]] <= w[e],
         \A i \in 1..Len(s) : i >= p => w[e] <= w[s[i]],
         NEW t, Len(t) = Len(s) + 1,
         \A i \in 1..Len(s) + 1 : t[i] = IF i < p THEN s[i] ELSE IF i = p THEN e ELSE s[i - 1]
  PROVE  SortedBy(t, w)
<1>1. Len(s) \in Nat /\ w[e] \in Nat
  BY LenProperties
<1>2. \A i \in 1..Len(s) : s[i] \in S /\ w[s[i]] \in Nat
  BY ElementOfSeq
<1>3. ASSUME NEW i \in 1..Len(t), NEW j \in 1..Len(t), i < j PROVE w[t[i]] <= w[t[j]]
  <2>1. CASE j < p
    <3>1. i \in 1..Len(s) /\ j \in 1..Len(s) /\ t[i] = s[i] /\ t[j] = s[j]
      BY <1>1, <1>3, <2>1
    <3>2. QED
      BY <1>3, <3>1 DEF SortedBy
  <2>2. CASE j = p
    <3>1. i \in 1..Len(s) /\ i < p /\ t[i] = s[i] /\ t[j] = e
      BY <1>1, <1>3, <2>2
    <3>2. QED
      BY <3>1
  <2>3. CASE i < p /\ j > p
    <3>1. /\ j - 1 \in 1..Len(s) /\ i \in 1..Len(s) /\ j - 1 >= p
          /\ t[i] = s[i] /\ t[j] = s[j - 1]
      BY <1>1, <2>3
    <3>2. w[s[i]] <= w[e] /\ w[e] <= w[s[j - 1]]
      BY <2>3, <3>1
    <3>3. w[s[i]] \in Nat /\ w[s[j - 1]] \in Nat
      BY <1>2, <3>1
    <3>4. QED
      BY <1>1, <3>1, <3>2, <3>3
  <2>4. CASE i = p
    <3>1. j - 1 \in 1..Len(s) /\ j - 1 >= p /\ t[i] = e /\ t[j] = s[j - 1]
      BY <1>1, <1>3, <2>4
    <3>2. QED
      BY <3>1
  <2>5. CASE i > p
    <3>1. i - 1 \in 1..Len(s) /\ j - 1 \in 1..Len(s) /\ i - 1 < j - 1
          /\ t[i] = s[i - 1] /\ t[j] = s[j - 1]
      BY <1>1, <1>3, <2>5
    <3>2. QED
      BY <3>1 DEF SortedBy
  <2>6. QED
    BY <1>1, <1>3, <2>1, <2>2, <2>3, <2>4, <2>5
<1>4. QED
  BY <1>3 DEF SortedBy

\* pend_list_add: before the first element of a greater weight.
PlaceBefore(s, w, e) ==
  LET Above(x) == w[x] > w[e]
      i == SelectInSeq(s, Above)
  IN IF i = 0 THEN Append(s, e) ELSE InsertAt(s, i, e)

LEMMA InsertedSorted ==
  ASSUME NEW S, NEW s, IsList(s, S), NEW e \in S \ ToSet(s),
         NEW w \in [S -> Nat], SortedBy(s, w)
  PROVE  /\ IsList(PlaceBefore(s, w, e), S)
         /\ ToSet(PlaceBefore(s, w, e)) = ToSet(s) \cup {e}
         /\ SortedBy(PlaceBefore(s, w, e), w)
<1> DEFINE I == {i \in 1..Len(s) : w[s[i]] > w[e]}
           k == IF I # {} THEN Min(I) ELSE 0
           t == PlaceBefore(s, w, e)
<1>1. s \in Seq(S) /\ Len(s) \in Nat /\ e \in S /\ w[e] \in Nat
  BY LenProperties DEF IsList
<1>2. \A i \in 1..Len(s) : s[i] \in S /\ w[s[i]] \in Nat
  BY <1>1, ElementOfSeq
<1>3. t = IF k = 0 THEN Append(s, e) ELSE InsertAt(s, k, e)
  BY DEF PlaceBefore, SelectInSeq
<1>4. I \subseteq 1..Len(s)
  OBVIOUS
<1>5. \A i \in 1..Len(s) : i \in I <=> w[s[i]] > w[e]
  OBVIOUS
<1> HIDE DEF I, t
<1>6. CASE I = {}
  <2>1. k = 0
    BY <1>1, <1>4, <1>6, FirstOf
  <2>2. t = Append(s, e)
    BY <1>3, <2>1
  <2>3. /\ IsList(t, S) /\ ToSet(t) = ToSet(s) \cup {e} /\ Len(t) = Len(s) + 1
        /\ \A i \in 1..Len(s) + 1 : t[i] = IF i = Len(s) + 1 THEN e ELSE s[i]
    BY <2>2, Appended
  <2> DEFINE p == Len(s) + 1
  <2>4. /\ p \in 1..Len(s) + 1
        /\ \A i \in 1..Len(s) : i < p => w[s[i]] <= w[e]
        /\ \A i \in 1..Len(s) : i >= p => w[e] <= w[s[i]]
        /\ \A i \in 1..Len(s) + 1 : t[i] = IF i < p THEN s[i] ELSE IF i = p THEN e ELSE s[i - 1]
    BY <1>1, <1>2, <1>5, <1>6, <2>3
  <2> HIDE DEF p
  <2>5. SortedBy(t, w)
    BY <1>1, <2>3, <2>4, SortedWithNew
  <2>6. QED
    BY <2>3, <2>5 DEF t
<1>7. CASE I # {}
  <2>1. PICK p \in I : k = p /\ \A i \in 1..p - 1 : i \notin I
    BY <1>1, <1>4, <1>7, FirstOf
  <2>2. p \in 1..Len(s) /\ p \in 1..Len(s) + 1 /\ p # 0
    BY <1>1, <1>4, <2>1
  <2>3. t = InsertAt(s, p, e)
    BY <1>3, <2>1, <2>2
  <2>4. /\ IsList(t, S) /\ ToSet(t) = ToSet(s) \cup {e} /\ Len(t) = Len(s) + 1
        /\ \A i \in 1..Len(s) + 1 : t[i] = IF i < p THEN s[i] ELSE IF i = p THEN e ELSE s[i - 1]
    <3>1. p \in 1..Len(s) + 1
      BY <2>2
    <3>2. QED
      BY <2>3, <3>1, Inserted
  <2>5. ASSUME NEW i \in 1..Len(s), i < p PROVE w[s[i]] <= w[e]
    <3>1. i \notin I
      BY <1>1, <2>1, <2>2, <2>5
    <3>2. QED
      BY <1>1, <1>2, <1>5, <3>1
  <2>6. ASSUME NEW i \in 1..Len(s), i >= p PROVE w[e] <= w[s[i]]
    <3>1. w[s[p]] > w[e] /\ w[s[p]] \in Nat /\ w[s[i]] \in Nat
      BY <1>2, <1>5, <2>1, <2>2
    <3>2. i = p \/ w[s[p]] <= w[s[i]]
      BY <1>1, <2>2, <2>6 DEF SortedBy
    <3>3. QED
      BY <1>1, <3>1, <3>2
  <2>7. SortedBy(t, w)
    <3>1. p \in 1..Len(s) + 1
      BY <2>2
    <3>2. QED
      BY <1>1, <2>4, <2>5, <2>6, <3>1, SortedWithNew
  <2>8. QED
    BY <2>4, <2>7 DEF t
<1>8. QED
  BY <1>6, <1>7

\* The head of a sorted list has the smallest weight.
LEMMA HeadIsLeast ==
  ASSUME NEW S, NEW s, IsList(s, S), s # <<>>, NEW w \in [S -> Nat], SortedBy(s, w)
  PROVE  Head(s) \in ToSet(s) /\ \A x \in ToSet(s) : w[Head(s)] <= w[x]
<1>1. s \in Seq(S) /\ Len(s) \in Nat /\ Len(s) > 0 /\ Head(s) = s[1]
  BY LenProperties, EmptySeq DEF IsList
<1>2. ASSUME NEW x \in ToSet(s) PROVE w[s[1]] <= w[x]
  <2>1. PICK i \in 1..Len(s) : s[i] = x
    BY <1>1, InList
  <2>2. s[1] \in S /\ w[s[1]] \in Nat
    BY <1>1, ElementOfSeq
  <2>3. CASE i = 1
    BY <2>1, <2>2, <2>3
  <2>4. CASE i # 1
    BY <1>1, <2>1, <2>4 DEF SortedBy
  <2>5. QED
    BY <2>3, <2>4
<1>3. QED
  BY <1>1, <1>2, InList

\* The head goes to the tail: the same elements.
LEMMA Rotated ==
  ASSUME NEW S, NEW s, IsList(s, S), s # <<>>
  PROVE  /\ IsList(Append(Tail(s), Head(s)), S)
         /\ ToSet(Append(Tail(s), Head(s))) = ToSet(s)
<1>1. s \in Seq(S) /\ Len(s) \in Nat /\ Len(s) > 0 /\ Head(s) = s[1]
  BY LenProperties, EmptySeq DEF IsList
<1>2. Tail(s) \in Seq(S) /\ Len(Tail(s)) = Len(s) - 1
      /\ \A i \in 1..Len(s) - 1 : Tail(s)[i] = s[i + 1]
  BY <1>1, HeadTailProperties
<1> DEFINE t == Append(Tail(s), Head(s))
           p == [i \in 1..Len(s) |-> IF i = Len(s) THEN 1 ELSE i + 1]
<1>3. s[1] \in S
  BY <1>1, ElementOfSeq
<1>4. /\ t \in Seq(S) /\ Len(t) = Len(s)
      /\ \A i \in 1..Len(s) - 1 : t[i] = s[i + 1]
      /\ t[Len(s)] = s[1]
  BY <1>1, <1>2, <1>3, AppendProperties
<1> HIDE DEF t
<1>5. /\ p \in [1..Len(t) -> 1..Len(s)]
      /\ \A i \in 1..Len(t) : t[i] = s[p[i]]
      /\ \A i, j \in 1..Len(t) : p[i] = p[j] => i = j
  BY <1>1, <1>4
<1>6. \A j \in 1..Len(s) : \E i \in 1..Len(t) : p[i] = j
  <2> SUFFICES ASSUME NEW j \in 1..Len(s) PROVE \E i \in 1..Len(t) : p[i] = j
    OBVIOUS
  <2>1. CASE j = 1
    <3>1. Len(s) \in 1..Len(t) /\ p[Len(s)] = j
      BY <1>1, <1>4, <2>1
    <3>2. QED
      BY <3>1
  <2>2. CASE j # 1
    <3>1. j - 1 \in 1..Len(t) /\ p[j - 1] = j
      BY <1>1, <1>4, <2>2
    <3>2. QED
      BY <3>1
  <2>3. QED
    BY <2>1, <2>2
<1> HIDE DEF p
<1>7. IsList(t, S) /\ ToSet(t) = {s[p[i]] : i \in 1..Len(t)}
  <2>1. t \in Seq(S)
    BY <1>4
  <2>2. QED
    BY <1>5, <2>1, Rearranged
<1>8. {s[p[i]] : i \in 1..Len(t)} = ToSet(s)
  <2>1. ASSUME NEW x \in ToSet(s) PROVE \E i \in 1..Len(t) : s[p[i]] = x
    <3>1. PICK j \in 1..Len(s) : s[j] = x
      BY <1>1, InList
    <3>2. QED
      BY <1>6, <3>1
  <2>2. ASSUME NEW i \in 1..Len(t) PROVE s[p[i]] \in ToSet(s)
    BY <1>1, <1>5, InList
  <2>3. QED
    BY <2>1, <2>2
<1>9. QED
  BY <1>7, <1>8 DEF t

\* The elements of a list, place by place.
LEMMA ElementPlaces ==
  ASSUME NEW S, NEW s, IsList(s, S)
  PROVE  /\ Len(s) \in Nat /\ ToSet(s) \subseteq S
         /\ \A i \in 1..Len(s) : s[i] \in ToSet(s) /\ s[i] \in S
         /\ \A i, j \in 1..Len(s) : s[i] = s[j] => i = j
         /\ ToSet(s) = {s[j] : j \in 1..Len(s)}
<1>1. s \in Seq(S) /\ IsInjective(s)
  BY DEF IsList
<1>2. /\ ToSet(s) \subseteq S /\ DOMAIN s = 1..Len(s) /\ Len(s) \in Nat
      /\ \A i \in 1..Len(s) : s[i] \in ToSet(s)
      /\ \A u \in ToSet(s) : \E i \in 1..Len(s) : s[i] = u
  BY <1>1, InList
<1>3. \A i, j \in 1..Len(s) : s[i] = s[j] => i = j
  BY <1>1, <1>2 DEF IsInjective
<1>4. \A i \in 1..Len(s) : s[i] \in S
  BY <1>2
<1>5. ToSet(s) = {s[j] : j \in 1..Len(s)}
  BY <1>2
<1>6. QED
  BY <1>2, <1>3, <1>4, <1>5
=============================================================================
