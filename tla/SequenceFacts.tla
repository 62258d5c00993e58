--------------------------- MODULE SequenceFacts ---------------------------
(***************************************************************************)
(* What the operators on sequences return that the queues, lists and lines *)
(* of the models are built with.                                           *)
(***************************************************************************)
EXTENDS Integers, SequencesExt, TLAPS

\* A sequence without the element at a position.
LEMMA RemoveAtFacts ==
    ASSUME NEW S, NEW s \in Seq(S), NEW i \in DOMAIN s
    PROVE  /\ s[i] \in S /\ RemoveAt(s, i) \in Seq(S)
           /\ Len(RemoveAt(s, i)) = Len(s) - 1
           /\ \A j \in DOMAIN RemoveAt(s, i) :
                IF j < i THEN j \in DOMAIN s /\ RemoveAt(s, i)[j] = s[j]
                         ELSE j + 1 \in DOMAIN s /\ RemoveAt(s, i)[j] = s[j + 1]
<1> DEFINE a == SubSeq(s, 1, i - 1)
           b == SubSeq(s, i + 1, Len(s))
<1>1. /\ a \in Seq(S) /\ Len(a) = i - 1
      /\ \A j \in 1..(i - 1) : a[j] = s[j]
  OBVIOUS
<1>2. /\ b \in Seq(S) /\ Len(b) = Len(s) - i
      /\ \A j \in 1..(Len(s) - i) : b[j] = s[j + i]
  OBVIOUS
<1>3. RemoveAt(s, i) = a \o b
  BY DEF RemoveAt
<1> HIDE DEF a, b
<1>4. /\ a \o b \in Seq(S) /\ Len(a \o b) = Len(s) - 1
      /\ \A j \in 1..(Len(s) - 1) : (a \o b)[j] = IF j < i THEN a[j] ELSE b[j - (i - 1)]
  BY <1>1, <1>2, SMTT(20)
<1>5. \A j \in 1..(Len(s) - 1) : j >= i => b[j - (i - 1)] = s[j + 1]
  <2> TAKE j \in 1..(Len(s) - 1)
  <2> HAVE j >= i
  <2>1. j - (i - 1) \in 1..(Len(s) - i) /\ (j - (i - 1)) + i = j + 1
    OBVIOUS
  <2> QED
    BY <1>2, <2>1
<1>6. DOMAIN (a \o b) = 1..(Len(s) - 1)
  BY <1>4
<1>7. ASSUME NEW j \in 1..(Len(s) - 1)
      PROVE  IF j < i THEN j \in DOMAIN s /\ (a \o b)[j] = s[j]
                      ELSE j + 1 \in DOMAIN s /\ (a \o b)[j] = s[j + 1]
  <2>1. CASE j < i
    BY <1>1, <1>4, <2>1
  <2>2. CASE ~(j < i)
    <3>1. j + 1 \in DOMAIN s
      BY <2>2
    <3>2. (a \o b)[j] = b[j - (i - 1)]
      BY <1>4, <2>2
    <3> QED
      BY <1>5, <2>2, <3>1, <3>2
  <2> QED
    BY <2>1, <2>2
<1>8. s[i] \in S
  OBVIOUS
<1> QED
  BY <1>3, <1>4, <1>6, <1>7, <1>8

\* A sequence with an element more at its end, and without its head.
LEMMA AppendFacts ==
    ASSUME NEW S, NEW s \in Seq(S), NEW e \in S
    PROVE  /\ Append(s, e) \in Seq(S) /\ Len(Append(s, e)) = Len(s) + 1
           /\ DOMAIN Append(s, e) = 1..(Len(s) + 1)
           /\ Append(s, e)[Len(s) + 1] = e
           /\ \A i \in DOMAIN s : Append(s, e)[i] = s[i]
  OBVIOUS

LEMMA TailFacts ==
    ASSUME NEW S, NEW s \in Seq(S), s # <<>>
    PROVE  /\ Head(s) \in S /\ Head(s) = s[1] /\ 1 \in DOMAIN s
           /\ Tail(s) \in Seq(S) /\ Len(Tail(s)) = Len(s) - 1
           /\ \A i \in DOMAIN Tail(s) : i + 1 \in DOMAIN s /\ Tail(s)[i] = s[i + 1]
  OBVIOUS

\* A sequence written as a function of its positions.
LEMMA IsASequence ==
    ASSUME NEW S, NEW n \in Nat, NEW f \in [1..n -> S]
    PROVE  f \in Seq(S)
  OBVIOUS

\* A sequence without elements.
LEMMA NoElements ==
    ASSUME NEW S, NEW s \in Seq(S), Len(s) = 0
    PROVE  s = <<>>
  OBVIOUS

\* A sequence of at most one element.
LEMMA LoneElement ==
    ASSUME NEW S, NEW s \in Seq(S), s # <<>>, Len(s) <= 1
    PROVE  Len(s) = 1
<1>1. Len(s) \in Nat /\ (Len(s) = 0 => s = <<>>)
  BY NoElements
<1> QED
  BY <1>1

\* Two sequences, one after the other.
LEMMA Concatenated ==
    ASSUME NEW S, NEW s \in Seq(S), NEW r \in Seq(S)
    PROVE  /\ s \o r \in Seq(S) /\ Len(s \o r) = Len(s) + Len(r)
           /\ \A j \in 1..Len(s) : (s \o r)[j] = s[j]
           /\ \A j \in 1..Len(r) : (s \o r)[Len(s) + j] = r[j]
  OBVIOUS

LEMMA SameSequence ==
    ASSUME NEW S, NEW s \in Seq(S), NEW r \in Seq(S), Len(s) = Len(r),
           \A j \in 1..Len(s) : s[j] = r[j]
    PROVE  s = r
  OBVIOUS

\* What is before an element of a sequence, the element, and what is after it.
LEMMA SplitAtElement ==
    ASSUME NEW S, NEW s \in Seq(S), NEW k \in DOMAIN s
    PROVE  s = SubSeq(s, 1, k - 1) \o (<<s[k]>> \o SubSeq(s, k + 1, Len(s)))
<1>0. /\ SubSeq(s, 1, k - 1) \in Seq(S) /\ SubSeq(s, k + 1, Len(s)) \in Seq(S)
      /\ s[k] \in S /\ <<s[k]>> \in Seq(S)
  OBVIOUS
<1>1. PICK a \in Seq(S) : a = SubSeq(s, 1, k - 1)
  BY <1>0
<1>2. PICK b \in Seq(S) : b = SubSeq(s, k + 1, Len(s))
  BY <1>0
<1>3. PICK e \in Seq(S) : e = <<s[k]>>
  BY <1>0
<1>4. PICK n \in Nat : n = Len(s) /\ k \in 1..n
  OBVIOUS
<1>5. Len(a) = k - 1 /\ \A j \in 1..(k - 1) : a[j] = s[j]
  BY <1>1, <1>4
<1>6. Len(b) = n - k /\ \A j \in 1..(n - k) : b[j] = s[k + j]
  BY <1>2, <1>4
<1>7. Len(e) = 1 /\ e[1] = s[k]
  BY <1>3
<1>8. PICK r \in Seq(S) : r = e \o b
  BY Concatenated
<1>9. Len(r) = 1 + (n - k) /\ r[1] = s[k] /\ \A j \in 1..(n - k) : r[1 + j] = s[k + j]
  <2>1. Len(r) = Len(e) + Len(b) /\ \A j \in 1..Len(e) : r[j] = e[j]
    BY <1>8, Concatenated
  <2>2. \A j \in 1..Len(b) : r[Len(e) + j] = b[j]
    BY <1>8, Concatenated
  <2> QED
    BY <1>6, <1>7, <2>1, <2>2
<1>10. PICK t \in Seq(S) : t = a \o r
  BY Concatenated
<1>11. /\ Len(t) = (k - 1) + (1 + (n - k)) /\ \A j \in 1..(k - 1) : t[j] = s[j]
       /\ \A j \in 1..(1 + (n - k)) : t[(k - 1) + j] = r[j]
  <2>1. Len(t) = Len(a) + Len(r) /\ \A j \in 1..Len(a) : t[j] = a[j]
    BY <1>10, Concatenated
  <2>2. \A j \in 1..Len(r) : t[Len(a) + j] = r[j]
    BY <1>10, Concatenated
  <2> QED
    BY <1>5, <1>9, <2>1, <2>2
<1>12. Len(t) = n
  BY <1>4, <1>11
<1>13. ASSUME NEW j \in 1..n PROVE t[j] = s[j]
  <2>1. CASE j < k
    BY <1>4, <1>11, <2>1
  <2>2. CASE j = k
    <3>1. 1 \in 1..(1 + (n - k)) /\ (k - 1) + 1 = k
      BY <1>4
    <3> QED
      BY <1>9, <1>11, <2>2, <3>1
  <2>3. CASE j > k
    <3>1. PICK i \in 1..(n - k) : j = k + i
      <4>1. j - k \in 1..(n - k) /\ j = k + (j - k)
        BY <1>4, <2>3
      <4> QED
        BY <4>1
    <3>2. 1 + i \in 1..(1 + (n - k)) /\ (k - 1) + (1 + i) = k + i
      BY <1>4, <3>1
    <3> QED
      BY <1>9, <1>11, <3>1, <3>2
  <2> QED
    BY <1>4, <2>1, <2>2, <2>3
<1> QED
  BY <1>1, <1>2, <1>3, <1>4, <1>8, <1>10, <1>12, <1>13, SameSequence

\* The elements of a sequence, of one and its tail, and of two, one after the other.
LEMMA ToSetFacts ==
    ASSUME NEW S, NEW s \in Seq(S)
    PROVE  /\ ToSet(s) \subseteq S
           /\ s # <<>> => ToSet(s) = {Head(s)} \union ToSet(Tail(s))
           /\ s = <<>> <=> ToSet(s) = {}
           /\ \A i \in DOMAIN s : s[i] \in ToSet(s)
           /\ \A e \in ToSet(s) : \E i \in DOMAIN s : s[i] = e
<1>1. /\ ToSet(s) \subseteq S
      /\ \A i \in DOMAIN s : s[i] \in ToSet(s)
      /\ \A e \in ToSet(s) : \E i \in DOMAIN s : s[i] = e
  BY DEF ToSet
<1>2. ASSUME s # <<>> PROVE ToSet(s) = {Head(s)} \union ToSet(Tail(s))
  <2>1. ASSUME NEW e \in ToSet(s) PROVE e = Head(s) \/ e \in ToSet(Tail(s))
    <3>1. PICK i \in DOMAIN s : s[i] = e
      BY <2>1 DEF ToSet
    <3>2. i # 1 => i - 1 \in DOMAIN Tail(s) /\ Tail(s)[i - 1] = s[i]
      BY <1>2
    <3> QED
      BY <1>2, <3>1, <3>2 DEF ToSet
  <2>2. Head(s) \in ToSet(s)
    BY <1>2, TailFacts DEF ToSet
  <2>3. ASSUME NEW e \in ToSet(Tail(s)) PROVE e \in ToSet(s)
    BY <1>2, TailFacts DEF ToSet
  <2> QED
    BY <2>1, <2>2, <2>3
<1>3. s = <<>> <=> ToSet(s) = {}
  <2>1. s # <<>> => 1 \in DOMAIN s
    BY TailFacts
  <2>2. DOMAIN <<>> = {}
    OBVIOUS
  <2> QED
    BY <2>1, <2>2 DEF ToSet
<1> QED
  BY <1>1, <1>2, <1>3

LEMMA ToSetOfBoth ==
    ASSUME NEW S, NEW s \in Seq(S), NEW r \in Seq(S)
    PROVE  ToSet(s \o r) = ToSet(s) \union ToSet(r)
<1>1. Len(s \o r) = Len(s) + Len(r) /\ s \o r \in Seq(S)
  OBVIOUS
<1>2. ASSUME NEW e \in ToSet(s \o r) PROVE e \in ToSet(s) \/ e \in ToSet(r)
  <2>1. PICK i \in 1..(Len(s) + Len(r)) : (s \o r)[i] = e
    BY <1>1 DEF ToSet
  <2>2. CASE i <= Len(s)
    BY <2>1, <2>2, Concatenated DEF ToSet
  <2>3. CASE i > Len(s)
    <3>1. PICK j \in 1..Len(r) : i = Len(s) + j
      BY <2>1, <2>3
    <3> QED
      BY <2>1, <3>1, Concatenated DEF ToSet
  <2> QED
    BY <2>1, <2>2, <2>3
<1>3. ASSUME NEW e \in ToSet(s) PROVE e \in ToSet(s \o r)
  <2>1. PICK i \in 1..Len(s) : s[i] = e
    BY <1>3 DEF ToSet
  <2>2. i \in 1..(Len(s) + Len(r)) /\ (s \o r)[i] = e
    BY <2>1, Concatenated
  <2> QED
    BY <1>1, <2>2 DEF ToSet
<1>4. ASSUME NEW e \in ToSet(r) PROVE e \in ToSet(s \o r)
  <2>1. PICK i \in 1..Len(r) : r[i] = e
    BY <1>4 DEF ToSet
  <2>2. Len(s) + i \in 1..(Len(s) + Len(r)) /\ (s \o r)[Len(s) + i] = e
    BY <2>1, Concatenated
  <2> QED
    BY <1>1, <2>2 DEF ToSet
<1> QED
  BY <1>2, <1>3, <1>4

LEMMA ToSetOfOne ==
    ASSUME NEW e
    PROVE  ToSet(<<e>>) = {e}
<1>1. DOMAIN <<e>> = {1} /\ <<e>>[1] = e
  OBVIOUS
<1> QED
  BY <1>1 DEF ToSet

LEMMA ToSetOfMore ==
    ASSUME NEW S, NEW s \in Seq(S), NEW e \in S
    PROVE  ToSet(Append(s, e)) = ToSet(s) \union {e}
<1>1. Append(s, e) = s \o <<e>>
  OBVIOUS
<1>2. <<e>> \in Seq(S)
  OBVIOUS
<1>3. ToSet(s \o <<e>>) = ToSet(s) \union ToSet(<<e>>)
  BY <1>2, ToSetOfBoth
<1> QED
  BY <1>1, <1>3, ToSetOfOne

\* One more at the front.
LEMMA ToSetOfFront ==
    ASSUME NEW S, NEW e \in S, NEW s \in Seq(S)
    PROVE  <<e>> \o s \in Seq(S) /\ ToSet(<<e>> \o s) = {e} \union ToSet(s)
<1>1. <<e>> \in Seq(S)
  OBVIOUS
<1>2. <<e>> \o s \in Seq(S)
  BY <1>1
<1>3. ToSet(<<e>> \o s) = ToSet(<<e>>) \union ToSet(s)
  BY <1>1, ToSetOfBoth
<1> QED
  BY <1>2, <1>3, ToSetOfOne

\* A sequence is its head and then its tail.
LEMMA HeadAndTail ==
    ASSUME NEW S, NEW b \in Seq(S), b # <<>>
    PROVE  b = <<Head(b)>> \o Tail(b)
  OBVIOUS

\* It does not matter where three sequences in a row are put together first.
LEMMA Associates ==
    ASSUME NEW S, NEW r \in Seq(S), NEW s \in Seq(S), NEW t \in Seq(S)
    PROVE  (r \o s) \o t = r \o (s \o t)
  OBVIOUS

\* The head and tail of two sequences in a row are those of the first.
LEMMA TailOfBoth ==
    ASSUME NEW S, NEW s \in Seq(S), NEW t \in Seq(S), s # <<>>
    PROVE  Tail(s \o t) = Tail(s) \o t /\ Head(s \o t) = Head(s) /\ s \o t # <<>>
  OBVIOUS
=============================================================================
