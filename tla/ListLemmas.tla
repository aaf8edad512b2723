----------------------------- MODULE ListLemmas -----------------------------
(***************************************************************************)
(* Facts about the linked lists of the firmware, kept as sequences: what   *)
(* inserting a node, unlinking a node and cutting a list in two do to its  *)
(* nodes.  The proofs about the components cite them by name.              *)
(***************************************************************************)
EXTENDS Naturals, Sequences, SequencesExt, SequenceTheorems, TLAPS

(* Membership and absence of repeats, by index. *)
LEMMA ElementIndex ==
  ASSUME NEW S, NEW s \in Seq(S), NEW x
  PROVE  x \in ToSet(s) <=> \E i \in 1..Len(s) : x = s[i]
<1>1. DOMAIN s = 1..Len(s)
  BY LenProperties
<1> QED
  BY <1>1 DEF ToSet

LEMMA InjectiveIndex ==
  ASSUME NEW S, NEW s \in Seq(S)
  PROVE  IsInjective(s) <=> \A i, j \in 1..Len(s) : s[i] = s[j] => i = j
<1>1. DOMAIN s = 1..Len(s)
  BY LenProperties
<1> QED
  BY <1>1 DEF IsInjective

(* InsertAt puts one element at its place and shifts what follows. *)
LEMMA InsertAtShape ==
  ASSUME NEW S, NEW s \in Seq(S), NEW e \in S, NEW p \in 1..(Len(s) + 1)
  PROVE  /\ InsertAt(s, p, e) \in Seq(S)
         /\ Len(InsertAt(s, p, e)) = Len(s) + 1
         /\ \A i \in 1..(p - 1) : InsertAt(s, p, e)[i] = s[i]
         /\ InsertAt(s, p, e)[p] = e
         /\ \A i \in p..Len(s) : InsertAt(s, p, e)[i + 1] = s[i]
<1> DEFINE a == SubSeq(s, 1, p - 1)
           b == <<e>>
           c == SubSeq(s, p, Len(s))
<1>1. /\ a \in Seq(S) /\ Len(a) = p - 1 /\ p - 1 \in Nat
      /\ \A i \in 1..(p - 1) : a[i] = s[i]
  <2>1. \A i \in 1..(p - 1) : s[i] \in S
    BY ElementOfSeq
  <2>2. QED
    BY <2>1, SubSeqProperties
<1>2. b \in Seq(S) /\ Len(b) = 1 /\ b[1] = e
  OBVIOUS
<1>3. /\ c \in Seq(S) /\ Len(c) = Len(s) - p + 1 /\ Len(s) - p + 1 \in Nat
      /\ \A i \in 1..(Len(s) - p + 1) : c[i] = s[p + i - 1]
  <2>1. \A i \in p..Len(s) : s[i] \in S
    BY ElementOfSeq
  <2>2. QED
    BY <2>1, SubSeqProperties
<1> HIDE DEF a, b, c
<1> DEFINE ab == a \o b
<1>4. /\ ab \in Seq(S) /\ Len(ab) = p
      /\ \A i \in 1..(p - 1) : ab[i] = a[i]
      /\ ab[p] = e
  <2>1. /\ ab \in Seq(S) /\ Len(ab) = Len(a) + Len(b)
        /\ \A i \in 1..(Len(a) + Len(b)) :
             ab[i] = IF i <= Len(a) THEN a[i] ELSE b[i - Len(a)]
    BY <1>1, <1>2, ConcatProperties, Zenon DEF ab
  <2>2. QED
    BY <1>1, <1>2, <2>1
<1> HIDE DEF ab
<1>5. /\ ab \o c \in Seq(S) /\ Len(ab \o c) = p + (Len(s) - p + 1)
      /\ \A i \in 1..p : (ab \o c)[i] = ab[i]
      /\ \A i \in 1..(Len(s) - p + 1) : (ab \o c)[p + i] = c[i]
  <2>1. /\ ab \o c \in Seq(S) /\ Len(ab \o c) = Len(ab) + Len(c)
        /\ \A i \in 1..(Len(ab) + Len(c)) :
             (ab \o c)[i] = IF i <= Len(ab) THEN ab[i] ELSE c[i - Len(ab)]
    BY <1>3, <1>4, ConcatProperties, Zenon
  <2>2. ASSUME NEW i \in 1..(Len(s) - p + 1) PROVE (ab \o c)[p + i] = c[i]
    <3>1. p + i \in 1..(Len(ab) + Len(c)) /\ ~(p + i <= Len(ab)) /\ (p + i) - Len(ab) = i
      BY <1>3, <1>4
    <3>2. QED
      BY <2>1, <3>1
  <2>3. QED
    BY <1>3, <1>4, <2>1, <2>2
<1>6. InsertAt(s, p, e) = ab \o c
  BY DEF InsertAt, a, b, c, ab
<1> DEFINE r == ab \o c
<1> HIDE DEF r
<1>7. ASSUME NEW i \in 1..(p - 1) PROVE r[i] = s[i]
  BY <1>1, <1>4, <1>5 DEF r
<1>8. ASSUME NEW i \in p..Len(s) PROVE r[i + 1] = s[i]
  <2> DEFINE j == i - p + 1
  <2>1. j \in 1..(Len(s) - p + 1) /\ p + j = i + 1 /\ p + j - 1 = i
    OBVIOUS
  <2>2. r[p + j] = c[j] /\ c[j] = s[p + j - 1]
    BY <1>3, <1>5, <2>1 DEF r
  <2>3. QED
    BY <2>1, <2>2
<1>9. r \in Seq(S) /\ Len(r) = Len(s) + 1 /\ r[p] = e
  BY <1>4, <1>5 DEF r
<1> QED
  BY <1>6, <1>7, <1>8, <1>9 DEF r

(* RemoveAt unlinks one element. *)
LEMMA RemoveAtShape ==
  ASSUME NEW S, NEW s \in Seq(S), NEW p \in 1..Len(s)
  PROVE  /\ RemoveAt(s, p) \in Seq(S)
         /\ Len(RemoveAt(s, p)) = Len(s) - 1
         /\ \A i \in 1..(p - 1) : RemoveAt(s, p)[i] = s[i]
         /\ \A i \in (p + 1)..Len(s) : RemoveAt(s, p)[i - 1] = s[i]
<1> DEFINE a == SubSeq(s, 1, p - 1)
           c == SubSeq(s, p + 1, Len(s))
           r == a \o c
<1>1. /\ a \in Seq(S) /\ Len(a) = p - 1 /\ p - 1 \in Nat
      /\ \A i \in 1..(p - 1) : a[i] = s[i]
  <2>1. \A i \in 1..(p - 1) : s[i] \in S
    BY ElementOfSeq
  <2>2. QED
    BY <2>1, SubSeqProperties
<1>2. /\ c \in Seq(S) /\ Len(c) = Len(s) - p /\ Len(s) - p \in Nat
      /\ \A i \in 1..(Len(s) - p) : c[i] = s[p + i]
  <2>1. \A i \in (p + 1)..Len(s) : s[i] \in S
    BY ElementOfSeq
  <2>2. QED
    BY <2>1, SubSeqProperties
<1> HIDE DEF a, c
<1>3. /\ r \in Seq(S) /\ Len(r) = (p - 1) + (Len(s) - p)
      /\ \A i \in 1..(p - 1) : r[i] = a[i]
      /\ \A i \in 1..(Len(s) - p) : r[(p - 1) + i] = c[i]
  <2>1. /\ r \in Seq(S) /\ Len(r) = Len(a) + Len(c)
        /\ \A i \in 1..(Len(a) + Len(c)) :
             r[i] = IF i <= Len(a) THEN a[i] ELSE c[i - Len(a)]
    BY <1>1, <1>2, ConcatProperties, Zenon DEF r
  <2>2. ASSUME NEW i \in 1..(Len(s) - p) PROVE r[(p - 1) + i] = c[i]
    <3>1. /\ (p - 1) + i \in 1..(Len(a) + Len(c))
          /\ ~((p - 1) + i <= Len(a)) /\ ((p - 1) + i) - Len(a) = i
      BY <1>1, <1>2
    <3>2. QED
      BY <2>1, <3>1
  <2>3. ASSUME NEW i \in 1..(p - 1) PROVE r[i] = a[i]
    BY <1>1, <1>2, <2>1
  <2>4. QED
    BY <1>1, <1>2, <2>1, <2>2, <2>3
<1>4. RemoveAt(s, p) = r
  BY DEF RemoveAt, a, c
<1> HIDE DEF r
<1>5. ASSUME NEW i \in (p + 1)..Len(s) PROVE r[i - 1] = s[i]
  <2> DEFINE j == i - p
  <2>1. j \in 1..(Len(s) - p) /\ (p - 1) + j = i - 1 /\ p + j = i
    OBVIOUS
  <2>2. r[(p - 1) + j] = c[j] /\ c[j] = s[p + j]
    BY <1>2, <1>3, <2>1
  <2>3. QED
    BY <2>1, <2>2
<1> QED
  BY <1>1, <1>3, <1>4, <1>5

(* Inserting a new element adds it and keeps the list free of repeats. *)
LEMMA InsertAtElements ==
  ASSUME NEW S, NEW s \in Seq(S), NEW e \in S, NEW p \in 1..(Len(s) + 1)
  PROVE  /\ ToSet(InsertAt(s, p, e)) = ToSet(s) \cup {e}
         /\ IsInjective(s) /\ e \notin ToSet(s) => IsInjective(InsertAt(s, p, e))
<1> DEFINE r == InsertAt(s, p, e)
<1>1. /\ r \in Seq(S) /\ Len(r) = Len(s) + 1
      /\ \A i \in 1..(p - 1) : r[i] = s[i]
      /\ r[p] = e
      /\ \A i \in p..Len(s) : r[i + 1] = s[i]
  BY InsertAtShape
<1> HIDE DEF r
<1>2. ASSUME NEW i \in 1..(Len(s) + 1)
      PROVE  \/ i < p /\ i \in 1..Len(s) /\ r[i] = s[i]
             \/ i = p /\ r[i] = e
             \/ i > p /\ i - 1 \in 1..Len(s) /\ r[i] = s[i - 1]
  <2>1. CASE i < p
    BY <1>1, <2>1
  <2>2. CASE i = p
    BY <1>1, <2>2
  <2>3. CASE i > p
    <3>1. i - 1 \in p..Len(s) /\ (i - 1) + 1 = i
      BY <2>3
    <3>2. r[(i - 1) + 1] = s[i - 1]
      BY <1>1, <3>1
    <3>3. QED
      BY <2>3, <3>1, <3>2
  <2>4. QED
    BY <2>1, <2>2, <2>3
<1>3. ToSet(r) = ToSet(s) \cup {e}
  <2>1. ASSUME NEW x \in ToSet(r) PROVE x \in ToSet(s) \cup {e}
    <3>1. PICK i \in 1..(Len(s) + 1) : x = r[i]
      BY <1>1, ElementIndex
    <3>2. QED
      BY <1>2, <3>1, ElementIndex
  <2>2. ASSUME NEW x \in ToSet(s) PROVE x \in ToSet(r)
    <3>1. PICK i \in 1..Len(s) : x = s[i]
      BY ElementIndex
    <3>2. \E j \in 1..(Len(s) + 1) : x = r[j]
      <4>1. CASE i < p
        BY <1>1, <3>1, <4>1
      <4>2. CASE i >= p
        BY <1>1, <3>1, <4>2
      <4>3. QED
        BY <4>1, <4>2
    <3>3. QED
      BY <1>1, <3>2, ElementIndex
  <2>3. e \in ToSet(r)
    BY <1>1, ElementIndex
  <2>4. QED
    BY <2>1, <2>2, <2>3
<1>4. ASSUME IsInjective(s), e \notin ToSet(s) PROVE IsInjective(r)
  <2>1. \A i \in 1..Len(s) : s[i] # e
    BY <1>4, ElementIndex
  <2>2. \A i, j \in 1..Len(s) : s[i] = s[j] => i = j
    BY <1>4, InjectiveIndex
  <2>3. ASSUME NEW i \in 1..(Len(s) + 1), NEW j \in 1..(Len(s) + 1), r[i] = r[j]
        PROVE  i = j
    <3>1. CASE i = p
      BY <1>2, <2>1, <2>3, <3>1
    <3>2. CASE j = p
      BY <1>2, <2>1, <2>3, <3>2
    <3>3. CASE i # p /\ j # p
      <4>1. PICK k \in 1..Len(s) :
              r[i] = s[k] /\ k = IF i < p THEN i ELSE i - 1
        BY <1>2, <3>3
      <4>2. PICK l \in 1..Len(s) :
              r[j] = s[l] /\ l = IF j < p THEN j ELSE j - 1
        BY <1>2, <3>3
      <4>3. k = l
        BY <2>2, <2>3, <4>1, <4>2
      <4>4. QED
        BY <3>3, <4>1, <4>2, <4>3
    <3>4. QED
      BY <3>1, <3>2, <3>3
  <2>4. QED
    BY <1>1, <2>3, InjectiveIndex
<1> QED
  BY <1>3, <1>4 DEF r

(* Unlinking an element of a list without repeats takes just it away. *)
LEMMA RemoveAtElements ==
  ASSUME NEW S, NEW s \in Seq(S), NEW p \in 1..Len(s), IsInjective(s)
  PROVE  /\ ToSet(RemoveAt(s, p)) = ToSet(s) \ {s[p]}
         /\ IsInjective(RemoveAt(s, p))
<1> DEFINE r == RemoveAt(s, p)
<1>1. /\ r \in Seq(S) /\ Len(r) = Len(s) - 1
      /\ \A i \in 1..(p - 1) : r[i] = s[i]
      /\ \A i \in (p + 1)..Len(s) : r[i - 1] = s[i]
  BY RemoveAtShape
<1>2. \A i, j \in 1..Len(s) : s[i] = s[j] => i = j
  BY InjectiveIndex
<1> HIDE DEF r
<1>3. ASSUME NEW i \in 1..(Len(s) - 1)
      PROVE  \/ i < p /\ i \in 1..Len(s) /\ r[i] = s[i]
             \/ i >= p /\ i + 1 \in 1..Len(s) /\ r[i] = s[i + 1]
  <2>1. CASE i < p
    BY <1>1, <2>1
  <2>2. CASE i >= p
    <3>1. i + 1 \in (p + 1)..Len(s) /\ (i + 1) - 1 = i
      BY <2>2
    <3>2. r[(i + 1) - 1] = s[i + 1]
      BY <1>1, <3>1
    <3>3. QED
      BY <2>2, <3>1, <3>2
  <2>3. QED
    BY <2>1, <2>2
<1>4. ToSet(r) = ToSet(s) \ {s[p]}
  <2>1. ASSUME NEW x \in ToSet(r) PROVE x \in ToSet(s) \ {s[p]}
    <3>1. PICK i \in 1..(Len(s) - 1) : x = r[i]
      BY <1>1, ElementIndex
    <3>2. PICK j \in 1..Len(s) : x = s[j] /\ j # p
      BY <1>3, <3>1
    <3>3. QED
      BY <1>2, <3>2, ElementIndex
  <2>2. ASSUME NEW x \in ToSet(s) \ {s[p]} PROVE x \in ToSet(r)
    <3>1. PICK i \in 1..Len(s) : x = s[i]
      BY ElementIndex
    <3>2. \E j \in 1..(Len(s) - 1) : x = r[j]
      <4>1. CASE i < p
        BY <1>1, <3>1, <4>1
      <4>2. CASE i > p
        BY <1>1, <3>1, <4>2
      <4>3. QED
        BY <2>2, <3>1, <4>1, <4>2
    <3>3. QED
      BY <1>1, <3>2, ElementIndex
  <2>3. QED
    BY <2>1, <2>2
<1>5. ASSUME NEW i \in 1..(Len(s) - 1), NEW j \in 1..(Len(s) - 1), r[i] = r[j]
      PROVE  i = j
  BY <1>2, <1>3, <1>5
<1>6. IsInjective(r)
  BY <1>1, <1>5, InjectiveIndex
<1> QED
  BY <1>4, <1>6 DEF r

(* Cutting a list in two after e elements. *)
LEMMA CutShape ==
  ASSUME NEW S, NEW s \in Seq(S), NEW e \in 0..Len(s)
  PROVE  LET a == SubSeq(s, 1, e)
             b == SubSeq(s, e + 1, Len(s))
         IN  /\ a \in Seq(S) /\ Len(a) = e /\ \A i \in 1..e : a[i] = s[i]
             /\ b \in Seq(S) /\ Len(b) = Len(s) - e
             /\ \A i \in 1..(Len(s) - e) : b[i] = s[e + i]
<1>1. \A i \in 1..e : s[i] \in S
  BY ElementOfSeq
<1>2. \A i \in (e + 1)..Len(s) : s[i] \in S
  BY ElementOfSeq
<1> QED
  BY <1>1, <1>2, SubSeqProperties

LEMMA CutElements ==
  ASSUME NEW S, NEW s \in Seq(S), NEW e \in 0..Len(s), IsInjective(s)
  PROVE  LET a == SubSeq(s, 1, e)
             b == SubSeq(s, e + 1, Len(s))
         IN  /\ ToSet(a) \cup ToSet(b) = ToSet(s)
             /\ ToSet(a) \cap ToSet(b) = {}
             /\ IsInjective(a) /\ IsInjective(b)
<1> DEFINE a == SubSeq(s, 1, e)
           b == SubSeq(s, e + 1, Len(s))
<1>1. /\ a \in Seq(S) /\ Len(a) = e
      /\ \A i \in 1..e : a[i] = s[i]
      /\ b \in Seq(S) /\ Len(b) = Len(s) - e
      /\ \A i \in 1..(Len(s) - e) : b[i] = s[e + i]
  BY CutShape
<1>2. \A i, j \in 1..Len(s) : s[i] = s[j] => i = j
  BY InjectiveIndex
<1> HIDE DEF a, b
<1>3. \A x : x \in ToSet(a) <=> \E i \in 1..e : x = s[i]
  <2>1. ASSUME NEW x, NEW i \in 1..e, x = s[i] PROVE x \in ToSet(a)
    BY <1>1, <2>1, ElementIndex
  <2>2. ASSUME NEW x \in ToSet(a) PROVE \E i \in 1..e : x = s[i]
    <3>1. PICK i \in 1..e : x = a[i]
      BY <1>1, ElementIndex
    <3>2. QED
      BY <1>1, <3>1
  <2>3. QED
    BY <2>1, <2>2
<1>4. \A x : x \in ToSet(b) <=> \E i \in (e + 1)..Len(s) : x = s[i]
  <2>1. ASSUME NEW x, NEW i \in (e + 1)..Len(s), x = s[i] PROVE x \in ToSet(b)
    <3>1. i - e \in 1..(Len(s) - e) /\ e + (i - e) = i
      OBVIOUS
    <3>2. x = b[i - e]
      BY <1>1, <2>1, <3>1
    <3>3. QED
      BY <1>1, <3>1, <3>2, ElementIndex
  <2>2. ASSUME NEW x \in ToSet(b) PROVE \E i \in (e + 1)..Len(s) : x = s[i]
    <3>1. PICK i \in 1..(Len(s) - e) : x = b[i]
      BY <1>1, ElementIndex
    <3>2. e + i \in (e + 1)..Len(s) /\ x = s[e + i]
      BY <1>1, <3>1
    <3>3. QED
      BY <3>2
  <2>3. QED
    BY <2>1, <2>2
<1>5. ToSet(a) \cup ToSet(b) = ToSet(s)
  <2>1. ASSUME NEW x \in ToSet(s) PROVE x \in ToSet(a) \cup ToSet(b)
    <3>1. PICK i \in 1..Len(s) : x = s[i]
      BY ElementIndex
    <3>2. i \in 1..e \/ i \in (e + 1)..Len(s)
      OBVIOUS
    <3>3. QED
      BY <1>3, <1>4, <3>1, <3>2
  <2>2. ASSUME NEW x \in ToSet(a) \cup ToSet(b) PROVE x \in ToSet(s)
    <3>1. \E i \in 1..Len(s) : x = s[i]
      BY <1>3, <1>4
    <3>2. QED
      BY <3>1, ElementIndex
  <2>3. QED
    BY <2>1, <2>2
<1>6. ToSet(a) \cap ToSet(b) = {}
  <2>1. ASSUME NEW x, x \in ToSet(a), x \in ToSet(b) PROVE FALSE
    <3>1. PICK i \in 1..e : x = s[i]
      BY <1>3, <2>1
    <3>2. PICK j \in (e + 1)..Len(s) : x = s[j]
      BY <1>4, <2>1
    <3>3. i \in 1..Len(s) /\ j \in 1..Len(s) /\ i # j /\ s[i] = s[j]
      BY <3>1, <3>2
    <3>4. QED
      BY <1>2, <3>3
  <2>2. QED
    BY <2>1
<1>7. IsInjective(a)
  <2>1. \A i, j \in 1..e : a[i] = a[j] => i = j
    BY <1>1, <1>2
  <2>2. QED
    BY <1>1, <2>1, InjectiveIndex
<1>8. IsInjective(b)
  <2>1. ASSUME NEW i \in 1..(Len(s) - e), NEW j \in 1..(Len(s) - e), b[i] = b[j]
        PROVE  i = j
    <3>1. e + i \in 1..Len(s) /\ e + j \in 1..Len(s) /\ s[e + i] = s[e + j]
      BY <1>1, <2>1
    <3>2. e + i = e + j
      BY <1>2, <3>1
    <3>3. QED
      BY <3>2
  <2>2. QED
    BY <1>1, <2>1, InjectiveIndex
<1> QED
  BY <1>5, <1>6, <1>7, <1>8 DEF a, b

(* Taking the head off a list without repeats. *)
LEMMA TailElements ==
  ASSUME NEW S, NEW s \in Seq(S), s # <<>>, IsInjective(s)
  PROVE  /\ Head(s) \in S /\ Tail(s) \in Seq(S)
         /\ Head(s) \in ToSet(s)
         /\ ToSet(Tail(s)) = ToSet(s) \ {Head(s)}
         /\ IsInjective(Tail(s))
<1> DEFINE r == Tail(s)
<1>1. /\ r \in Seq(S) /\ Len(r) = Len(s) - 1
      /\ \A i \in 1..(Len(s) - 1) : r[i] = s[i + 1]
      /\ Len(s) \in Nat /\ Len(s) >= 1
      /\ Head(s) = s[1] /\ Head(s) \in S
  BY HeadTailProperties, LenProperties
<1>2. \A i, j \in 1..Len(s) : s[i] = s[j] => i = j
  BY InjectiveIndex
<1> HIDE DEF r
<1>3. ToSet(r) = ToSet(s) \ {Head(s)}
  <2>1. ASSUME NEW x \in ToSet(r) PROVE x \in ToSet(s) \ {Head(s)}
    <3>1. PICK i \in 1..(Len(s) - 1) : x = r[i]
      BY <1>1, ElementIndex
    <3>2. i + 1 \in 1..Len(s) /\ x = s[i + 1] /\ i + 1 # 1
      BY <1>1, <3>1
    <3>3. x # s[1]
      BY <1>1, <1>2, <3>2
    <3>4. QED
      BY <1>1, <3>2, <3>3, ElementIndex
  <2>2. ASSUME NEW x \in ToSet(s) \ {Head(s)} PROVE x \in ToSet(r)
    <3>1. PICK i \in 1..Len(s) : x = s[i]
      BY ElementIndex
    <3>2. i - 1 \in 1..(Len(s) - 1) /\ (i - 1) + 1 = i
      BY <1>1, <2>2, <3>1
    <3>3. x = r[i - 1]
      BY <1>1, <3>1, <3>2
    <3>4. QED
      BY <1>1, <3>2, <3>3, ElementIndex
  <2>3. QED
    BY <2>1, <2>2
<1>4. IsInjective(r)
  <2>1. ASSUME NEW i \in 1..(Len(s) - 1), NEW j \in 1..(Len(s) - 1), r[i] = r[j]
        PROVE  i = j
    <3>1. i + 1 \in 1..Len(s) /\ j + 1 \in 1..Len(s) /\ s[i + 1] = s[j + 1]
      BY <1>1, <2>1
    <3>2. i + 1 = j + 1
      BY <1>2, <3>1
    <3>3. QED
      BY <3>2
  <2>2. QED
    BY <1>1, <2>1, InjectiveIndex
<1>5. Head(s) \in ToSet(s)
  BY <1>1, ElementIndex
<1> QED
  BY <1>1, <1>3, <1>4, <1>5 DEF r
=============================================================================
