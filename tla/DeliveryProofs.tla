--------------------------- MODULE DeliveryProofs ---------------------------
(***************************************************************************)
(* Theorems about the deliveries of MessageQueue: where a delivery is, that *)
(* it is there once, that it keeps its attempts and that it is not lost.   *)
(***************************************************************************)
EXTENDS MessageQueueProofs

-------------------------------------------------------------------------------
(***************************************************************************)
(* What the list operators do to lists without a repeated delivery.        *)
(***************************************************************************)

Uniq(s) == \A i, j \in DOMAIN s : s[i].id = s[j].id => i = j

IdsOf(R) == {r.id : r \in R}

\* The ids of a list are those of its elements.
LEMMA IdsElems ==
  ASSUME NEW s
  PROVE  Ids(s) = IdsOf(Elems(s))
BY DEF Ids, IdsOf, Elems

\* An id names one element.
LEMMA UniqElems ==
  ASSUME NEW s, Uniq(s), NEW r \in Elems(s), NEW q \in Elems(s), r.id = q.id
  PROVE  r = q
BY DEF Uniq, Elems

\* The empty list.
LEMMA NoElems ==
  ASSUME NEW S, NEW s \in Seq(S), Elems(s) = {}
  PROVE  s = <<>>
<1>1. Len(s) \in Nat /\ DOMAIN s = 1 .. Len(s)
  OBVIOUS
<1>2. DOMAIN s = {}
  BY DEF Elems
<1>3. ~(1 \in 1 .. Len(s))
  BY <1>1, <1>2
<1>4. Len(s) = 0
  BY <1>1, <1>3
<1> QED BY <1>4

\* BLMOVE takes the head away.
LEMMA TailList ==
  ASSUME NEW S, NEW s \in Seq(S), s # <<>>
  PROVE  /\ Tail(s) \in Seq(S)
         /\ Head(s) \in Elems(s)
         /\ Elems(s) = Elems(Tail(s)) \cup {Head(s)}
         /\ Uniq(s) => Uniq(Tail(s)) /\ Head(s).id \notin Ids(Tail(s))
<1>1. Len(s) \in Nat \ {0} /\ DOMAIN s = 1 .. Len(s)
  OBVIOUS
<1>2. /\ Tail(s) \in Seq(S) /\ Len(Tail(s)) = Len(s) - 1
      /\ \A i \in 1 .. (Len(s) - 1) : Tail(s)[i] = s[i + 1]
      /\ Head(s) = s[1]
  OBVIOUS
<1>3. DOMAIN Tail(s) = 1 .. (Len(s) - 1)
  BY <1>2
<1>4. \A i \in DOMAIN Tail(s) : i + 1 \in DOMAIN s /\ Tail(s)[i] = s[i + 1]
  BY <1>1, <1>2, <1>3
<1>5. 1 \in DOMAIN s /\ \A i \in DOMAIN s : i = 1 \/ (i - 1 \in DOMAIN Tail(s) /\ s[i] = Tail(s)[i - 1])
  <2> SUFFICES ASSUME NEW i \in DOMAIN s, i # 1
               PROVE  i - 1 \in DOMAIN Tail(s) /\ s[i] = Tail(s)[i - 1]
    BY <1>1
  <2>1. i - 1 \in 1 .. (Len(s) - 1) /\ (i - 1) + 1 = i
    BY <1>1
  <2> QED BY <2>1, <1>2, <1>3
<1>6. Elems(s) = Elems(Tail(s)) \cup {Head(s)}
  BY <1>2, <1>4, <1>5 DEF Elems
<1>7. ASSUME Uniq(s) PROVE Uniq(Tail(s))
  <2> SUFFICES ASSUME NEW i \in DOMAIN Tail(s), NEW j \in DOMAIN Tail(s),
                      Tail(s)[i].id = Tail(s)[j].id
               PROVE  i = j
    BY DEF Uniq
  <2>1. i + 1 = j + 1
    BY <1>4, <1>7 DEF Uniq
  <2> QED BY <2>1, <1>1, <1>3
<1>8. ASSUME Uniq(s) PROVE Head(s).id \notin Ids(Tail(s))
  <2> SUFFICES ASSUME NEW i \in DOMAIN Tail(s), Tail(s)[i].id = s[1].id PROVE FALSE
    BY <1>2 DEF Ids
  <2>1. i + 1 = 1
    BY <1>4, <1>5, <1>8 DEF Uniq
  <2> QED BY <2>1, <1>1, <1>3
<1> QED BY <1>2, <1>5, <1>6, <1>7, <1>8 DEF Elems

\* Two lists after one another.
LEMMA ConcatList ==
  ASSUME NEW S, NEW s \in Seq(S), NEW t \in Seq(S)
  PROVE  /\ s \o t \in Seq(S)
         /\ Elems(s \o t) = Elems(s) \cup Elems(t)
         /\ Uniq(s) /\ Uniq(t) /\ Ids(s) \cap Ids(t) = {} => Uniq(s \o t)
<1> DEFINE m == Len(s)
           n == Len(t)
<1>1. m \in Nat /\ n \in Nat /\ DOMAIN s = 1 .. m /\ DOMAIN t = 1 .. n
  OBVIOUS
<1>2. /\ s \o t \in Seq(S) /\ Len(s \o t) = m + n
      /\ \A i \in 1 .. (m + n) : (s \o t)[i] = IF i <= m THEN s[i] ELSE t[i - m]
  OBVIOUS
<1>3. DOMAIN (s \o t) = 1 .. (m + n)
  BY <1>2
<1> HIDE DEF m, n
<1>4. \A i \in DOMAIN (s \o t) :
        \/ i \in DOMAIN s /\ (s \o t)[i] = s[i]
        \/ i - m \in DOMAIN t /\ (s \o t)[i] = t[i - m]
  <2> TAKE i \in DOMAIN (s \o t)
  <2>1. CASE i <= m
    BY <1>1, <1>2, <1>3, <2>1
  <2>2. CASE ~(i <= m)
    <3>1. i - m \in 1 .. n
      BY <1>1, <1>3, <2>2
    <3> QED BY <1>1, <1>2, <1>3, <2>2, <3>1
  <2> QED BY <2>1, <2>2
<1>5. \A i \in DOMAIN s : i \in DOMAIN (s \o t) /\ (s \o t)[i] = s[i]
  BY <1>1, <1>2, <1>3
<1>6. \A i \in DOMAIN t : i + m \in DOMAIN (s \o t) /\ (s \o t)[i + m] = t[i]
  <2> TAKE i \in DOMAIN t
  <2>1. i + m \in 1 .. (m + n) /\ ~(i + m <= m) /\ (i + m) - m = i
    BY <1>1
  <2> QED BY <1>2, <1>3, <2>1
<1>7. Elems(s \o t) = Elems(s) \cup Elems(t)
  <2>1. \A r \in Elems(s \o t) : r \in Elems(s) \cup Elems(t)
    BY <1>4 DEF Elems
  <2>2. \A r \in Elems(s) : r \in Elems(s \o t)
    BY <1>5 DEF Elems
  <2>3. \A r \in Elems(t) : r \in Elems(s \o t)
    <3> TAKE r \in Elems(t)
    <3>1. PICK i \in DOMAIN t : t[i] = r
      BY DEF Elems
    <3>2. i + m \in DOMAIN (s \o t) /\ (s \o t)[i + m] = r
      BY <1>6, <3>1
    <3> QED BY <3>2 DEF Elems
  <2> QED BY <2>1, <2>2, <2>3
<1>8. ASSUME Uniq(s), Uniq(t), Ids(s) \cap Ids(t) = {} PROVE Uniq(s \o t)
  <2> SUFFICES ASSUME NEW i \in DOMAIN (s \o t), NEW j \in DOMAIN (s \o t),
                      (s \o t)[i].id = (s \o t)[j].id
               PROVE  i = j
    BY DEF Uniq
  <2>1. CASE i \in DOMAIN s /\ (s \o t)[i] = s[i] /\ j \in DOMAIN s /\ (s \o t)[j] = s[j]
    BY <1>8, <2>1 DEF Uniq
  <2>2. CASE i - m \in DOMAIN t /\ (s \o t)[i] = t[i - m] /\ j - m \in DOMAIN t /\ (s \o t)[j] = t[j - m]
    <3>1. i - m = j - m
      BY <1>8, <2>2 DEF Uniq
    <3> QED BY <3>1, <1>1, <1>3
  <2>3. CASE i \in DOMAIN s /\ (s \o t)[i] = s[i] /\ j - m \in DOMAIN t /\ (s \o t)[j] = t[j - m]
    BY <1>8, <2>3 DEF Ids
  <2>4. CASE j \in DOMAIN s /\ (s \o t)[j] = s[j] /\ i - m \in DOMAIN t /\ (s \o t)[i] = t[i - m]
    BY <1>8, <2>4 DEF Ids
  <2> QED BY <1>4, <2>1, <2>2, <2>3, <2>4
<1> QED BY <1>2, <1>7, <1>8

\* LPUSH of one envelope.
LEMMA AppendList ==
  ASSUME NEW S, NEW s \in Seq(S), NEW x \in S
  PROVE  /\ Append(s, x) \in Seq(S)
         /\ Elems(Append(s, x)) = Elems(s) \cup {x}
         /\ Uniq(s) /\ x.id \notin Ids(s) => Uniq(Append(s, x))
<1>1. Append(s, x) = s \o <<x>> /\ <<x>> \in Seq(S)
  OBVIOUS
<1>2. Elems(<<x>>) = {x} /\ Ids(<<x>>) = {x.id} /\ Uniq(<<x>>)
  BY DEF Elems, Ids, Uniq
<1>3. PICK t \in Seq(S) : t = <<x>>
  BY <1>1
<1>4. /\ s \o t \in Seq(S) /\ Elems(s \o t) = Elems(s) \cup Elems(t)
      /\ Uniq(s) /\ Uniq(t) /\ Ids(s) \cap Ids(t) = {} => Uniq(s \o t)
  BY ConcatList
<1>5. Append(s, x) = s \o t /\ Elems(t) = {x} /\ Ids(t) = {x.id} /\ Uniq(t)
  BY <1>1, <1>2, <1>3
<1> QED BY ONLY <1>4, <1>5

\* LREM removes one text, LRANGE turns the list around.
LEMMA LRemList ==
  ASSUME NEW S, NEW s \in Seq(S), NEW x, Uniq(s)
  PROVE  /\ LRem(s, x) \in Seq(S) /\ Uniq(LRem(s, x))
         /\ Elems(LRem(s, x)) = Elems(s) \ {x}
<1>0. LRem(s, x) \in Seq(S)
  BY LRemType
<1>1. CASE x \notin Elems(s)
  BY <1>0, <1>1 DEF LRem
<1>2. CASE x \in Elems(s)
  <2> DEFINE i == CHOOSE j \in DOMAIN s : s[j] = x
             n == Len(s)
             t == [k \in 1 .. (n - 1) |-> IF k < i THEN s[k] ELSE s[k + 1]]
  <2>1. i \in DOMAIN s /\ s[i] = x /\ n \in Nat /\ DOMAIN s = 1 .. n
    BY <1>2 DEF Elems
  <2>2. LRem(s, x) = t
    BY <1>2 DEF LRem
  <2> HIDE DEF i, n
  <2>3. DOMAIN t = 1 .. (n - 1)
    OBVIOUS
  <2> DEFINE F(k) == IF k < i THEN k ELSE k + 1
  <2>4. \A k \in DOMAIN t : F(k) \in DOMAIN s /\ F(k) # i /\ t[k] = s[F(k)]
    BY <2>1, <2>3
  <2>5. \A k, l \in DOMAIN t : F(k) = F(l) => k = l
    BY <2>1, <2>3
  <2>6. \A j \in DOMAIN s : j # i => \E k \in DOMAIN t : F(k) = j
    <3> TAKE j \in DOMAIN s
    <3> HAVE j # i
    <3>1. CASE j < i
      <4>1. j \in DOMAIN t /\ F(j) = j
        BY <2>1, <2>3, <3>1
      <4> QED BY <4>1
    <3>2. CASE ~(j < i)
      <4>1. j - 1 \in DOMAIN t /\ F(j - 1) = j
        BY <2>1, <2>3, <3>2
      <4> QED BY <4>1
    <3> QED BY <3>1, <3>2
  <2> HIDE DEF t, F
  <2>7. Uniq(t)
    BY <2>4, <2>5 DEF Uniq
  <2>8. \A j \in DOMAIN s : s[j] = x => j = i
    BY <2>1 DEF Uniq
  <2>9. Elems(t) = Elems(s) \ {x}
    <3>1. \A r \in Elems(t) : r \in Elems(s) /\ r # x
      BY <2>4, <2>8 DEF Elems
    <3>2. \A r \in Elems(s) : r # x => r \in Elems(t)
      BY <2>1, <2>4, <2>6 DEF Elems
    <3> QED BY <3>1, <3>2
  <2> QED BY <1>0, <2>2, <2>7, <2>9
<1> QED BY <1>1, <1>2

LEMMA LRangeList ==
  ASSUME NEW S, NEW s \in Seq(S)
  PROVE  /\ LRange(s) \in Seq(S)
         /\ Elems(LRange(s)) = Elems(s)
         /\ Uniq(s) => Uniq(LRange(s))
<1> DEFINE n == Len(s)
           t == LRange(s)
<1>1. n \in Nat /\ DOMAIN s = 1 .. n
  OBVIOUS
<1>2. t \in Seq(S) /\ t = [i \in 1 .. n |-> s[n + 1 - i]]
  BY LRangeType DEF LRange
<1> HIDE DEF n, t
<1>3. DOMAIN t = 1 .. n /\ \A i \in DOMAIN t : n + 1 - i \in DOMAIN s /\ t[i] = s[n + 1 - i]
  BY <1>1, <1>2
<1>4. \A i \in DOMAIN s : n + 1 - i \in DOMAIN t /\ t[n + 1 - i] = s[i]
  <2> TAKE i \in DOMAIN s
  <2>1. n + 1 - i \in 1 .. n /\ n + 1 - (n + 1 - i) = i
    BY <1>1
  <2> QED BY <1>3, <2>1
<1>5. Elems(t) = Elems(s)
  BY <1>3, <1>4 DEF Elems
<1>6. ASSUME Uniq(s) PROVE Uniq(t)
  <2> SUFFICES ASSUME NEW i \in DOMAIN t, NEW j \in DOMAIN t, t[i].id = t[j].id PROVE i = j
    BY DEF Uniq
  <2>1. n + 1 - i = n + 1 - j
    BY <1>3, <1>6 DEF Uniq
  <2> QED BY <1>1, <1>3, <2>1
<1> QED BY <1>2, <1>5, <1>6 DEF t

\* LSET writes another text of the same delivery.
LEMMA LSetList ==
  ASSUME NEW S, NEW s \in Seq(S), NEW old, NEW new \in S, new.id = old.id
  PROVE  /\ LSet(s, old, new) \in Seq(S)
         /\ old \in Elems(s) => Elems(LSet(s, old, new)) = (Elems(s) \ {old}) \cup {new}
         /\ old \notin Elems(s) => LSet(s, old, new) = s
         /\ Ids(LSet(s, old, new)) = Ids(s)
         /\ Uniq(s) => Uniq(LSet(s, old, new))
<1> DEFINE t == LSet(s, old, new)
<1>1. t \in Seq(S) /\ DOMAIN t = DOMAIN s
      /\ \A i \in DOMAIN s : t[i] = IF s[i] = old THEN new ELSE s[i]
  BY LSetType DEF LSet
<1>2. ASSUME old \notin Elems(s) PROVE t = s
  BY <1>1, <1>2 DEF Elems, LSet
<1> HIDE DEF t
<1>3. \A i \in DOMAIN s : t[i].id = s[i].id
  BY <1>1
<1>4. Ids(t) = Ids(s)
  BY <1>1, <1>3 DEF Ids
<1>5. Uniq(s) => Uniq(t)
  BY <1>1, <1>3 DEF Uniq
<1>6. old \in Elems(s) => Elems(t) = (Elems(s) \ {old}) \cup {new}
  BY <1>1 DEF Elems
<1> QED BY <1>1, <1>2, <1>4, <1>5, <1>6 DEF t

\* The Lua loops keep or move the elements they are meant to.
LEMMA FilteredList ==
  ASSUME NEW S, NEW s \in Seq(S), NEW T, NEW t \in Filtered(s, T)
  PROVE  /\ t \in Seq(S)
         /\ Elems(t) = Elems(s) \cap T
         /\ Uniq(s) => Uniq(t)
<1> DEFINE Idx == {i \in DOMAIN s : s[i] \in T}
           Picks(n) == {f \in [1 .. n -> Idx] :
                          /\ \A a, b \in 1 .. n : a < b => f[a] < f[b]
                          /\ \A i \in Idx : \E a \in 1 .. n : f[a] = i}
<1>1. PICK n \in 0 .. Len(s) : t \in {[a \in 1 .. n |-> s[f[a]]] : f \in Picks(n)}
  BY DEF Filtered
<1>2. PICK f \in Picks(n) : t = [a \in 1 .. n |-> s[f[a]]]
  BY <1>1
<1>3. /\ n \in Nat /\ f \in [1 .. n -> Idx]
      /\ \A a, b \in 1 .. n : a < b => f[a] < f[b]
      /\ \A i \in Idx : \E a \in 1 .. n : f[a] = i
  BY <1>1, <1>2
<1>4. DOMAIN t = 1 .. n /\ \A a \in 1 .. n : f[a] \in Idx /\ t[a] = s[f[a]]
  BY <1>2, <1>3
<1>5. \A a, b \in 1 .. n : f[a] = f[b] => a = b
  <2> TAKE a, b \in 1 .. n
  <2>1. f[a] \in Nat /\ f[b] \in Nat /\ a \in Nat /\ b \in Nat
    BY <1>3
  <2>2. (a < b => f[a] < f[b]) /\ (b < a => f[b] < f[a])
    BY <1>3
  <2> QED BY <2>1, <2>2
<1>6. \A i : i \in Idx <=> i \in DOMAIN s /\ s[i] \in T
  OBVIOUS
<1> HIDE DEF Idx, Picks
<1>7. Elems(t) = Elems(s) \cap T
  <2>1. \A r \in Elems(t) : r \in Elems(s) \cap T
    BY <1>4, <1>6 DEF Elems
  <2>2. \A r \in Elems(s) \cap T : r \in Elems(t)
    <3> TAKE r \in Elems(s) \cap T
    <3>1. PICK i \in DOMAIN s : s[i] = r
      BY DEF Elems
    <3>2. PICK a \in 1 .. n : f[a] = i
      BY <1>3, <1>6, <3>1
    <3> QED BY <1>4, <3>1, <3>2 DEF Elems
  <2> QED BY <2>1, <2>2
<1>8. Uniq(s) => Uniq(t)
  BY <1>4, <1>5, <1>6 DEF Uniq
<1> QED BY <1>7, <1>8, FilteredType

-------------------------------------------------------------------------------
(***************************************************************************)
(* Where a delivery is.                                                    *)
(***************************************************************************)

\* What is in a list was enqueued, and a sweep has read each delivery once.
Known == \A d \in Deliveries : Present(d) => d \in Elems(enq)

ReadOnce == \A c \in Consumers : Uniq(rec[c].items)

UniqInv == DeliveryUnique /\ Known /\ ReadOnce

\* The envelopes of the lists.
LEMMA ListFacts ==
  ASSUME TypeOK, NEW c \in Consumers
  PROVE  /\ main \in Seq(Raw) /\ proc \in [Consumers -> Seq(Raw)] /\ proc[c] \in Seq(Raw)
         /\ Elems(main) \subseteq Raw /\ Elems(proc[c]) \subseteq Raw
         /\ Ids(main) \subseteq Deliveries /\ Ids(proc[c]) \subseteq Deliveries
         /\ dead \subseteq Deliveries
         /\ rec[c].items \in Seq(Raw) /\ rec[c].owner \in Consumers
<1>0. \A r \in Raw : r.id \in Deliveries
  BY DEF Raw
<1>1. \A s \in Seq(Raw) : Elems(s) \subseteq Raw /\ Ids(s) \subseteq Deliveries
  <2> TAKE s \in Seq(Raw)
  <2>1. \A i \in DOMAIN s : s[i] \in Raw
    OBVIOUS
  <2> QED BY ONLY <1>0, <2>1 DEF Elems, Ids
<1>2. /\ main \in Seq(Raw) /\ proc \in [Consumers -> Seq(Raw)] /\ proc[c] \in Seq(Raw)
      /\ dead \subseteq Deliveries
  BY DEF TypeOK, ListTypes
<1> QED BY <1>1, <1>2, RecTypes

\* A step on the list of one consumer, on main and on the dead letters that moves
\* deliveries between them.
LEMMA OneOwner ==
  ASSUME TypeOK, DeliveryUnique, Known, NEW c \in Consumers, NEW p,
         proc' = [proc EXCEPT ![c] = p], enq' = enq,
         Uniq(main'), Uniq(p),
         Ids(p) \subseteq Ids(proc[c]) \cup Ids(main),
         Ids(main') \cup dead' \subseteq Ids(main) \cup Ids(proc[c]) \cup dead,
         Ids(main') \cap Ids(p) = {}, Ids(main') \cap dead' = {}, Ids(p) \cap dead' = {}
  PROVE  DeliveryUnique' /\ Known'
<1>1. proc'[c] = p /\ \A x \in Consumers \ {c} : proc'[x] = proc[x]
  BY ListFacts
<1>2. /\ \A x \in Consumers : Uniq(proc[x])
      /\ \A x \in Consumers : Ids(proc[x]) \cap (Ids(main) \cup dead) = {}
      /\ \A x, y \in Consumers : x # y => Ids(proc[x]) \cap Ids(proc[y]) = {}
  BY DEF DeliveryUnique, Uniq
<1>3. /\ \A x \in Consumers : Uniq(proc'[x])
      /\ \A x \in Consumers : Ids(proc'[x]) \cap (Ids(main') \cup dead') = {}
      /\ \A x, y \in Consumers : x # y => Ids(proc'[x]) \cap Ids(proc'[y]) = {}
  <2>1. \A x \in Consumers : Uniq(proc'[x])
    BY <1>1, <1>2
  <2>2. ASSUME NEW x \in Consumers
        PROVE  Ids(proc'[x]) \cap (Ids(main') \cup dead') = {}
    <3>1. CASE x = c
      BY ONLY <1>1, <3>1, Ids(main') \cap Ids(p) = {}, Ids(p) \cap dead' = {}
    <3>2. CASE x # c
      <4>1. Ids(proc[x]) \cap (Ids(main) \cup dead) = {} /\ Ids(proc[x]) \cap Ids(proc[c]) = {}
        BY <1>2, <3>2
      <4> QED BY <1>1, <3>2, <4>1
    <3> QED BY <3>1, <3>2
  <2>3. ASSUME NEW x \in Consumers \ {c}
        PROVE  Ids(proc'[x]) \cap Ids(proc'[c]) = {}
    <3>1. Ids(proc[x]) \cap Ids(main) = {} /\ Ids(proc[x]) \cap Ids(proc[c]) = {}
      BY <1>2
    <3> QED BY <1>1, <3>1
  <2>4. ASSUME NEW x \in Consumers, NEW y \in Consumers, x # y
        PROVE  Ids(proc'[x]) \cap Ids(proc'[y]) = {}
    BY <1>1, <1>2, <2>3, <2>4
  <2> QED BY <2>1, <2>2, <2>4
<1>4. DeliveryUnique'
  BY <1>3 DEF DeliveryUnique, Uniq
<1>5. Known'
  <2> SUFFICES ASSUME NEW d \in Deliveries, Present(d)' PROVE d \in Elems(enq)
    BY DEF Known
  <2>1. Present(d)
    BY <1>1 DEF Present
  <2> QED BY <2>1 DEF Known
<1> QED BY <1>4, <1>5

\* Steps that touch neither the lists nor what a sweep has read.
LEMMA UniqKept ==
  ASSUME UniqInv, UNCHANGED <<main, proc, dead, enq>>
  PROVE  DeliveryUnique' /\ Known' /\ (UNCHANGED rec => UniqInv')
BY DEF UniqInv, DeliveryUnique, Known, ReadOnce, Present, Uniq

\* BLMOVE.
LEMMA UniqBlmove ==
  ASSUME TypeOK, UniqInv, NEW w \in Workers, Blmove(w) \/ BlmoveReplyLost(w)
  PROVE  DeliveryUnique' /\ Known'
<1> DEFINE c == OwnerOf[w]
           h == Head(main)
           p == Append(proc[c], h)
<1>1. /\ main # <<>> /\ main' = Tail(main) /\ proc' = [proc EXCEPT ![c] = p]
      /\ dead' = dead /\ enq' = enq
  BY DEF Blmove, BlmoveReplyLost, history
<1>2. c \in Consumers
  BY ConstantsAssumption DEF ConstantsAssumption
<1>3. main \in Seq(Raw) /\ proc[c] \in Seq(Raw) /\ h \in Raw
  BY <1>1, <1>2, ListFacts, HeadType DEF TypeOK
<1>4. Uniq(main) /\ Uniq(proc[c]) /\ Ids(proc[c]) \cap (Ids(main) \cup dead) = {} /\ Ids(main) \cap dead = {}
  BY <1>2 DEF UniqInv, DeliveryUnique, Uniq
<1>5. /\ Uniq(Tail(main)) /\ h.id \notin Ids(Tail(main)) /\ h \in Elems(main)
      /\ Elems(main) = Elems(Tail(main)) \cup {h}
  BY <1>1, <1>3, <1>4, TailList
<1>6. h.id \in Ids(main) /\ Ids(Tail(main)) \subseteq Ids(main)
  BY <1>5, IdsElems DEF IdsOf
<1>7. Elems(p) = Elems(proc[c]) \cup {h} /\ Uniq(p)
  BY <1>3, <1>4, <1>6, AppendList
<1>8. Ids(p) = Ids(proc[c]) \cup {h.id}
  BY <1>7, IdsElems DEF IdsOf
<1> HIDE DEF p, h, c
<1>9. /\ Ids(p) \subseteq Ids(proc[c]) \cup Ids(main)
      /\ Ids(main') \cup dead' \subseteq Ids(main) \cup Ids(proc[c]) \cup dead
      /\ Ids(main') \cap Ids(p) = {} /\ Ids(main') \cap dead' = {} /\ Ids(p) \cap dead' = {}
  BY ONLY <1>1, <1>4, <1>5, <1>6, <1>8
<1>10. Uniq(main') /\ DeliveryUnique /\ Known
  BY <1>1, <1>5 DEF UniqInv
<1> QED BY <1>1, <1>2, <1>7, <1>9, <1>10, OneOwner

\* LREM, LSET and the filters of the Lua scripts leave one list with fewer
\* deliveries or the same.
LEMMA UniqLess ==
  ASSUME TypeOK, UniqInv, NEW c \in Consumers, NEW p, proc' = [proc EXCEPT ![c] = p],
         UNCHANGED <<main, dead, enq>>, Uniq(p), Ids(p) \subseteq Ids(proc[c])
  PROVE  DeliveryUnique' /\ Known'
<1>1. Uniq(main) /\ Ids(proc[c]) \cap (Ids(main) \cup dead) = {} /\ Ids(main) \cap dead = {}
  BY DEF UniqInv, DeliveryUnique, Uniq
<1>2. DeliveryUnique /\ Known
  BY DEF UniqInv
<1> QED BY <1>1, <1>2, OneOwner

\* _MOVE_LUA.
LEMMA UniqMove ==
  ASSUME TypeOK, UniqInv, NEW w \in Workers, wk[w].pc # "idle", MoveLua(w), enq' = enq
  PROVE  DeliveryUnique' /\ Known'
<1> DEFINE c == OwnerOf[w]
           r == wk[w].raw
           p == LRem(proc[c], r)
<1>1. c \in Consumers /\ r \in Raw /\ r.id \in Deliveries
  BY HeldType DEF TypeOK
<1>2. main \in Seq(Raw) /\ proc[c] \in Seq(Raw) /\ proc \in [Consumers -> Seq(Raw)]
  BY <1>1, ListFacts
<1>3. Uniq(main) /\ Uniq(proc[c]) /\ Ids(proc[c]) \cap (Ids(main) \cup dead) = {} /\ Ids(main) \cap dead = {}
  BY <1>1 DEF UniqInv, DeliveryUnique, Uniq
<1>4. CASE r \notin Elems(proc[c])
  BY <1>4, UniqKept DEF MoveLua
<1>5. CASE r \in Elems(proc[c])
  <2>1. proc' = [proc EXCEPT ![c] = p]
    BY <1>5 DEF MoveLua
  <2>2. Uniq(p) /\ Elems(p) = Elems(proc[c]) \ {r}
    BY <1>2, <1>3, LRemList
  <2>3. r.id \in Ids(proc[c]) /\ Ids(p) \subseteq Ids(proc[c]) /\ r.id \notin Ids(p)
    <3>1. r.id \in Ids(proc[c]) /\ Ids(p) \subseteq Ids(proc[c])
      BY <1>5, <2>2, IdsElems DEF IdsOf
    <3>2. \A q \in Elems(proc[c]) : q.id = r.id => q = r
      BY <1>3, <1>5, UniqElems
    <3>3. \A q \in Elems(p) : q.id # r.id
      BY <2>2, <3>2
    <3> QED BY <3>1, <3>3, IdsElems DEF IdsOf
  <2>4. CASE ToDead(w)
    <3>1. dead' = dead \cup {r.id} /\ main' = main
      BY <1>5, <2>4 DEF MoveLua
    <3> HIDE DEF p, r, c
    <3> QED BY <1>1, <1>3, <2>1, <2>2, <2>3, <3>1, OneOwner DEF UniqInv
  <2>5. CASE ~ToDead(w)
    <3>1. main' = Append(main, ReturnedRaw(w)) /\ dead' = dead
      BY <1>5, <2>5 DEF MoveLua
    <3>2. ReturnedRaw(w) \in Raw /\ ReturnedRaw(w).id = r.id
      BY <2>5, ReturnedRawType DEF TypeOK
    <3>3. Uniq(main') /\ Elems(main') = Elems(main) \cup {ReturnedRaw(w)}
      BY <1>2, <1>3, <2>3, <3>1, <3>2, AppendList
    <3>4. Ids(main') = Ids(main) \cup {r.id}
      BY <3>2, <3>3, IdsElems DEF IdsOf
    <3> HIDE DEF p, r, c
    <3>5. /\ Ids(p) \subseteq Ids(proc[c]) \cup Ids(main)
          /\ Ids(main') \cup dead' \subseteq Ids(main) \cup Ids(proc[c]) \cup dead
          /\ Ids(main') \cap Ids(p) = {} /\ Ids(main') \cap dead' = {} /\ Ids(p) \cap dead' = {}
      BY ONLY <1>3, <2>3, <3>1, <3>4
    <3>6. DeliveryUnique /\ Known
      BY DEF UniqInv
    <3> QED BY <1>1, <2>1, <2>2, <3>3, <3>5, <3>6, OneOwner
  <2> QED BY <2>4, <2>5
<1> QED BY <1>4, <1>5

\* _REQUEUE_LUA moves what was read and is still there; the rest stays.
LEMMA RequeueFacts ==
  ASSUME TypeOK, UniqInv, NEW c \in Consumers, RequeueLua(c)
  PROVE  \E back, rest \in Seq(Raw) :
           /\ main' = main \o back
           /\ proc' = [proc EXCEPT ![rec[c].owner] = rest]
           /\ Elems(back) = Elems(rec[c].items) \cap Elems(proc[rec[c].owner])
           /\ Elems(rest) = Elems(proc[rec[c].owner]) \ Elems(rec[c].items)
           /\ Uniq(back) /\ Uniq(rest)
<1> DEFINE o == rec[c].owner
           items == rec[c].items
<1>1. PICK back \in Filtered(items, Elems(proc[o])),
           rest \in Filtered(proc[o], Elems(proc[o]) \ Elems(items)) :
             main' = main \o back /\ proc' = [proc EXCEPT ![o] = rest]
  BY DEF RequeueLua
<1>2. items \in Seq(Raw) /\ o \in Consumers /\ proc[o] \in Seq(Raw)
  BY RecTypes
<1>3. Uniq(items) /\ Uniq(proc[o])
  BY <1>2 DEF UniqInv, ReadOnce, DeliveryUnique, Uniq
<1>4. back \in Seq(Raw) /\ Uniq(back) /\ Elems(back) = Elems(items) \cap Elems(proc[o])
  BY <1>2, <1>3, FilteredList
<1>5. /\ rest \in Seq(Raw) /\ Uniq(rest)
      /\ Elems(rest) = Elems(proc[o]) \cap (Elems(proc[o]) \ Elems(items))
  BY <1>2, <1>3, FilteredList
<1>6. Elems(rest) = Elems(proc[o]) \ Elems(items)
  BY <1>5
<1> QED BY <1>1, <1>4, <1>5, <1>6

LEMMA UniqRequeue ==
  ASSUME TypeOK, UniqInv, NEW c \in Consumers, RequeueLua(c), UNCHANGED <<dead, enq>>
  PROVE  DeliveryUnique' /\ Known'
<1> DEFINE o == rec[c].owner
           R == Elems(rec[c].items)
<1>1. PICK back \in Seq(Raw), rest \in Seq(Raw) :
        /\ main' = main \o back /\ proc' = [proc EXCEPT ![o] = rest]
        /\ Elems(back) = R \cap Elems(proc[o]) /\ Elems(rest) = Elems(proc[o]) \ R
        /\ Uniq(back) /\ Uniq(rest)
  BY RequeueFacts
<1>2. o \in Consumers /\ main \in Seq(Raw) /\ proc[o] \in Seq(Raw)
  BY ListFacts
<1>3. Uniq(main) /\ Uniq(proc[o]) /\ Ids(proc[o]) \cap (Ids(main) \cup dead) = {} /\ Ids(main) \cap dead = {}
  BY <1>2 DEF UniqInv, DeliveryUnique, Uniq
<1>4. Ids(back) \subseteq Ids(proc[o]) /\ Ids(rest) \subseteq Ids(proc[o])
  BY <1>1, IdsElems DEF IdsOf
<1>5. Ids(back) \cap Ids(rest) = {}
  <2>1. \A r, q \in Elems(proc[o]) : r.id = q.id => r = q
    BY <1>3, UniqElems
  <2>2. ASSUME NEW r \in Elems(back), NEW q \in Elems(rest), r.id = q.id PROVE FALSE
    <3>1. r = q
      BY <1>1, <2>1, <2>2
    <3> QED BY <1>1, <3>1
  <2> QED BY <2>2, IdsElems DEF IdsOf
<1>6. Elems(main') = Elems(main) \cup Elems(back) /\ Uniq(main')
  BY <1>1, <1>2, <1>3, <1>4, ConcatList
<1>7. Ids(main') = Ids(main) \cup Ids(back)
  BY <1>6, IdsElems DEF IdsOf
<1> HIDE DEF o, R
<1> QED BY <1>1, <1>2, <1>3, <1>4, <1>5, <1>6, <1>7, OneOwner DEF UniqInv

\* The steps of a worker keep the deliveries apart.
LEMMA UniqWorker ==
  ASSUME TypeOK, UniqInv, NEW w \in Workers, WorkerStep(w) \/ WorkerFault(w)
  PROVE  UniqInv'
<1> DEFINE c == OwnerOf[w]
           r == wk[w].raw
<1>1. rec' = rec
  BY HistoryTypesWorker
<1>2. enq' = enq
  BY DEF WorkerStep, ProcessStep, WorkerFault, Blmove, MarkProcessingStarted, HandleUnreadable,
     TryLock, Acquire, Work, Send, MarkDone, Post, Release, Unlock, Ack, MoveTo, LeaveInProc,
     BlmoveReplyLost, MarkProcessingStartedFails, TryLockFails, AcquireFails, MarkDoneFails,
     PostFails, ReleaseFails, UnlockFails, AckFails, MoveToFails, history
<1>3. c \in Consumers /\ proc[c] \in Seq(Raw) /\ Uniq(proc[c])
  BY ListFacts, ConstantsAssumption DEF ConstantsAssumption, UniqInv, DeliveryUnique, Uniq
<1>4. DeliveryUnique' /\ Known'
  <2>1. CASE UNCHANGED <<main, proc, dead>>
    BY <1>1, <1>2, <2>1, UniqKept
  <2>2. CASE Blmove(w) \/ BlmoveReplyLost(w)
    BY <2>2, UniqBlmove
  <2>3. CASE MarkProcessingStarted(w) \/ MarkProcessingStartedFails(w)
    <3> DEFINE p == LSet(proc[c], r, Restamped(r))
    <3>1. /\ proc' = [proc EXCEPT ![c] = p] \/ proc' = proc
          /\ UNCHANGED <<main, dead>> /\ wk[w].pc # "idle" /\ FreshStamps(r.id) # {}
      BY <2>3 DEF MarkProcessingStarted, MarkProcessingStartedFails
    <3>2. Restamped(r) \in Raw /\ Restamped(r).id = r.id
      BY <3>1, HeldType, RestampedType DEF TypeOK
    <3>3. Uniq(p) /\ Ids(p) = Ids(proc[c])
      BY <1>3, <3>2, LSetList
    <3> HIDE DEF p
    <3> QED BY <1>2, <1>3, <2>1, <3>1, <3>3, UniqLess
  <2>4. CASE Ack(w) \/ AckFails(w)
    <3> DEFINE p == LRem(proc[c], r)
    <3>1. (proc' = [proc EXCEPT ![c] = p] \/ proc' = proc) /\ UNCHANGED <<main, dead>>
      BY <2>4 DEF Ack, AckFails
    <3>2. Uniq(p) /\ Elems(p) \subseteq Elems(proc[c])
      BY <1>3, LRemList
    <3>3. Ids(p) \subseteq Ids(proc[c])
      BY <3>2, IdsElems DEF IdsOf
    <3> HIDE DEF p
    <3> QED BY <1>2, <1>3, <2>1, <3>1, <3>2, <3>3, UniqLess
  <2>5. CASE MoveTo(w) \/ MoveToFails(w)
    <3>1. wk[w].pc # "idle" /\ (MoveLua(w) \/ UNCHANGED <<main, proc, dead>>)
      BY <2>5 DEF MoveTo, MoveToFails
    <3> QED BY <1>2, <2>1, <3>1, UniqMove
  <2>6. \/ HandleUnreadable(w) \/ TryLock(w) \/ ProcessStep(w) \/ Unlock(w) \/ LeaveInProc(w)
        \/ TryLockFails(w) \/ AcquireFails(w) \/ MarkDoneFails(w) \/ PostFails(w)
        \/ ReleaseFails(w) \/ UnlockFails(w)
        => UNCHANGED <<main, proc, dead>>
    BY DEF HandleUnreadable, TryLock, ProcessStep, Acquire, Work, Send, MarkDone, Post, Release,
           Unlock, LeaveInProc, TryLockFails, AcquireFails, MarkDoneFails, PostFails,
           ReleaseFails, UnlockFails, lists
  <2> QED BY <2>1, <2>2, <2>3, <2>4, <2>5, <2>6 DEF WorkerStep, WorkerFault
<1> QED BY <1>1, <1>4 DEF UniqInv, ReadOnce

\* A consumer changes its own sweep only.
LEMMA OwnSweep ==
  ASSUME TypeOK, NEW c \in Consumers, ConsumerStep(c) \/ ConsumerFault(c) \/ Shutdown(c)
  PROVE  \A x \in Consumers \ {c} : rec'[x] = rec[x]
<1>1. rec \in [Consumers -> RecStates]
  BY RecTypes
<1>2. CASE ConsumerStep(c)
  BY <1>1, <1>2 DEF ConsumerStep, Start, TouchHeartbeat, ScanProcKeys, CheckOwner, ReadOrphans,
     ReleaseOrphan, AfterRelease, RequeueOrphans, ScanEnd, FlushPendingAcks, FlushLua,
     StopMaintenance, StopEnd, Recovered
<1>3. CASE ConsumerFault(c)
  BY <1>1, <1>3 DEF ConsumerFault, CheckOwnerFails, ReadOrphansFails, ReleaseOrphanFails,
     AfterRelease, RequeueOrphansFails, FlushPendingAcksFails, FlushLua, Recovered
<1>4. CASE Shutdown(c)
  BY <1>1, <1>4 DEF Shutdown, StopWorkers, Crash
<1> QED BY <1>2, <1>3, <1>4

\* The fields of the sweep after it has come back from an owner, ...
LEMMA RecoveredFields ==
  ASSUME TypeOK, NEW c \in Consumers
  PROVE  /\ Recovered(c)[c].pc = "visit" /\ Recovered(c)[c].owner = c
         /\ Recovered(c)[c].items = <<>> /\ Recovered(c)[c].next = 0
         /\ Recovered(c)[c].ready /\ Recovered(c)[c].todo = rec[c].todo
<1>1. rec \in [Consumers -> RecStates] /\ rec[c] \in RecStates
  BY RecTypes
<1> QED BY <1>1 DEF Recovered, RecStates

\* ... and after an item.
LEMMA AfterReleaseFields ==
  ASSUME TypeOK, NEW c \in Consumers, NEW ok \in BOOLEAN
  PROVE  LET a == AfterRelease(c, ok)[c] IN
         /\ a.todo = rec[c].todo
         /\ \/ /\ rec[c].next < Len(rec[c].items)
               /\ a.pc = rec[c].pc /\ a.owner = rec[c].owner /\ a.items = rec[c].items
               /\ a.next = rec[c].next + 1 /\ a.ready = (rec[c].ready /\ ok)
            \/ /\ ~(rec[c].next < Len(rec[c].items)) /\ rec[c].ready /\ ok
               /\ a.pc = "requeue" /\ a.owner = rec[c].owner /\ a.items = rec[c].items
               /\ a.next = rec[c].next /\ a.ready = rec[c].ready
            \/ AfterRelease(c, ok) = Recovered(c)
<1>1. rec \in [Consumers -> RecStates] /\ rec[c] \in RecStates
  BY RecTypes
<1>2. CASE rec[c].next < Len(rec[c].items)
  <2> DEFINE a == [rec[c] EXCEPT !.next = @ + 1, !.ready = @ /\ ok]
  <2>1. AfterRelease(c, ok)[c] = a
    BY <1>1, <1>2 DEF AfterRelease
  <2>2. /\ a.todo = rec[c].todo /\ a.pc = rec[c].pc /\ a.owner = rec[c].owner
        /\ a.items = rec[c].items /\ a.next = rec[c].next + 1 /\ a.ready = (rec[c].ready /\ ok)
    BY <1>1 DEF RecStates
  <2> QED BY <1>2, <2>1, <2>2
<1>3. CASE ~(rec[c].next < Len(rec[c].items)) /\ rec[c].ready /\ ok
  <2> DEFINE a == [rec[c] EXCEPT !.pc = "requeue"]
  <2>1. AfterRelease(c, ok)[c] = a
    BY <1>1, <1>3 DEF AfterRelease
  <2>2. /\ a.todo = rec[c].todo /\ a.pc = "requeue" /\ a.owner = rec[c].owner
        /\ a.items = rec[c].items /\ a.next = rec[c].next /\ a.ready = rec[c].ready
    BY <1>1 DEF RecStates
  <2> QED BY <1>3, <2>1, <2>2
<1>4. CASE ~(rec[c].next < Len(rec[c].items)) /\ ~(rec[c].ready /\ ok)
  BY <1>4, RecoveredFields DEF AfterRelease
<1> QED BY <1>2, <1>3, <1>4

\* Assignments to the record of a sweep.
LEMMA AssignPc ==
  ASSUME NEW s \in RecStates, NEW p, NEW a, a = [s EXCEPT !.pc = p]
  PROVE  /\ a.pc = p /\ a.owner = s.owner /\ a.items = s.items /\ a.next = s.next
         /\ a.ready = s.ready /\ a.todo = s.todo
BY DEF RecStates

LEMMA AssignTodo ==
  ASSUME NEW s \in RecStates, NEW t, NEW a, a = [s EXCEPT !.todo = t]
  PROVE  /\ a.pc = s.pc /\ a.owner = s.owner /\ a.items = s.items /\ a.next = s.next
         /\ a.ready = s.ready /\ a.todo = t
BY DEF RecStates

\* What each step makes of the sweep of its consumer: what it holds, ...
SameHold(c) == /\ rec'[c].owner = rec[c].owner /\ rec'[c].items = rec[c].items
               /\ rec'[c].next = rec[c].next /\ rec'[c].ready = rec[c].ready

\* ... when it has come back from an owner, ...
Back(c) == /\ rec'[c].pc = "visit" /\ rec'[c].owner = c /\ rec'[c].items = <<>>
           /\ rec'[c].todo = rec[c].todo

\* ... and when it is new.
Anew(c) == rec'[c].owner = c /\ rec'[c].items = <<>> /\ rec'[c].todo = {}

LEMMA SweepFields ==
  ASSUME TypeOK, NEW c \in Consumers
  PROVE  /\ Start(c) \/ TouchHeartbeat(c)
              => SameHold(c) /\ rec'[c].pc = "scan" /\ rec'[c].todo = rec[c].todo
         /\ ScanProcKeys(c)
              => /\ SameHold(c) /\ rec'[c].pc = "visit"
                 /\ rec'[c].todo = {o \in Consumers \ {c} : proc[o] # <<>>}
         /\ \A o \in Consumers : CheckOwner(c, o) \/ CheckOwnerFails(c, o) =>
              /\ rec'[c].todo = rec[c].todo \ {o} /\ o \in rec[c].todo
              /\ \/ SameHold(c) /\ rec'[c].pc = rec[c].pc
                 \/ /\ ~heartbeat[o] /\ rec'[c].pc = "read" /\ rec'[c].owner = o
                    /\ rec'[c].items = rec[c].items
         /\ ReadOrphans(c) =>
              \/ Back(c)
              \/ /\ rec'[c].pc = "release" /\ rec'[c].owner = rec[c].owner
                 /\ rec'[c].items = LRange(proc[rec[c].owner]) /\ rec'[c].next = 1
                 /\ rec'[c].todo = rec[c].todo
         /\ ReadOrphansFails(c) \/ RequeueOrphans(c) \/ RequeueOrphansFails(c) => Back(c)
         /\ ReleaseOrphan(c) \/ ReleaseOrphanFails(c) =>
              /\ rec'[c].todo = rec[c].todo
              /\ \/ Back(c)
                 \/ /\ rec'[c].owner = rec[c].owner /\ rec'[c].items = rec[c].items
                    /\ \/ /\ rec'[c].pc = "release" /\ rec'[c].next = rec[c].next + 1
                          /\ ReleaseOrphan(c) /\ rec'[c].ready = rec[c].ready
                       \/ /\ rec'[c].pc = "release" /\ rec'[c].next = rec[c].next + 1
                          /\ ~rec'[c].ready
                       \/ /\ rec'[c].pc = "requeue" /\ ReleaseOrphan(c) /\ rec[c].ready
                          /\ ~(rec[c].next < Len(rec[c].items))
         /\ ScanEnd(c) =>
              SameHold(c) /\ rec'[c].pc \in {"idle", "flush"} /\ rec'[c].todo = rec[c].todo
         /\ FlushPendingAcks(c) \/ FlushPendingAcksFails(c) =>
              SameHold(c) /\ rec'[c].pc = "idle" /\ rec'[c].todo = rec[c].todo
         /\ StopWorkers(c) => rec'[c] = rec[c]
         /\ StopMaintenance(c) => Anew(c) /\ rec'[c].pc = "read"
         /\ StopEnd(c) \/ Crash(c) => Anew(c) /\ rec'[c].pc = "idle"
<1>1. rec \in [Consumers -> RecStates] /\ rec[c] \in RecStates /\ rec[c].ready \in BOOLEAN
  BY RecTypes
<1>2. Start(c) \/ TouchHeartbeat(c)
        => SameHold(c) /\ rec'[c].pc = "scan" /\ rec'[c].todo = rec[c].todo
  <2> SUFFICES ASSUME Start(c) \/ TouchHeartbeat(c)
               PROVE  SameHold(c) /\ rec'[c].pc = "scan" /\ rec'[c].todo = rec[c].todo
    OBVIOUS
  <2>1. rec'[c] = [rec[c] EXCEPT !.pc = "scan"]
    BY <1>1 DEF Start, TouchHeartbeat
  <2> QED BY ONLY <1>1, <2>1, AssignPc DEF SameHold
<1>3. ScanProcKeys(c) => /\ SameHold(c) /\ rec'[c].pc = "visit"
                         /\ rec'[c].todo = {o \in Consumers \ {c} : proc[o] # <<>>}
  <2> SUFFICES ASSUME ScanProcKeys(c)
               PROVE  /\ SameHold(c) /\ rec'[c].pc = "visit"
                      /\ rec'[c].todo = {o \in Consumers \ {c} : proc[o] # <<>>}
    OBVIOUS
  <2> DEFINE t == {o \in Consumers \ {c} : proc[o] # <<>>}
  <2>1. rec'[c] = [rec[c] EXCEPT !.pc = "visit", !.todo = t]
    BY <1>1 DEF ScanProcKeys
  <2> HIDE DEF t
  <2>2. SameHold(c) /\ rec'[c].pc = "visit" /\ rec'[c].todo = t
    BY ONLY <1>1, <2>1 DEF RecStates, SameHold
  <2> QED BY <2>2 DEF t
<1>4. ASSUME NEW o \in Consumers, CheckOwner(c, o) \/ CheckOwnerFails(c, o)
      PROVE  /\ rec'[c].todo = rec[c].todo \ {o} /\ o \in rec[c].todo
             /\ \/ SameHold(c) /\ rec'[c].pc = rec[c].pc
                \/ /\ ~heartbeat[o] /\ rec'[c].pc = "read" /\ rec'[c].owner = o
                   /\ rec'[c].items = rec[c].items
  <2> DEFINE t == rec[c].todo \ {o}
  <2>1. /\ o \in rec[c].todo
        /\ \/ rec'[c] = [rec[c] EXCEPT !.todo = t]
           \/ ~heartbeat[o] /\ rec'[c] = [rec[c] EXCEPT !.todo = t, !.pc = "read", !.owner = o]
    <3>1. CASE CheckOwnerFails(c, o)
      BY <1>1, <3>1 DEF CheckOwnerFails
    <3>2. CASE CheckOwner(c, o) /\ heartbeat[o]
      BY <1>1, <3>2 DEF CheckOwner
    <3>3. CASE CheckOwner(c, o) /\ ~heartbeat[o]
      BY <1>1, <3>3 DEF CheckOwner
    <3> QED BY <1>4, <3>1, <3>2, <3>3
  <2> HIDE DEF t
  <2>2. CASE rec'[c] = [rec[c] EXCEPT !.todo = t]
    <3>1. SameHold(c) /\ rec'[c].pc = rec[c].pc /\ rec'[c].todo = t
      BY ONLY <1>1, <2>2, AssignTodo DEF SameHold
    <3> QED BY <2>1, <3>1 DEF t
  <2>3. CASE ~heartbeat[o] /\ rec'[c] = [rec[c] EXCEPT !.todo = t, !.pc = "read", !.owner = o]
    <3>1. /\ rec'[c].pc = "read" /\ rec'[c].owner = o /\ rec'[c].todo = t
          /\ rec'[c].items = rec[c].items
      BY ONLY <1>1, <2>3 DEF RecStates
    <3> QED BY <2>1, <2>3, <3>1 DEF t
  <2> QED BY <2>1, <2>2, <2>3
<1>5. rec' = Recovered(c) => Back(c)
  BY RecoveredFields DEF Back
<1>6. ReadOrphans(c) =>
        \/ Back(c)
        \/ /\ rec'[c].pc = "release" /\ rec'[c].owner = rec[c].owner
           /\ rec'[c].items = LRange(proc[rec[c].owner]) /\ rec'[c].next = 1
           /\ rec'[c].todo = rec[c].todo
  <2> DEFINE l == LRange(proc[rec[c].owner])
  <2> SUFFICES ASSUME ReadOrphans(c), rec' # Recovered(c)
               PROVE  /\ rec'[c].pc = "release" /\ rec'[c].owner = rec[c].owner
                      /\ rec'[c].items = l /\ rec'[c].next = 1 /\ rec'[c].todo = rec[c].todo
    BY <1>5
  <2>1. rec'[c] = [rec[c] EXCEPT !.pc = "release", !.items = l, !.next = 1]
    BY <1>1 DEF ReadOrphans
  <2> HIDE DEF l
  <2> QED BY ONLY <1>1, <2>1 DEF RecStates
<1>7. ReadOrphansFails(c) \/ RequeueOrphans(c) \/ RequeueOrphansFails(c) => Back(c)
  BY <1>5 DEF ReadOrphansFails, RequeueOrphans, RequeueOrphansFails
<1>8. ASSUME ReleaseOrphan(c) \/ ReleaseOrphanFails(c)
      PROVE  /\ rec'[c].todo = rec[c].todo
             /\ \/ Back(c)
                \/ /\ rec'[c].owner = rec[c].owner /\ rec'[c].items = rec[c].items
                   /\ \/ /\ rec'[c].pc = "release" /\ rec'[c].next = rec[c].next + 1
                         /\ ReleaseOrphan(c) /\ rec'[c].ready = rec[c].ready
                      \/ /\ rec'[c].pc = "release" /\ rec'[c].next = rec[c].next + 1
                         /\ ~rec'[c].ready
                      \/ /\ rec'[c].pc = "requeue" /\ ReleaseOrphan(c) /\ rec[c].ready
                         /\ ~(rec[c].next < Len(rec[c].items))
  <2>1. PICK ok \in BOOLEAN : rec' = AfterRelease(c, ok) /\ (ok => ReleaseOrphan(c))
                              /\ rec[c].pc = "release"
    BY <1>8 DEF ReleaseOrphan, ReleaseOrphanFails
  <2> QED BY <1>1, <1>5, <2>1, AfterReleaseFields
<1>9. ScanEnd(c) =>
        SameHold(c) /\ rec'[c].pc \in {"idle", "flush"} /\ rec'[c].todo = rec[c].todo
  <2> SUFFICES ASSUME ScanEnd(c)
               PROVE  SameHold(c) /\ rec'[c].pc \in {"idle", "flush"} /\ rec'[c].todo = rec[c].todo
    OBVIOUS
  <2>1. PICK p \in {"idle", "flush"} : rec'[c] = [rec[c] EXCEPT !.pc = p]
    BY <1>1 DEF ScanEnd
  <2> QED BY ONLY <1>1, <2>1, AssignPc DEF SameHold
<1>10. FlushPendingAcks(c) \/ FlushPendingAcksFails(c) =>
         SameHold(c) /\ rec'[c].pc = "idle" /\ rec'[c].todo = rec[c].todo
  <2> SUFFICES ASSUME FlushPendingAcks(c) \/ FlushPendingAcksFails(c)
               PROVE  SameHold(c) /\ rec'[c].pc = "idle" /\ rec'[c].todo = rec[c].todo
    OBVIOUS
  <2>1. rec'[c] = [rec[c] EXCEPT !.pc = "idle"]
    BY <1>1 DEF FlushPendingAcks, FlushPendingAcksFails, FlushLua
  <2> QED BY ONLY <1>1, <2>1, AssignPc DEF SameHold
<1>11. StopWorkers(c) => rec'[c] = rec[c]
  BY DEF StopWorkers
<1>12. StopMaintenance(c) => Anew(c) /\ rec'[c].pc = "read"
  BY <1>1 DEF StopMaintenance, IdleRec, Anew
<1>13. StopEnd(c) \/ Crash(c) => Anew(c) /\ rec'[c].pc = "idle"
  BY <1>1 DEF StopEnd, Crash, IdleRec, Anew
<1> QED BY <1>2, <1>3, <1>4, <1>6, <1>7, <1>8, <1>9, <1>10, <1>11, <1>12, <1>13

\* What a sweep holds it has just read, has held, or has dropped.
LEMMA SweepItems ==
  ASSUME TypeOK, NEW c \in Consumers, ConsumerStep(c) \/ ConsumerFault(c) \/ Shutdown(c)
  PROVE  rec'[c].items \in {rec[c].items, <<>>, LRange(proc[rec[c].owner])}
<1>1. CASE ConsumerStep(c)
  BY <1>1, SweepFields DEF ConsumerStep, SameHold, Back, Anew
<1>2. CASE ConsumerFault(c)
  BY <1>2, SweepFields DEF ConsumerFault, SameHold, Back, Anew
<1>3. CASE Shutdown(c)
  BY <1>3, SweepFields DEF Shutdown, SameHold, Back, Anew
<1> QED BY <1>1, <1>2, <1>3

\* The steps of start, maintenance and stop keep the deliveries apart.
LEMMA UniqConsumer ==
  ASSUME TypeOK, UniqInv, NEW c \in Consumers, ConsumerStep(c) \/ ConsumerFault(c) \/ Shutdown(c)
  PROVE  UniqInv'
<1>1. enq' = enq
  BY DEF ConsumerStep, ConsumerFault, Shutdown, Start, TouchHeartbeat, ScanProcKeys, CheckOwner,
     ReadOrphans, ReleaseOrphan, RequeueOrphans, ScanEnd, FlushPendingAcks, FlushLua,
     StopMaintenance, StopEnd, CheckOwnerFails, ReadOrphansFails, ReleaseOrphanFails,
     RequeueOrphansFails, FlushPendingAcksFails, StopWorkers, Crash, history
<1>2. DeliveryUnique' /\ Known'
  <2>1. CASE UNCHANGED <<main, proc, dead>>
    BY <1>1, <2>1, UniqKept
  <2>2. CASE RequeueOrphans(c) \/ RequeueOrphansFails(c)
    <3>1. (RequeueLua(c) \/ UNCHANGED <<main, proc>>) /\ dead' = dead
      BY <2>2 DEF RequeueOrphans, RequeueOrphansFails
    <3> QED BY <1>1, <2>1, <3>1, UniqRequeue
  <2>3. CASE FlushPendingAcks(c) \/ FlushPendingAcksFails(c)
    <3>1. PICK failed \in SUBSET pend[c] : FlushLua(c, failed)
      BY <2>3 DEF FlushPendingAcks, FlushPendingAcksFails
    <3>2. PICK p \in Filtered(proc[c], Elems(proc[c]) \ (pend[c] \ failed)) :
            proc' = [proc EXCEPT ![c] = p]
      BY <3>1 DEF FlushLua
    <3>3. proc[c] \in Seq(Raw) /\ Uniq(proc[c])
      BY ListFacts DEF UniqInv, DeliveryUnique, Uniq
    <3>4. Uniq(p) /\ Elems(p) \subseteq Elems(proc[c])
      BY <3>2, <3>3, FilteredList
    <3>5. Ids(p) \subseteq Ids(proc[c])
      BY <3>4, IdsElems DEF IdsOf
    <3>6. UNCHANGED <<main, dead>>
      BY <3>1 DEF FlushLua
    <3> QED BY <1>1, <3>2, <3>4, <3>5, <3>6, UniqLess
  <2>4. \/ Start(c) \/ TouchHeartbeat(c) \/ ScanProcKeys(c) \/ (\E o \in Consumers : CheckOwner(c, o))
        \/ ReadOrphans(c) \/ ReleaseOrphan(c) \/ ScanEnd(c) \/ StopMaintenance(c) \/ StopEnd(c)
        => UNCHANGED <<main, proc, dead>>
    BY DEF Start, TouchHeartbeat, ScanProcKeys, CheckOwner, ReadOrphans, ReleaseOrphan, ScanEnd,
           StopMaintenance, StopEnd, lists
  <2>5. \/ (\E o \in Consumers : CheckOwnerFails(c, o)) \/ ReadOrphansFails(c)
        \/ ReleaseOrphanFails(c) \/ StopWorkers(c) \/ Crash(c)
        => UNCHANGED <<main, proc, dead>>
    BY DEF CheckOwnerFails, ReadOrphansFails, ReleaseOrphanFails, StopWorkers, Crash, lists
  <2> QED BY <2>1, <2>2, <2>3, <2>4, <2>5 DEF ConsumerStep, ConsumerFault, Shutdown
<1>3. ReadOnce'
  <2> SUFFICES ASSUME NEW x \in Consumers PROVE Uniq(rec'[x].items)
    BY DEF ReadOnce, Uniq
  <2>1. CASE x # c
    BY <2>1, OwnSweep DEF UniqInv, ReadOnce
  <2>2. CASE x = c
    <3>1. rec[c].owner \in Consumers /\ proc[rec[c].owner] \in Seq(Raw)
      BY RecTypes
    <3>2. Uniq(proc[rec[c].owner]) /\ Uniq(rec[c].items)
      BY <3>1 DEF UniqInv, DeliveryUnique, ReadOnce, Uniq
    <3>3. Uniq(LRange(proc[rec[c].owner]))
      BY <3>1, <3>2, LRangeList
    <3>4. Uniq(<<>>)
      BY DEF Uniq
    <3> QED BY <2>2, <3>2, <3>3, <3>4, SweepItems
  <2> QED BY <2>1, <2>2
<1> QED BY <1>2, <1>3 DEF UniqInv

\* Enqueueing and expiring keys.
LEMMA UniqEnqueue ==
  ASSUME TypeOK, UniqInv, NEW d \in Deliveries, Enqueue(d)
  PROVE  UniqInv'
<1> DEFINE r == [id |-> d, attempts |-> 0, stamp |-> 0]
<1>1. /\ main' = Append(main, r) /\ enq' = Append(enq, d) /\ d \notin Elems(enq)
      /\ UNCHANGED <<proc, dead, rec>>
  BY DEF Enqueue
<1>2. r \in Raw /\ r.id = d
  BY ConstantsAssumption DEF Raw, ConstantsAssumption
<1>3. main \in Seq(Raw) /\ enq \in Seq(Deliveries)
  BY DEF TypeOK, ListTypes, HistoryTypes
<1>4. d \notin Ids(main) /\ d \notin dead /\ \A c \in Consumers : d \notin Ids(proc[c])
  BY <1>1 DEF UniqInv, Known, Present
<1>5. /\ Uniq(main) /\ \A c \in Consumers : Uniq(proc[c])
      /\ \A c \in Consumers : Ids(proc[c]) \cap (Ids(main) \cup dead) = {}
      /\ \A x, y \in Consumers : x # y => Ids(proc[x]) \cap Ids(proc[y]) = {}
      /\ Ids(main) \cap dead = {}
  BY DEF UniqInv, DeliveryUnique, Uniq
<1>6. Uniq(main') /\ Elems(main') = Elems(main) \cup {r}
  BY <1>1, <1>2, <1>3, <1>4, <1>5, AppendList
<1>7. Ids(main') = Ids(main) \cup {d}
  BY <1>2, <1>6, IdsElems DEF IdsOf
<1>8. Elems(enq') = Elems(enq) \cup {d}
  BY <1>1, <1>3, AppendList
<1>9. DeliveryUnique'
  <2>1. \A c \in Consumers : Ids(proc[c]) \cap (Ids(main') \cup dead) = {}
    BY <1>4, <1>5, <1>7
  <2>2. Ids(main') \cap dead = {}
    BY <1>4, <1>5, <1>7
  <2> QED BY <1>1, <1>5, <1>6, <2>1, <2>2 DEF DeliveryUnique, Uniq
<1>10. Known'
  <2> SUFFICES ASSUME NEW e \in Deliveries, Present(e)' PROVE e \in Elems(enq')
    BY DEF Known
  <2>1. e = d \/ Present(e)
    BY <1>1, <1>7 DEF Present
  <2> QED BY <1>8, <2>1 DEF UniqInv, Known
<1> QED BY <1>1, <1>9, <1>10 DEF UniqInv, ReadOnce, Uniq

LEMMA EnvironmentFrame ==
  /\ \A c \in Consumers : HeartbeatExpire(c) \/ HeartbeatLapse(c)
       => UNCHANGED <<main, proc, dead, pend, procKey, doneKey, status, wk, rec, enq, settled>>
  /\ \A u \in Users : LockExpire(u) \/ LockLapse(u)
       => UNCHANGED <<main, proc, dead, pend, heartbeat, procKey, doneKey, status, wk, rec, enq, settled>>
  /\ \A m \in Msgs : ProcKeyExpire(m) \/ ProcKeyLapse(m) \/ DoneKeyLapse(m)
       => /\ UNCHANGED <<main, proc, dead, pend, heartbeat, status, wk, rec, enq, settled>>
          /\ procKey' \subseteq procKey /\ doneKey' \subseteq doneKey
BY DEF HeartbeatExpire, HeartbeatLapse, LockExpire, LockLapse, ProcKeyExpire, ProcKeyLapse,
       DoneKeyLapse, lists, history

LEMMA UniqStep == TypeOK /\ UniqInv /\ [Next]_vars => UniqInv'
<1> SUFFICES ASSUME TypeOK, UniqInv, [Next]_vars PROVE UniqInv'
  OBVIOUS
<1>1. CASE UNCHANGED <<main, proc, dead, enq, rec>>
  BY <1>1, UniqKept
<1>2. CASE UNCHANGED vars
  BY <1>1, <1>2 DEF vars
<1>3. CASE Next
  BY <1>1, <1>3, UniqEnqueue, UniqWorker, UniqConsumer, EnvironmentFrame DEF Next
<1> QED BY <1>2, <1>3

LEMMA UniqInit == Init => UniqInv
<1> SUFFICES ASSUME Init PROVE UniqInv
  OBVIOUS
<1>1. /\ main = <<>> /\ proc = [c \in Consumers |-> <<>>] /\ dead = {}
      /\ \A c \in Consumers : rec[c].items = <<>>
  BY DEF Init, IdleRec
<1>2. Ids(<<>>) = {} /\ Uniq(<<>>)
  BY DEF Ids, Uniq
<1>3. Ids(main) = {} /\ \A c \in Consumers : proc[c] = <<>> /\ Ids(proc[c]) = {}
  BY <1>1, <1>2
<1> QED BY <1>1, <1>2, <1>3 DEF UniqInv, DeliveryUnique, Known, ReadOnce, Present, Uniq

\* Every LREM/LPUSH pair of claim, retry, dead letter and recovery moves a delivery: it is never
\* in two lists nor twice in one, whatever fails, lapses, stops or crashes.
THEOREM DeliveryUniqueHolds == Spec => []DeliveryUnique
<1>1. UniqInv => DeliveryUnique
  BY DEF UniqInv
<1> QED BY <1>1, UniqInit, UniqStep, TypeCorrectness, PTL DEF Spec

-------------------------------------------------------------------------------
(***************************************************************************)
(* What a step makes of the envelopes in the lists.                        *)
(***************************************************************************)

\* A step of a worker touches the list of its own consumer and the shared lists, ...
LEMMA WorkerElems ==
  ASSUME TypeOK, UniqInv, NEW w \in Workers, WorkerStep(w) \/ WorkerFault(w)
  PROVE  LET c == OwnerOf[w]
             r == wk[w].raw
         IN
         /\ c \in Consumers /\ \A x \in Consumers \ {c} : proc'[x] = proc[x]
         /\ \/ UNCHANGED <<main, proc, dead>>
            \/ /\ Blmove(w) \/ BlmoveReplyLost(w)
               /\ main # <<>> /\ dead' = dead /\ Head(main) \in Elems(main)
               /\ Elems(main) = Elems(main') \cup {Head(main)}
               /\ Elems(proc'[c]) = Elems(proc[c]) \cup {Head(main)}
            \/ /\ MarkProcessingStarted(w) \/ MarkProcessingStartedFails(w)
               /\ UNCHANGED <<main, dead>> /\ FreshStamps(r.id) # {} /\ r \in Elems(proc[c])
               /\ Elems(proc'[c]) = (Elems(proc[c]) \ {r}) \cup {Restamped(r)}
            \/ /\ Ack(w) \/ AckFails(w)
               /\ UNCHANGED <<main, dead>>
               /\ Elems(proc'[c]) = Elems(proc[c]) \ {r}
            \/ /\ MoveTo(w) \/ MoveToFails(w)
               /\ r \in Elems(proc[c]) /\ Elems(proc'[c]) = Elems(proc[c]) \ {r}
               /\ \/ ToDead(w) /\ dead' = dead \cup {r.id} /\ main' = main
                  \/ /\ ~ToDead(w) /\ dead' = dead
                     /\ Elems(main') = Elems(main) \cup {ReturnedRaw(w)}
<1> DEFINE c == OwnerOf[w]
           r == wk[w].raw
<1>1. c \in Consumers /\ proc \in [Consumers -> Seq(Raw)] /\ proc[c] \in Seq(Raw) /\ Uniq(proc[c])
      /\ main \in Seq(Raw)
  BY ListFacts, ConstantsAssumption DEF ConstantsAssumption, UniqInv, DeliveryUnique, Uniq
<1>2. \A p : proc' = [proc EXCEPT ![c] = p]
               => proc'[c] = p /\ \A x \in Consumers \ {c} : proc'[x] = proc[x]
  BY <1>1
<1>3. CASE UNCHANGED <<main, proc, dead>>
  BY <1>1, <1>3
<1>4. CASE Blmove(w) \/ BlmoveReplyLost(w)
  <2>1. /\ main # <<>> /\ main' = Tail(main) /\ dead' = dead
        /\ proc' = [proc EXCEPT ![c] = Append(proc[c], Head(main))]
    BY <1>4 DEF Blmove, BlmoveReplyLost
  <2>2. Head(main) \in Raw /\ Head(main) \in Elems(main)
        /\ Elems(main) = Elems(Tail(main)) \cup {Head(main)}
    BY <1>1, <2>1, TailList, HeadType DEF TypeOK
  <2>3. Elems(Append(proc[c], Head(main))) = Elems(proc[c]) \cup {Head(main)}
    BY <1>1, <2>2, AppendList
  <2> QED BY <1>1, <1>2, <1>4, <2>1, <2>2, <2>3
<1>5. CASE MarkProcessingStarted(w) \/ MarkProcessingStartedFails(w)
  <2> DEFINE p == LSet(proc[c], r, Restamped(r))
  <2>1. /\ proc' = [proc EXCEPT ![c] = p] \/ proc' = proc
        /\ UNCHANGED <<main, dead>> /\ wk[w].pc # "idle" /\ FreshStamps(r.id) # {}
    BY <1>5 DEF MarkProcessingStarted, MarkProcessingStartedFails
  <2>2. Restamped(r) \in Raw /\ Restamped(r).id = r.id
    BY <2>1, HeldType, RestampedType DEF TypeOK
  <2>3. /\ r \in Elems(proc[c]) => Elems(p) = (Elems(proc[c]) \ {r}) \cup {Restamped(r)}
        /\ r \notin Elems(proc[c]) => p = proc[c]
    BY <1>1, <2>2, LSetList
  <2>4. proc = [proc EXCEPT ![c] = proc[c]]
    BY <1>1
  <2> HIDE DEF p
  <2> QED BY <1>1, <1>2, <1>3, <1>5, <2>1, <2>3, <2>4
<1>6. CASE Ack(w) \/ AckFails(w)
  <2>1. (proc' = [proc EXCEPT ![c] = LRem(proc[c], r)] \/ proc' = proc) /\ UNCHANGED <<main, dead>>
    BY <1>6 DEF Ack, AckFails
  <2>2. Elems(LRem(proc[c], r)) = Elems(proc[c]) \ {r}
    BY <1>1, LRemList
  <2> QED BY <1>1, <1>2, <1>3, <1>6, <2>1, <2>2
<1>7. CASE MoveTo(w) \/ MoveToFails(w)
  <2>1. wk[w].pc # "idle" /\ (MoveLua(w) \/ UNCHANGED <<main, proc, dead>>)
    BY <1>7 DEF MoveTo, MoveToFails
  <2>2. CASE MoveLua(w) /\ r \in Elems(proc[c])
    <3>1. /\ proc' = [proc EXCEPT ![c] = LRem(proc[c], r)]
          /\ \/ ToDead(w) /\ dead' = dead \cup {r.id} /\ main' = main
             \/ ~ToDead(w) /\ dead' = dead /\ main' = Append(main, ReturnedRaw(w))
      BY <2>2 DEF MoveLua
    <3>2. Elems(LRem(proc[c], r)) = Elems(proc[c]) \ {r}
      BY <1>1, LRemList
    <3>3. ~ToDead(w) => Elems(Append(main, ReturnedRaw(w))) = Elems(main) \cup {ReturnedRaw(w)}
      BY <1>1, <2>1, ReturnedRawType, AppendList DEF TypeOK
    <3> QED BY <1>1, <1>2, <1>7, <2>2, <3>1, <3>2, <3>3
  <2>3. CASE ~(MoveLua(w) /\ r \in Elems(proc[c]))
    BY <1>3, <2>1, <2>3 DEF MoveLua
  <2> QED BY <2>2, <2>3
<1>8. \/ HandleUnreadable(w) \/ TryLock(w) \/ ProcessStep(w) \/ Unlock(w) \/ LeaveInProc(w)
      \/ TryLockFails(w) \/ AcquireFails(w) \/ MarkDoneFails(w) \/ PostFails(w)
      \/ ReleaseFails(w) \/ UnlockFails(w)
      => UNCHANGED <<main, proc, dead>>
  BY DEF HandleUnreadable, TryLock, ProcessStep, Acquire, Work, Send, MarkDone, Post, Release,
         Unlock, LeaveInProc, TryLockFails, AcquireFails, MarkDoneFails, PostFails,
         ReleaseFails, UnlockFails, lists
<1> QED BY <1>3, <1>4, <1>5, <1>6, <1>7, <1>8 DEF WorkerStep, WorkerFault

\* ... and a step of a sweep the list of the owner it visits, or the own one.
LEMMA SweepElems ==
  ASSUME TypeOK, UniqInv, NEW c \in Consumers,
         ConsumerStep(c) \/ ConsumerFault(c) \/ Shutdown(c)
  PROVE  LET o == rec[c].owner IN
         /\ dead' = dead
         /\ \/ UNCHANGED <<main, proc>>
            \/ /\ RequeueOrphans(c) \/ RequeueOrphansFails(c)
               /\ o \in Consumers /\ \A x \in Consumers \ {o} : proc'[x] = proc[x]
               /\ Elems(main') = Elems(main) \cup (Elems(rec[c].items) \cap Elems(proc[o]))
               /\ Elems(proc'[o]) = Elems(proc[o]) \ Elems(rec[c].items)
            \/ /\ FlushPendingAcks(c) \/ FlushPendingAcksFails(c)
               /\ main' = main /\ \A x \in Consumers \ {c} : proc'[x] = proc[x]
               /\ \E failed \in SUBSET pend[c] :
                    /\ pend' = [pend EXCEPT ![c] = failed]
                    /\ Elems(proc'[c]) = Elems(proc[c]) \ (pend[c] \ failed)
<1> DEFINE o == rec[c].owner
<1>1. CASE UNCHANGED <<main, proc, dead>>
  BY <1>1
<1>2. CASE RequeueOrphans(c) \/ RequeueOrphansFails(c)
  <2>1. (RequeueLua(c) \/ UNCHANGED <<main, proc>>) /\ dead' = dead
    BY <1>2 DEF RequeueOrphans, RequeueOrphansFails
  <2>2. CASE RequeueLua(c)
    <3>1. PICK back \in Seq(Raw), rest \in Seq(Raw) :
            /\ main' = main \o back /\ proc' = [proc EXCEPT ![o] = rest]
            /\ Elems(back) = Elems(rec[c].items) \cap Elems(proc[o])
            /\ Elems(rest) = Elems(proc[o]) \ Elems(rec[c].items)
      BY <2>2, RequeueFacts
    <3>2. o \in Consumers /\ main \in Seq(Raw) /\ proc \in [Consumers -> Seq(Raw)]
      BY ListFacts
    <3>3. Elems(main') = Elems(main) \cup Elems(back)
      BY <3>1, <3>2, ConcatList
    <3>4. proc'[o] = rest /\ \A x \in Consumers \ {o} : proc'[x] = proc[x]
      BY <3>1, <3>2
    <3> QED BY <1>2, <2>1, <3>1, <3>2, <3>3, <3>4
  <2> QED BY <1>1, <2>1, <2>2
<1>3. CASE FlushPendingAcks(c) \/ FlushPendingAcksFails(c)
  <2>1. PICK failed \in SUBSET pend[c] : FlushLua(c, failed)
    BY <1>3 DEF FlushPendingAcks, FlushPendingAcksFails
  <2>2. PICK p \in Filtered(proc[c], Elems(proc[c]) \ (pend[c] \ failed)) :
          proc' = [proc EXCEPT ![c] = p]
    BY <2>1 DEF FlushLua
  <2>3. pend' = [pend EXCEPT ![c] = failed] /\ UNCHANGED <<main, dead>>
    BY <2>1 DEF FlushLua
  <2>4. proc \in [Consumers -> Seq(Raw)] /\ proc[c] \in Seq(Raw)
    BY ListFacts
  <2>5. Elems(p) = Elems(proc[c]) \cap (Elems(proc[c]) \ (pend[c] \ failed))
    BY <2>2, <2>4, FilteredList
  <2>6. Elems(p) = Elems(proc[c]) \ (pend[c] \ failed)
    BY <2>5
  <2>7. proc'[c] = p /\ \A x \in Consumers \ {c} : proc'[x] = proc[x]
    BY <2>2, <2>4
  <2> QED BY <1>3, <2>3, <2>6, <2>7
<1>4. \/ Start(c) \/ TouchHeartbeat(c) \/ ScanProcKeys(c) \/ (\E x \in Consumers : CheckOwner(c, x))
      \/ ReadOrphans(c) \/ ReleaseOrphan(c) \/ ScanEnd(c) \/ StopMaintenance(c) \/ StopEnd(c)
      => UNCHANGED <<main, proc, dead>>
  BY DEF Start, TouchHeartbeat, ScanProcKeys, CheckOwner, ReadOrphans, ReleaseOrphan, ScanEnd,
         StopMaintenance, StopEnd, lists
<1>5. \/ (\E x \in Consumers : CheckOwnerFails(c, x)) \/ ReadOrphansFails(c)
      \/ ReleaseOrphanFails(c) \/ StopWorkers(c) \/ Crash(c)
      => UNCHANGED <<main, proc, dead>>
  BY DEF CheckOwnerFails, ReadOrphansFails, ReleaseOrphanFails, StopWorkers, Crash, lists
<1> QED BY <1>1, <1>2, <1>3, <1>4, <1>5 DEF ConsumerStep, ConsumerFault, Shutdown

-------------------------------------------------------------------------------
(***************************************************************************)
(* The retry budget.                                                       *)
(***************************************************************************)

Envelopes == Elems(main) \cup UNION {Elems(proc[c]) : c \in Consumers}

\* Some envelope of q's delivery is in a list, with no more attempts than q shows.
Descends(q) == \E r \in Envelopes : r.id = q.id /\ r.attempts <= q.attempts

\* The lists hold one envelope of a delivery.
LEMMA OneEnvelope ==
  ASSUME UniqInv, NEW r \in Envelopes, NEW q \in Envelopes, r.id = q.id
  PROVE  r = q
<1>1. /\ Uniq(main) /\ \A c \in Consumers : Uniq(proc[c])
      /\ \A c \in Consumers : Ids(proc[c]) \cap Ids(main) = {}
      /\ \A b, c \in Consumers : b # c => Ids(proc[b]) \cap Ids(proc[c]) = {}
  BY DEF UniqInv, DeliveryUnique, Uniq
<1>2. \A s : \A e \in Elems(s) : e.id \in Ids(s)
  BY IdsElems DEF IdsOf
<1>3. CASE r \in Elems(main) /\ q \in Elems(main)
  BY <1>1, <1>3, UniqElems
<1>4. ASSUME NEW c \in Consumers, r \in Elems(proc[c]), q \in Elems(main) PROVE FALSE
  BY <1>1, <1>2, <1>4
<1>5. ASSUME NEW c \in Consumers, q \in Elems(proc[c]), r \in Elems(main) PROVE FALSE
  BY <1>1, <1>2, <1>5
<1>6. ASSUME NEW b \in Consumers, NEW c \in Consumers, r \in Elems(proc[b]), q \in Elems(proc[c])
      PROVE  r = q
  <2>1. b = c
    BY <1>1, <1>2, <1>6
  <2> QED BY <1>1, <1>6, <2>1, UniqElems
<1> QED BY <1>3, <1>4, <1>5, <1>6 DEF Envelopes

LEMMA EnvelopeFacts ==
  ASSUME TypeOK
  PROVE  /\ \A r \in Envelopes : r \in Raw /\ r.attempts \in Nat /\ r.id \in Deliveries /\ Present(r.id)
         /\ \A r \in Envelopes : Descends(r)
<1>1. Envelopes \subseteq Raw
  BY ListFacts DEF TypeOK, ListTypes, Elems, Envelopes
<1>2. \A r \in Raw : r.attempts \in Nat /\ r.id \in Deliveries
  BY ConstantsAssumption DEF Raw, ConstantsAssumption
<1>3. \A r \in Envelopes : Present(r.id)
  BY IdsElems DEF IdsOf, Envelopes, Present
<1>4. \A n \in Nat : n <= n
  OBVIOUS
<1> QED BY <1>1, <1>2, <1>3, <1>4 DEF Descends

\* An envelope a worker puts in a list is one it took from it, with the attempts
\* it had or one more.
LEMMA DescendsWorker ==
  ASSUME TypeOK, UniqInv, NEW w \in Workers, WorkerStep(w) \/ WorkerFault(w)
  PROVE  \A q \in Envelopes' : Descends(q)
<1> DEFINE c == OwnerOf[w]
           r == wk[w].raw
<1>1. c \in Consumers /\ \A x \in Consumers \ {c} : proc'[x] = proc[x]
  BY WorkerElems
<1>2. r \in Elems(proc[c]) => r \in Envelopes
  BY <1>1 DEF Envelopes
<1>3. FreshStamps(r.id) # {} /\ r \in Envelopes => Descends(Restamped(r))
  <2> SUFFICES ASSUME FreshStamps(r.id) # {}, r \in Envelopes PROVE Descends(Restamped(r))
    OBVIOUS
  <2>1. r \in Raw /\ r.attempts \in Nat
    BY EnvelopeFacts
  <2> HIDE DEF r
  <2>2. Restamped(r).id = r.id /\ Restamped(r).attempts = r.attempts
    BY <2>1 DEF Restamped, Raw
  <2> QED BY <2>1, <2>2 DEF Descends
<1>4. r \in Envelopes => Descends(ReturnedRaw(w))
  <2> SUFFICES ASSUME r \in Envelopes PROVE Descends(ReturnedRaw(w))
    OBVIOUS
  <2>1. r \in Raw /\ r.attempts \in Nat
    BY EnvelopeFacts
  <2> HIDE DEF r
  <2>2. ReturnedRaw(w) = r \/ ReturnedRaw(w) = [r EXCEPT !.attempts = @ + 1]
    BY DEF ReturnedRaw, r
  <2>3. ReturnedRaw(w).id = r.id /\ r.attempts <= ReturnedRaw(w).attempts
    <3>1. CASE ReturnedRaw(w) = r
      BY <2>1, <3>1
    <3>2. CASE ReturnedRaw(w) = [r EXCEPT !.attempts = @ + 1]
      <4>1. ReturnedRaw(w).id = r.id /\ ReturnedRaw(w).attempts = r.attempts + 1
        BY <2>1, <3>2 DEF Raw
      <4> QED BY <2>1, <4>1
    <3> QED BY <2>2, <3>1, <3>2
  <2> QED BY <2>3 DEF Descends
<1>5. \A e \in Envelopes : Descends(e)
  BY EnvelopeFacts
<1> SUFFICES ASSUME NEW q \in Envelopes' PROVE Descends(q)
  OBVIOUS
<1>6. q \in Elems(main') \/ q \in Elems(proc'[c]) \/ q \in Envelopes
  BY <1>1 DEF Envelopes
<1>7. Elems(main) \subseteq Envelopes /\ Elems(proc[c]) \subseteq Envelopes
  BY <1>1 DEF Envelopes
<1> HIDE DEF r, c
<1>8. \/ UNCHANGED <<main, proc>>
      \/ main # <<>> /\ Elems(main') \subseteq Elems(main) /\ Head(main) \in Elems(main)
         /\ Elems(proc'[c]) = Elems(proc[c]) \cup {Head(main)}
      \/ /\ main' = main /\ FreshStamps(r.id) # {} /\ r \in Elems(proc[c])
         /\ Elems(proc'[c]) = (Elems(proc[c]) \ {r}) \cup {Restamped(r)}
      \/ main' = main /\ Elems(proc'[c]) = Elems(proc[c]) \ {r}
      \/ /\ r \in Elems(proc[c]) /\ Elems(proc'[c]) = Elems(proc[c]) \ {r}
         /\ main' = main \/ Elems(main') = Elems(main) \cup {ReturnedRaw(w)}
  BY WorkerElems DEF c, r
<1> QED BY <1>2, <1>3, <1>4, <1>5, <1>6, <1>7, <1>8

LEMMA DescendsSweep ==
  ASSUME TypeOK, UniqInv, NEW c \in Consumers,
         ConsumerStep(c) \/ ConsumerFault(c) \/ Shutdown(c)
  PROVE  \A q \in Envelopes' : Descends(q)
<1> SUFFICES ASSUME NEW q \in Envelopes' PROVE q \in Envelopes
  BY EnvelopeFacts
<1>1. CASE UNCHANGED <<main, proc>>
  BY <1>1 DEF Envelopes
<1>2. CASE RequeueOrphans(c) \/ RequeueOrphansFails(c)
  BY <1>1, SweepElems DEF Envelopes
<1> QED BY <1>1, SweepElems DEF Envelopes

LEMMA AttemptsStep ==
  TypeOK /\ UniqInv /\ [Next]_vars
    => \A d \in Deliveries : \A r \in Listed(d) : \A q \in Listed(d)' : r.attempts <= q.attempts
<1> SUFFICES ASSUME TypeOK, UniqInv, [Next]_vars, NEW d \in Deliveries,
                    NEW r \in Listed(d), NEW q \in Listed(d)'
             PROVE  r.attempts <= q.attempts
  OBVIOUS
<1>1. r \in Envelopes /\ q \in Envelopes' /\ r.id = d /\ q.id = d
  BY DEF Listed, Envelopes
<1>2. d \in Elems(enq)
  BY <1>1, EnvelopeFacts DEF UniqInv, Known
<1>3. Descends(q)
  <2>1. CASE UNCHANGED <<main, proc>>
    BY <1>1, <2>1, EnvelopeFacts DEF Envelopes
  <2>2. ASSUME NEW e \in Deliveries, Enqueue(e) PROVE Descends(q)
    <3> DEFINE n == [id |-> e, attempts |-> 0, stamp |-> 0]
    <3>1. main' = Append(main, n) /\ proc' = proc /\ e \notin Elems(enq)
      BY <2>2 DEF Enqueue
    <3>2. n \in Raw /\ main \in Seq(Raw) /\ n.id = e
      BY ConstantsAssumption DEF Raw, ConstantsAssumption, TypeOK, ListTypes
    <3>3. Elems(main') = Elems(main) \cup {n}
      BY <3>1, <3>2, AppendList
    <3> HIDE DEF n
    <3>4. q \in Envelopes \/ q = n
      BY <1>1, <3>1, <3>3 DEF Envelopes
    <3>5. q # n
      BY <1>1, <1>2, <3>1, <3>2
    <3> QED BY <3>4, <3>5, EnvelopeFacts
  <2>3. CASE Next
    BY <1>1, <2>1, <2>2, <2>3, DescendsWorker, DescendsSweep, EnvironmentFrame DEF Next
  <2> QED BY <2>1, <2>3 DEF vars
<1>4. PICK p \in Envelopes : p.id = q.id /\ p.attempts <= q.attempts
  BY <1>3 DEF Descends
<1> QED BY <1>1, <1>4, OneEnvelope

\* No step puts a delivery back with fewer attempts than it had: claim, retry and recovery move the
\* one envelope of a delivery, so the retry budget of _handle cannot start over.
THEOREM AttemptsNeverResetHolds == Spec => AttemptsNeverReset
<1> DEFINE A == \A d \in Deliveries : \A r \in Listed(d) : \A q \in Listed(d)' :
                  r.attempts <= q.attempts
<1>1. TypeOK /\ UniqInv /\ [Next]_vars => [A]_vars
  BY AttemptsStep
<1>2. Spec => [](TypeOK /\ UniqInv)
  BY UniqInit, UniqStep, TypeCorrectness, PTL DEF Spec
<1> HIDE DEF A
<1>3. Spec => [][A]_vars
  BY <1>1, <1>2, PTL DEF Spec
<1> QED BY <1>3 DEF A, AttemptsNeverReset

-------------------------------------------------------------------------------
(***************************************************************************)
(* The life cycle of the consumers, and whose list a sweep may move.       *)
(***************************************************************************)

\* No live process loses its heartbeat: each refresh comes before the TTL of the last.
HeartbeatHolds == "heartbeat" \notin LapseKinds

Quiet(c) == \A w \in WorkersOf(c) : wk[w].pc = "idle"

Sweeping(c) == rec[c].pc \in {"read", "release", "requeue"}

\* A live process has a heartbeat, ...
Beats == \A c \in Consumers : status[c] \in Running => heartbeat[c]

\* ... one that has not started has no list, ...
NewEmpty == \A c \in Consumers : status[c] = "new" => proc[c] = <<>>

\* ... a scan yields lists of other processes, which have started, ...
Yielded == \A c \in Consumers : \A o \in rec[c].todo : o # c /\ status[o] # "new"

\* ... and visits those that are gone, its own in stop() only, ...
VisitsGone ==
  \A c \in Consumers :
    rec[c].owner # c => status[rec[c].owner] = "gone" /\ ~heartbeat[rec[c].owner]

SweepsOwn == \A c \in Consumers : rec[c].owner = c /\ Sweeping(c) => status[c] = "closing"

\* ... and outside start() and stop() no worker works.
QuietOut == \A c \in Consumers : status[c] \notin {"up", "stopping"} => Quiet(c)

Alive == Beats /\ NewEmpty /\ Yielded /\ VisitsGone /\ SweepsOwn /\ QuietOut

\* The steps of a worker are its own.
LEMMA WorkerFrame ==
  ASSUME TypeOK, NEW w \in Workers, WorkerStep(w) \/ WorkerFault(w)
  PROVE  /\ UNCHANGED <<status, rec, heartbeat, enq>>
         /\ \A v \in Workers \ {w} : wk'[v] = wk[v]
         /\ wk[w].pc # "idle" \/ (wk[w].pc = "idle" /\ status[OwnerOf[w]] = "up")
         /\ faults' = faults => wk'[w] # wk[w]
<1>1. wk \in [Workers -> WorkerStates]
  BY DEF TypeOK, WorkerTypes
<1>2. status' = status /\ rec' = rec
  BY HistoryTypesWorker
<1> USE DEF keys, history
<1>3. CASE WorkerStep(w)
  <2>1. CASE Blmove(w) \/ MarkProcessingStarted(w) \/ HandleUnreadable(w) \/ TryLock(w) \/ Unlock(w)
    BY <1>1, <1>2, <2>1 DEF Blmove, MarkProcessingStarted, HandleUnreadable, TryLock, Unlock,
       WorkerStates
  <2>2. CASE ProcessStep(w)
    BY <1>1, <1>2, <2>2 DEF ProcessStep, Acquire, Work, Send, MarkDone, Post, Release, WorkerStates
  <2>3. CASE Ack(w) \/ MoveTo(w) \/ LeaveInProc(w)
    BY <1>1, <1>2, <2>3 DEF Ack, MoveTo, LeaveInProc, IdleWorker, WorkerStates
  <2> QED BY <1>3, <2>1, <2>2, <2>3 DEF WorkerStep
<1>4. CASE WorkerFault(w)
  <2>0. faults \in Nat
    BY DEF TypeOK, HistoryTypes
  <2>1. CASE BlmoveReplyLost(w) \/ MarkProcessingStartedFails(w) \/ TryLockFails(w)
             \/ AcquireFails(w) \/ MarkDoneFails(w)
    BY <1>1, <1>2, <2>0, <2>1 DEF BlmoveReplyLost, MarkProcessingStartedFails, TryLockFails, AcquireFails,
       MarkDoneFails, Fault
  <2>2. CASE PostFails(w) \/ ReleaseFails(w) \/ UnlockFails(w) \/ AckFails(w) \/ MoveToFails(w)
    BY <1>1, <1>2, <2>0, <2>2 DEF PostFails, ReleaseFails, UnlockFails, AckFails, MoveToFails, Fault
  <2> QED BY <1>4, <2>1, <2>2 DEF WorkerFault
<1> QED BY <1>3, <1>4

\* The steps of a consumer's life.
LEMMA LifeFrame ==
  ASSUME TypeOK, NEW c \in Consumers, ConsumerStep(c) \/ ConsumerFault(c) \/ Shutdown(c)
  PROVE  /\ \A x \in Consumers \ {c} :
              status'[x] = status[x] /\ heartbeat'[x] = heartbeat[x] /\ pend'[x] = pend[x]
         /\ enq' = enq
         /\ \A w \in Workers : OwnerOf[w] # c => wk'[w] = wk[w]
         /\ ~Shutdown(c) => wk' = wk
<1>1. status \in [Consumers -> Running \cup {"new", "gone"}] /\ heartbeat \in [Consumers -> BOOLEAN]
      /\ pend \in [Consumers -> SUBSET Raw]
  BY DEF TypeOK, ConsumerTypes, KeyTypes, ListTypes
<1> USE DEF lists, keys, history
<1>2. CASE Shutdown(c)
  BY <1>1, <1>2, ShutdownWorkers DEF Shutdown, StopWorkers, Crash
<1>3. CASE Start(c) \/ TouchHeartbeat(c) \/ ScanProcKeys(c) \/ ReadOrphans(c) \/ ReleaseOrphan(c)
           \/ RequeueOrphans(c) \/ ScanEnd(c)
  BY <1>1, <1>3 DEF Start, TouchHeartbeat, ScanProcKeys, ReadOrphans, ReleaseOrphan, RequeueOrphans,
     ScanEnd
<1>4. CASE FlushPendingAcks(c) \/ FlushPendingAcksFails(c)
  BY <1>1, <1>4 DEF FlushPendingAcks, FlushPendingAcksFails, FlushLua
<1>5. CASE StopMaintenance(c) \/ StopEnd(c)
  BY <1>1, <1>5 DEF StopMaintenance, StopEnd
<1>6. CASE ReadOrphansFails(c) \/ ReleaseOrphanFails(c) \/ RequeueOrphansFails(c)
  BY <1>1, <1>6 DEF ReadOrphansFails, ReleaseOrphanFails, RequeueOrphansFails
<1>7. ASSUME NEW o \in Consumers, CheckOwner(c, o) \/ CheckOwnerFails(c, o)
      PROVE  UNCHANGED <<status, heartbeat, pend, enq, wk>>
  BY <1>7 DEF CheckOwner, CheckOwnerFails
<1>8. CASE UNCHANGED <<status, heartbeat, pend, enq, wk>>
  BY <1>8
<1> QED BY <1>2, <1>3, <1>4, <1>5, <1>6, <1>7, <1>8 DEF ConsumerStep, ConsumerFault

LEMMA LifeSteps ==
  ASSUME TypeOK, NEW c \in Consumers
  PROVE  /\ Start(c) => status[c] = "new" /\ status'[c] = "starting" /\ heartbeat'[c] /\ pend' = pend
         /\ TouchHeartbeat(c) => status[c] = "up" /\ status' = status /\ heartbeat'[c] /\ pend' = pend
         /\ ScanEnd(c) => /\ UNCHANGED <<heartbeat, pend>>
                          /\ \/ status[c] = "starting" /\ status'[c] = "up"
                             \/ status' = status /\ status[c] \in {"up", "stopping"}
         /\ StopMaintenance(c) => /\ status[c] = "stopping" /\ status'[c] = "closing" /\ Quiet(c)
                                  /\ UNCHANGED <<heartbeat, pend, wk>>
         /\ StopEnd(c) => /\ status[c] = "closing" /\ status'[c] = "gone" /\ pend'[c] = {}
                          /\ ~heartbeat'[c] /\ wk' = wk
         /\ StopWorkers(c) => /\ status[c] = "up" /\ status'[c] = "stopping"
                              /\ UNCHANGED <<heartbeat, pend>>
         /\ Crash(c) => /\ status[c] \in Running /\ status'[c] = "gone" /\ heartbeat' = heartbeat
                        /\ pend'[c] = {} /\ Quiet(c)'
         /\ ScanProcKeys(c) \/ (\E o \in Consumers : CheckOwner(c, o) \/ CheckOwnerFails(c, o))
            \/ ReadOrphans(c) \/ ReadOrphansFails(c) \/ ReleaseOrphan(c) \/ ReleaseOrphanFails(c)
            \/ RequeueOrphans(c) \/ RequeueOrphansFails(c)
              => UNCHANGED <<status, heartbeat, pend>>
         /\ FlushPendingAcks(c) \/ FlushPendingAcksFails(c) => UNCHANGED <<status, heartbeat>>
<1>1. status \in [Consumers -> Running \cup {"new", "gone"}] /\ heartbeat \in [Consumers -> BOOLEAN]
      /\ pend \in [Consumers -> SUBSET Raw]
  BY DEF TypeOK, ConsumerTypes, KeyTypes, ListTypes
<1> USE DEF lists, keys, history
<1>2. /\ Start(c) => status[c] = "new" /\ status'[c] = "starting" /\ heartbeat'[c] /\ pend' = pend
      /\ TouchHeartbeat(c) => status[c] = "up" /\ status' = status /\ heartbeat'[c] /\ pend' = pend
  BY <1>1 DEF Start, TouchHeartbeat
<1>3. ScanEnd(c) => /\ UNCHANGED <<heartbeat, pend>>
                    /\ \/ status[c] = "starting" /\ status'[c] = "up"
                       \/ status' = status /\ status[c] \in {"up", "stopping"}
  BY <1>1 DEF ScanEnd
<1>4. StopMaintenance(c) => /\ status[c] = "stopping" /\ status'[c] = "closing" /\ Quiet(c)
                            /\ UNCHANGED <<heartbeat, pend, wk>>
  BY <1>1 DEF StopMaintenance, Quiet
<1>5. StopEnd(c) => /\ status[c] = "closing" /\ status'[c] = "gone" /\ pend'[c] = {}
                    /\ ~heartbeat'[c] /\ wk' = wk
  BY <1>1 DEF StopEnd
<1>6. StopWorkers(c) => /\ status[c] = "up" /\ status'[c] = "stopping"
                        /\ UNCHANGED <<heartbeat, pend>>
  BY <1>1 DEF StopWorkers
<1>7. Crash(c) => /\ status[c] \in Running /\ status'[c] = "gone" /\ heartbeat' = heartbeat
                  /\ pend'[c] = {} /\ Quiet(c)'
  BY <1>1 DEF Crash, Quiet, WorkersOf, IdleWorker
<1>8. ScanProcKeys(c) \/ (\E o \in Consumers : CheckOwner(c, o) \/ CheckOwnerFails(c, o))
      \/ ReadOrphans(c) \/ ReadOrphansFails(c) \/ ReleaseOrphan(c) \/ ReleaseOrphanFails(c)
      \/ RequeueOrphans(c) \/ RequeueOrphansFails(c)
        => UNCHANGED <<status, heartbeat, pend>>
  BY DEF ScanProcKeys, CheckOwner, CheckOwnerFails, ReadOrphans, ReadOrphansFails, ReleaseOrphan,
         ReleaseOrphanFails, RequeueOrphans, RequeueOrphansFails
<1>9. FlushPendingAcks(c) \/ FlushPendingAcksFails(c) => UNCHANGED <<status, heartbeat>>
  BY DEF FlushPendingAcks, FlushPendingAcksFails, FlushLua
<1> QED BY <1>2, <1>3, <1>4, <1>5, <1>6, <1>7, <1>8, <1>9

\* Nobody becomes new, and nobody comes back.
LEMMA LifeMoves ==
  ASSUME TypeOK, Alive, NEW c \in Consumers, ConsumerStep(c) \/ ConsumerFault(c) \/ Shutdown(c)
  PROVE  /\ status'[c] \in Running => heartbeat'[c]
         /\ \A x \in Consumers : status'[x] = "new" => status[x] = "new"
         /\ \A x \in Consumers : status[x] = "gone" =>
              status'[x] = "gone" /\ (~heartbeat[x] => ~heartbeat'[x])
         /\ status'[c] \notin {"up", "stopping"} => Quiet(c)'
<1>1. Beats /\ QuietOut
  BY DEF Alive
<1>2. \A x \in Consumers \ {c} : status'[x] = status[x] /\ heartbeat'[x] = heartbeat[x]
  BY LifeFrame
<1>3. wk' = wk => Quiet(c)' = Quiet(c)
  BY DEF Quiet, WorkersOf
<1>4. status[c] \in Running => heartbeat[c]
  BY <1>1 DEF Beats
<1>5. status[c] \notin {"up", "stopping"} => Quiet(c)
  BY <1>1 DEF QuietOut
<1>6. Running = {"starting", "up", "stopping", "closing"}
  BY DEF Running
<1>7. CASE UNCHANGED <<status, heartbeat>> /\ ~Shutdown(c)
  BY <1>3, <1>4, <1>5, <1>7, LifeFrame
<1>8. CASE Shutdown(c)
  BY <1>2, <1>4, <1>6, <1>8, LifeSteps DEF Shutdown
<1>9. CASE ~Shutdown(c) /\ (Start(c) \/ TouchHeartbeat(c) \/ ScanEnd(c) \/ StopMaintenance(c) \/ StopEnd(c))
  <2>1. wk' = wk
    BY <1>9, LifeFrame
  <2> QED BY <1>2, <1>3, <1>4, <1>5, <1>6, <1>9, <2>1, LifeSteps
<1> QED BY <1>7, <1>8, <1>9, LifeSteps DEF ConsumerStep, ConsumerFault

\* Where the sweep of a consumer goes.
LEMMA SweepMoves ==
  ASSUME TypeOK, Alive, NEW c \in Consumers, ConsumerStep(c) \/ ConsumerFault(c) \/ Shutdown(c)
  PROVE  /\ rec'[c].todo \subseteq rec[c].todo \cup {o \in Consumers \ {c} : proc[o] # <<>>}
         /\ \/ rec'[c].owner \in {c, rec[c].owner}
            \/ rec'[c].owner \in rec[c].todo /\ ~heartbeat[rec'[c].owner]
         /\ rec'[c].owner = c /\ Sweeping(c)' => status'[c] = "closing"
<1>1. CASE Start(c) \/ TouchHeartbeat(c) \/ ScanProcKeys(c) \/ ScanEnd(c) \/ FlushPendingAcks(c)
           \/ FlushPendingAcksFails(c)
  BY <1>1, SweepFields DEF SameHold, Sweeping
<1>2. ASSUME NEW o \in Consumers, CheckOwner(c, o) \/ CheckOwnerFails(c, o)
      PROVE  /\ rec'[c].todo \subseteq rec[c].todo
             /\ \/ rec'[c].owner = rec[c].owner
                \/ rec'[c].owner \in rec[c].todo /\ ~heartbeat[rec'[c].owner]
             /\ rec'[c].owner # c \/ ~Sweeping(c)'
  <2>1. /\ rec'[c].todo = rec[c].todo \ {o} /\ o \in rec[c].todo
        /\ \/ SameHold(c) /\ rec'[c].pc = rec[c].pc
           \/ /\ ~heartbeat[o] /\ rec'[c].pc = "read" /\ rec'[c].owner = o
              /\ rec'[c].items = rec[c].items
    BY <1>2, SweepFields
  <2>2. rec[c].pc = "visit" /\ o # c
    BY <1>2, <2>1 DEF CheckOwner, CheckOwnerFails, Alive, Yielded
  <2> QED BY <2>1, <2>2 DEF SameHold, Sweeping
<1>3. CASE \/ ReadOrphans(c) \/ ReadOrphansFails(c) \/ ReleaseOrphan(c) \/ ReleaseOrphanFails(c)
           \/ RequeueOrphans(c) \/ RequeueOrphansFails(c)
  <2>1. /\ rec'[c].todo = rec[c].todo
        /\ Back(c) \/ rec'[c].owner = rec[c].owner
    BY <1>3, SweepFields DEF Back
  <2>2. Sweeping(c)
    BY <1>3 DEF Sweeping, ReadOrphans, ReadOrphansFails, ReleaseOrphan, ReleaseOrphanFails,
       RequeueOrphans, RequeueOrphansFails
  <2>3. status' = status
    BY <1>3, LifeSteps
  <2>4. rec[c].owner = c => status[c] = "closing"
    BY <2>2 DEF Alive, SweepsOwn
  <2> QED BY <2>1, <2>3, <2>4 DEF Back, Sweeping
<1>4. CASE StopWorkers(c)
  BY <1>4, SweepFields, LifeSteps DEF Alive, SweepsOwn, Sweeping
<1>5. CASE StopMaintenance(c) \/ StopEnd(c) \/ Crash(c)
  BY <1>5, SweepFields, LifeSteps DEF Anew, Sweeping
<1> QED BY <1>1, <1>2, <1>3, <1>4, <1>5 DEF ConsumerStep, ConsumerFault, Shutdown

LEMMA AliveWorker ==
  ASSUME TypeOK, UniqInv, Alive, NEW w \in Workers, WorkerStep(w) \/ WorkerFault(w)
  PROVE  Alive'
<1> DEFINE c == OwnerOf[w]
<1>1. UNCHANGED <<status, rec, heartbeat>> /\ \A v \in Workers \ {w} : wk'[v] = wk[v]
  BY WorkerFrame
<1>2. c \in Consumers /\ \A x \in Consumers \ {c} : proc'[x] = proc[x]
  BY WorkerElems
<1>3. status[c] \in {"up", "stopping"}
  BY <1>2, WorkerFrame DEF Alive, QuietOut, Quiet, WorkersOf
<1>4. NewEmpty'
  BY <1>1, <1>2, <1>3 DEF Alive, NewEmpty
<1>5. QuietOut'
  <2> SUFFICES ASSUME NEW x \in Consumers, status'[x] \notin {"up", "stopping"},
                      NEW v \in Workers, OwnerOf[v] = x
               PROVE  wk'[v].pc = "idle"
    BY DEF QuietOut, Quiet, WorkersOf
  <2>1. v # w /\ wk[v].pc = "idle"
    BY <1>1, <1>3 DEF Alive, QuietOut, Quiet, WorkersOf
  <2> QED BY <1>1, <2>1
<1>6. Beats' /\ Yielded' /\ VisitsGone' /\ SweepsOwn'
  BY <1>1 DEF Alive, Beats, Yielded, VisitsGone, SweepsOwn, Sweeping
<1> QED BY <1>4, <1>5, <1>6 DEF Alive

LEMMA AliveConsumer ==
  ASSUME TypeOK, UniqInv, Alive, NEW c \in Consumers,
         ConsumerStep(c) \/ ConsumerFault(c) \/ Shutdown(c)
  PROVE  Alive'
<1>1. \A x \in Consumers \ {c} : status'[x] = status[x] /\ heartbeat'[x] = heartbeat[x] /\ rec'[x] = rec[x]
  BY LifeFrame, OwnSweep
<1>2. Beats'
  BY <1>1, LifeMoves DEF Alive, Beats
<1>3. QuietOut'
  <2> SUFFICES ASSUME NEW x \in Consumers, x # c, status'[x] \notin {"up", "stopping"},
                      NEW v \in Workers, OwnerOf[v] = x
               PROVE  wk'[v].pc = "idle"
    BY LifeMoves DEF QuietOut, Quiet, WorkersOf
  <2>1. wk'[v] = wk[v]
    BY LifeFrame
  <2> QED BY <1>1, <2>1 DEF Alive, QuietOut, Quiet, WorkersOf
<1>4. NewEmpty'
  <2> SUFFICES ASSUME NEW x \in Consumers, status'[x] = "new" PROVE proc'[x] = <<>>
    BY DEF NewEmpty
  <2>1. status[x] = "new" /\ proc[x] = <<>>
    BY LifeMoves DEF Alive, NewEmpty
  <2>2. CASE UNCHANGED <<main, proc>>
    BY <2>1, <2>2
  <2>3. CASE RequeueOrphans(c) \/ RequeueOrphansFails(c)
    <3>1. Sweeping(c)
      BY <2>3 DEF Sweeping, RequeueOrphans, RequeueOrphansFails
    <3>2. x # rec[c].owner
      BY <2>1, <3>1 DEF Alive, VisitsGone, SweepsOwn
    <3>3. UNCHANGED <<main, proc>> \/ (\A y \in Consumers \ {rec[c].owner} : proc'[y] = proc[y])
          \/ proc'[x] = proc[x] \/ FlushPendingAcks(c) \/ FlushPendingAcksFails(c)
      BY SweepElems
    <3>4. ~(FlushPendingAcks(c) \/ FlushPendingAcksFails(c))
      BY <2>3 DEF RequeueOrphans, RequeueOrphansFails, FlushPendingAcks, FlushPendingAcksFails
    <3> QED BY <2>1, <3>2, <3>3, <3>4
  <2>4. CASE FlushPendingAcks(c) \/ FlushPendingAcksFails(c)
    <3>1. Elems(proc'[x]) \subseteq Elems(proc[x])
      <4>1. ~(RequeueOrphans(c) \/ RequeueOrphansFails(c))
        BY <2>4 DEF RequeueOrphans, RequeueOrphansFails, FlushPendingAcks, FlushPendingAcksFails
      <4> QED BY <4>1, SweepElems
    <3>2. Elems(proc[x]) = {}
      BY <2>1 DEF Elems
    <3>3. proc'[x] \in Seq(Raw)
      <4>1. Next
        BY DEF Next
      <4>2. TypeOK'
        BY <4>1, TypeStep
      <4> QED BY <4>2 DEF TypeOK, ListTypes
    <3> QED BY <2>1, <3>1, <3>2, <3>3, NoElems
  <2> QED BY <2>2, <2>3, <2>4, SweepElems
<1>5. Yielded'
  <2> SUFFICES ASSUME NEW x \in Consumers, NEW o \in rec'[x].todo
               PROVE  o # x /\ status'[o] # "new"
    BY DEF Yielded
  <2>1. o # x /\ o \in Consumers /\ status[o] # "new"
    <3>1. CASE x # c
      BY <1>1, <3>1, RecTypes DEF Alive, Yielded
    <3>2. CASE x = c
      <4>1. o \in rec[c].todo \/ (o \in Consumers \ {c} /\ proc[o] # <<>>)
        BY <3>2, SweepMoves
      <4>2. rec[c].todo \subseteq Consumers
        BY RecTypes
      <4> QED BY <3>2, <4>1, <4>2 DEF Alive, Yielded, NewEmpty
    <3> QED BY <3>1, <3>2
  <2> QED BY <2>1, LifeMoves
<1>6. VisitsGone'
  <2> SUFFICES ASSUME NEW x \in Consumers, rec'[x].owner # x
               PROVE  status'[rec'[x].owner] = "gone" /\ ~heartbeat'[rec'[x].owner]
    BY DEF VisitsGone
  <2>1. rec'[x].owner \in Consumers /\ status[rec'[x].owner] = "gone" /\ ~heartbeat[rec'[x].owner]
    <3>1. CASE x # c
      BY <1>1, <3>1, RecTypes DEF Alive, VisitsGone
    <3>2. CASE x = c /\ rec'[c].owner = rec[c].owner
      BY <3>2, RecTypes DEF Alive, VisitsGone
    <3>3. CASE x = c /\ rec'[c].owner \in rec[c].todo /\ ~heartbeat[rec'[c].owner]
      <4>1. rec'[c].owner \in Consumers /\ status[rec'[c].owner] # "new"
        BY <3>3, RecTypes DEF Alive, Yielded
      <4>2. status[rec'[c].owner] \notin Running
        BY <3>3, <4>1 DEF Alive, Beats
      <4>3. status[rec'[c].owner] \in Running \cup {"new", "gone"}
        BY <4>1 DEF TypeOK, ConsumerTypes
      <4> QED BY <3>3, <4>1, <4>2, <4>3
    <3> QED BY <3>1, <3>2, <3>3, SweepMoves
  <2> QED BY <2>1, LifeMoves
<1>7. SweepsOwn'
  <2> SUFFICES ASSUME NEW x \in Consumers, rec'[x].owner = x, Sweeping(x)' PROVE status'[x] = "closing"
    BY DEF SweepsOwn
  <2>1. CASE x # c
    BY <1>1, <2>1 DEF Alive, SweepsOwn, Sweeping
  <2>2. CASE x = c
    BY <2>2, SweepMoves
  <2> QED BY <2>1, <2>2
<1> QED BY <1>2, <1>3, <1>4, <1>5, <1>6, <1>7 DEF Alive

LEMMA AliveStep ==
  ASSUME HeartbeatHolds
  PROVE  TypeOK /\ UniqInv /\ Alive /\ [Next]_vars => Alive'
<1> SUFFICES ASSUME TypeOK, UniqInv, Alive, [Next]_vars PROVE Alive'
  OBVIOUS
<1>1. CASE UNCHANGED <<status, rec, heartbeat, proc, wk>>
  BY <1>1 DEF Alive, Beats, NewEmpty, Yielded, VisitsGone, SweepsOwn, QuietOut, Quiet, WorkersOf, Sweeping
<1>2. ASSUME NEW c \in Consumers, HeartbeatExpire(c) \/ HeartbeatLapse(c) PROVE Alive'
  <2>1. heartbeat \in [Consumers -> BOOLEAN]
    BY DEF TypeOK, KeyTypes
  <2>2. status[c] = "gone" /\ heartbeat' = [heartbeat EXCEPT ![c] = FALSE]
    BY <1>2 DEF HeartbeatExpire, HeartbeatLapse, Lapse, HeartbeatHolds
  <2>3. UNCHANGED <<proc, status, rec, wk>>
    BY <1>2, EnvironmentFrame
  <2>4. \A x \in Consumers : heartbeat'[x] = IF x = c THEN FALSE ELSE heartbeat[x]
    BY <2>1, <2>2
  <2>5. Beats'
    BY <2>2, <2>3, <2>4 DEF Alive, Beats, Running
  <2>6. VisitsGone'
    <3>1. \A x \in Consumers : rec[x].owner \in Consumers
      BY RecTypes
    <3> QED BY <2>3, <2>4, <3>1 DEF Alive, VisitsGone
  <2>7. NewEmpty' /\ Yielded' /\ SweepsOwn' /\ QuietOut'
    BY <2>3 DEF Alive, NewEmpty, Yielded, SweepsOwn, QuietOut, Quiet, WorkersOf, Sweeping
  <2> QED BY <2>5, <2>6, <2>7 DEF Alive
<1>3. \A d \in Deliveries : Enqueue(d) => UNCHANGED <<status, rec, heartbeat, proc, wk>>
  BY DEF Enqueue, keys
<1>4. CASE Next
  BY <1>1, <1>2, <1>3, <1>4, AliveWorker, AliveConsumer, EnvironmentFrame DEF Next
<1> QED BY <1>1, <1>4 DEF vars

LEMMA AliveInit == Init => Alive
<1> SUFFICES ASSUME Init PROVE Alive
  OBVIOUS
<1>1. \A c \in Consumers :
        /\ status[c] = "new" /\ proc[c] = <<>>
        /\ rec[c].owner = c /\ rec[c].pc = "idle" /\ rec[c].todo = {}
  BY DEF Init, IdleRec
<1>2. \A w \in Workers : wk[w].pc = "idle"
  BY DEF Init, IdleWorker
<1> QED BY <1>1, <1>2 DEF Alive, Beats, NewEmpty, Yielded, VisitsGone, SweepsOwn, QuietOut, Quiet,
           WorkersOf, Sweeping, Running

\* As long as no live process loses its heartbeat, Alive holds.
LEMMA AliveInvariant ==
  ASSUME HeartbeatHolds
  PROVE  Spec => [](TypeOK /\ UniqInv /\ Alive)
<1>1. TypeOK /\ UniqInv /\ Alive /\ [Next]_vars => Alive'
  BY AliveStep
<1> QED BY <1>1, AliveInit, UniqInit, UniqStep, TypeCorrectness, PTL DEF Spec

LEMMA ProtectedStep ==
  TypeOK /\ UniqInv /\ Alive /\ [Next]_vars
    => \A c \in Consumers :
         heartbeat[c] /\ proc'[c] # proc[c] /\ faults' = faults => ActsIn(c)
<1> SUFFICES ASSUME TypeOK, UniqInv, Alive, [Next]_vars, NEW c \in Consumers,
                    heartbeat[c], proc'[c] # proc[c], faults' = faults
             PROVE  ActsIn(c)
  OBVIOUS
<1>1. ASSUME NEW w \in Workers, WorkerStep(w) \/ WorkerFault(w) PROVE ActsIn(c)
  <2>1. OwnerOf[w] = c
    BY <1>1, WorkerElems
  <2>2. wk'[w] # wk[w]
    BY <1>1, WorkerFrame
  <2> QED BY <2>1, <2>2 DEF ActsIn, WorkersOf
<1>2. ASSUME NEW x \in Consumers, ConsumerStep(x) \/ ConsumerFault(x) \/ Shutdown(x)
      PROVE  ActsIn(c)
  <2>1. CASE RequeueOrphans(x) \/ RequeueOrphansFails(x)
    <3>1. rec[x].pc = "requeue" /\ rec'[x].pc = "visit"
      BY <2>1, SweepFields DEF RequeueOrphans, RequeueOrphansFails, Back
    <3>2. ~(FlushPendingAcks(x) \/ FlushPendingAcksFails(x))
      BY <3>1 DEF FlushPendingAcks, FlushPendingAcksFails
    <3>3. c = rec[x].owner
      BY <1>2, <3>2, SweepElems
    <3>4. x = c
      BY <3>3 DEF Alive, VisitsGone
    <3> QED BY <3>1, <3>4 DEF ActsIn
  <2>2. CASE FlushPendingAcks(x) \/ FlushPendingAcksFails(x)
    <3>1. rec[x].pc = "flush" /\ rec'[x].pc = "idle"
      BY <2>2, SweepFields DEF FlushPendingAcks, FlushPendingAcksFails
    <3>2. ~(RequeueOrphans(x) \/ RequeueOrphansFails(x))
      BY <3>1 DEF RequeueOrphans, RequeueOrphansFails
    <3>3. x = c
      BY <1>2, <3>2, SweepElems
    <3> QED BY <3>1, <3>3 DEF ActsIn
  <2> QED BY <1>2, <2>1, <2>2, SweepElems
<1>3. \A d \in Deliveries : Enqueue(d) => proc' = proc
  BY DEF Enqueue
<1>4. CASE Next
  BY <1>1, <1>2, <1>3, <1>4, EnvironmentFrame DEF Next
<1> QED BY <1>4 DEF vars

\* While a process has its heartbeat no other one moves what it is working on: its list changes in
\* its own steps only, as long as the heartbeat of a live process does not run out.
THEOREM HeartbeatProtectsProcHolds ==
  ASSUME HeartbeatHolds
  PROVE  Spec => HeartbeatProtectsProc
<1> DEFINE A == \A c \in Consumers :
                  heartbeat[c] /\ proc'[c] # proc[c] /\ faults' = faults => ActsIn(c)
<1>1. TypeOK /\ UniqInv /\ Alive /\ [Next]_vars => [A]_vars
  BY ProtectedStep
<1>2. Spec => [](TypeOK /\ UniqInv /\ Alive)
  BY AliveInvariant
<1> HIDE DEF A
<1>3. Spec => [][A]_vars
  BY <1>1, <1>2, PTL DEF Spec
<1> QED BY <1>3 DEF A, HeartbeatProtectsProc

-------------------------------------------------------------------------------
(***************************************************************************)
(* No delivery is lost.                                                    *)
(***************************************************************************)

\* release_processing of a turn does not fail: process() ignores its result.
ReleaseHolds == "release" \notin FaultOps

Busy(w) == wk[w].pc # "idle"
Hand(w) == wk[w].raw.id
Held(d) == \E w \in Workers : Busy(w) /\ Hand(w) = d

\* What a worker works on is in the list of its consumer, ...
Handed == \A w \in Workers : Busy(w) => Hand(w) \in Ids(proc[OwnerOf[w]])

\* ... and no other worker works on it.
OneHand == \A v, w \in Workers : Busy(v) /\ Busy(w) /\ Hand(v) = Hand(w) => v = w

\* process() runs on readable deliveries, ...
ReadableIn == \A w \in Workers : wk[w].pc \in Section \/ wk[w].out = "cancel" => Hand(w) \notin Unreadable

\* ... and is cancelled by stop() only.
CancelStops ==
  \A w \in Workers : wk[w].out = "cancel" =>
    wk[w].pc \in {"release", "unlock", "book"} /\ status[OwnerOf[w]] = "stopping"

\* The maintenance task ends before the sweep of stop().
FlushUp == \A c \in Consumers : rec[c].pc = "flush" => status[c] \in {"up", "stopping"}

\* The acks a consumer still owes are for deliveries that are nowhere else and
\* that nobody works on.
PendEmpty == \A c \in Consumers : status[c] \notin {"up", "stopping", "closing"} => pend[c] = {}

Owed(c, d) == d \in IdsOf(pend[c])

PendApart ==
  \A c \in Consumers : status[c] \in {"up", "stopping"} => \A d \in IdsOf(pend[c]) :
    /\ d \in Elems(enq) /\ d \notin Ids(main) /\ d \notin dead /\ ~Held(d)
    /\ \A x \in Consumers \ {c} : d \notin Ids(proc[x])

HoldInv == Handed /\ OneHand /\ ReadableIn /\ CancelStops /\ FlushUp /\ PendEmpty /\ PendApart

\* What says that process() has decided.
DoneSettled ==
  /\ doneKey \subseteq settled
  /\ \A w \in Workers : wk[w].pc \in {"mark", "post"} => Msg(w) \in settled
  /\ \A w \in Workers : wk[w].pc = "release" /\ wk[w].out = "ok" => Msg(w) \in settled

\* A worker holds d inside process(), or was cancelled there: it or the sweep of
\* its consumer takes the processing key away.
InHand(d) ==
  \E w \in Workers :
    /\ Busy(w) /\ Hand(w) = d
    /\ \/ wk[w].pc \in {"work", "send", "release"}
       \/ wk[w].pc \in {"unlock", "book"} /\ wk[w].out = "cancel"

\* The sweep x has taken the processing key of d away and may move d.
Released(x, d) ==
  \E i \in DOMAIN rec[x].items :
    /\ rec[x].items[i].id = d
    /\ \/ rec[x].pc = "requeue"
       \/ rec[x].pc = "release" /\ i < rec[x].next /\ rec[x].ready

\* d waits for the sweep of its consumer or of another one.
Stranded(d, c) ==
  /\ d \in Ids(proc[c]) \ Unreadable
  /\ status[c] \in {"stopping", "closing", "gone"}
  /\ ~Held(d) /\ ~Owed(c, d)
  /\ \A x \in Consumers : rec[x].owner = c => ~Released(x, d)

\* A processing key of an undecided message belongs to such a delivery, ...
Guarded ==
  \A m \in procKey \ settled :
    \E d \in Deliveries : MsgOf[d] = m /\ (InHand(d) \/ \E c \in Consumers : Stranded(d, c))

\* The next step or flush may acknowledge d.
Doomed(d) ==
  \/ \E w \in Workers :
       wk[w].pc \in {"unlock", "book"} /\ wk[w].out = "ok" /\ Hand(w) = d
  \/ \E c \in Consumers : Owed(c, d) /\ d \in Ids(proc[c])

Safe(d) == Present(d) /\ ~Doomed(d)

\* ... so that an undecided message keeps a delivery nobody is about to acknowledge.
Kept ==
  \A d \in Elems(enq) :
    \/ MsgOf[d] \in settled
    \/ \E e \in Deliveries : MsgOf[e] = MsgOf[d] /\ Safe(e)

LossInv == HoldInv /\ DoneSettled /\ Guarded /\ Kept

-------------------------------------------------------------------------------
(***************************************************************************)
(* What the steps do to the ids in the lists.                              *)
(***************************************************************************)

\* A listed delivery was enqueued and is in no other list.
LEMMA OnlyThere ==
  ASSUME TypeOK, UniqInv, NEW c \in Consumers, NEW d \in Ids(proc[c])
  PROVE  /\ d \in Deliveries /\ d \in Elems(enq) /\ Present(d)
         /\ d \notin Ids(main) /\ d \notin dead
         /\ \A x \in Consumers \ {c} : d \notin Ids(proc[x])
<1>1. d \in Deliveries
  BY ListFacts
<1>2. Present(d)
  BY DEF Present
<1>3. Ids(proc[c]) \cap (Ids(main) \cup dead) = {}
      /\ \A x \in Consumers \ {c} : Ids(proc[c]) \cap Ids(proc[x]) = {}
  BY DEF UniqInv, DeliveryUnique
<1> QED BY <1>1, <1>2, <1>3 DEF UniqInv, Known

\* What LREM of one text takes from the ids.
LEMMA LessOne ==
  ASSUME TypeOK, UniqInv, NEW c \in Consumers, NEW r, NEW E, E = Elems(proc[c]) \ {r}
  PROVE  \/ r \in Elems(proc[c]) /\ IdsOf(E) = Ids(proc[c]) \ {r.id}
         \/ r \notin Elems(proc[c]) /\ IdsOf(E) = Ids(proc[c])
<1>1. Ids(proc[c]) = IdsOf(Elems(proc[c]))
  BY IdsElems
<1>2. CASE r \notin Elems(proc[c])
  BY <1>1, <1>2 DEF IdsOf
<1>3. CASE r \in Elems(proc[c])
  <2>1. Uniq(proc[c])
    BY DEF UniqInv, DeliveryUnique, Uniq
  <2>2. \A q \in Elems(proc[c]) : q.id = r.id => q = r
    BY <1>3, <2>1, UniqElems
  <2> QED BY <1>1, <1>3, <2>2 DEF IdsOf
<1> QED BY <1>2, <1>3

\* A worker takes the head of main, drops its delivery when it acknowledges it,
\* moves it when it books something else, and otherwise moves nothing.
LEMMA WorkerIds ==
  ASSUME TypeOK, UniqInv, NEW w \in Workers, WorkerStep(w) \/ WorkerFault(w)
  PROVE  LET c == OwnerOf[w]
             d == Hand(w)
         IN
         /\ c \in Consumers /\ \A x \in Consumers \ {c} : proc'[x] = proc[x]
         /\ \/ Ids(main') = Ids(main) /\ Ids(proc'[c]) = Ids(proc[c]) /\ dead' = dead
            \/ /\ wk[w].pc = "idle" /\ status[c] = "up" /\ dead' = dead
               /\ Head(main).id \in Ids(main) /\ Ids(main') \subseteq Ids(main)
               /\ Ids(main) = Ids(main') \cup {Head(main).id}
               /\ Ids(proc'[c]) = Ids(proc[c]) \cup {Head(main).id}
            \/ /\ wk[w].pc = "book" /\ wk[w].out = "ok"
               /\ main' = main /\ dead' = dead /\ Ids(proc'[c]) = Ids(proc[c]) \ {d}
            \/ /\ wk[w].pc = "book" /\ wk[w].out \notin {"ok", "cancel"}
               /\ d \in Ids(proc[c]) /\ Ids(proc'[c]) = Ids(proc[c]) \ {d}
               /\ \/ dead' = dead \cup {d} /\ Ids(main') = Ids(main)
                  \/ dead' = dead /\ Ids(main') = Ids(main) \cup {d}
<1> DEFINE c == OwnerOf[w]
           r == wk[w].raw
           d == Hand(w)
<1>1. c \in Consumers /\ \A x \in Consumers \ {c} : proc'[x] = proc[x]
  BY WorkerElems
<1>2. d = r.id
  BY DEF Hand
<1>3. CASE UNCHANGED <<main, proc, dead>>
  BY <1>1, <1>3
<1>4. \A s : Ids(s) = IdsOf(Elems(s))
  BY IdsElems
<1>5. CASE /\ Blmove(w) \/ BlmoveReplyLost(w)
           /\ main # <<>> /\ dead' = dead /\ Head(main) \in Elems(main)
           /\ Elems(main) = Elems(main') \cup {Head(main)}
           /\ Elems(proc'[c]) = Elems(proc[c]) \cup {Head(main)}
  <2>1. wk[w].pc = "idle" /\ status[c] = "up"
    BY <1>5 DEF Blmove, BlmoveReplyLost
  <2>2. /\ Head(main).id \in Ids(main) /\ Ids(main') \subseteq Ids(main)
        /\ Ids(main) = Ids(main') \cup {Head(main).id}
        /\ Ids(proc'[c]) = Ids(proc[c]) \cup {Head(main).id}
    BY <1>4, <1>5 DEF IdsOf
  <2> QED BY <1>1, <1>5, <2>1, <2>2
<1>6. CASE /\ MarkProcessingStarted(w) \/ MarkProcessingStartedFails(w)
           /\ UNCHANGED <<main, dead>> /\ FreshStamps(r.id) # {} /\ r \in Elems(proc[c])
           /\ Elems(proc'[c]) = (Elems(proc[c]) \ {r}) \cup {Restamped(r)}
  <2>1. wk[w].pc = "claim"
    BY <1>6 DEF MarkProcessingStarted, MarkProcessingStartedFails
  <2>2. Restamped(r).id = r.id
    BY <1>6, <2>1, HeldType, RestampedType DEF TypeOK
  <2>3. PICK E : E = Elems(proc[c]) \ {r}
    OBVIOUS
  <2>4. IdsOf(E) = Ids(proc[c]) \ {r.id}
    BY <1>1, <1>6, <2>3, LessOne
  <2>5. r.id \in Ids(proc[c])
    BY <1>4, <1>6 DEF IdsOf
  <2>6. Ids(proc'[c]) = IdsOf(E) \cup {r.id}
    BY <1>4, <1>6, <2>2, <2>3 DEF IdsOf
  <2>7. Ids(proc'[c]) = Ids(proc[c])
    BY <2>4, <2>5, <2>6
  <2> QED BY <1>1, <1>6, <2>7
<1>7. CASE /\ Ack(w) \/ AckFails(w)
           /\ UNCHANGED <<main, dead>> /\ Elems(proc'[c]) = Elems(proc[c]) \ {r}
  <2>1. wk[w].pc = "book" /\ wk[w].out = "ok"
    BY <1>7 DEF Ack, AckFails
  <2>2. Ids(proc'[c]) = Ids(proc[c]) \ {r.id} \/ Ids(proc'[c]) = Ids(proc[c])
    BY <1>1, <1>4, <1>7, LessOne
  <2> QED BY <1>1, <1>2, <1>7, <2>1, <2>2
<1>8. CASE /\ MoveTo(w) \/ MoveToFails(w)
           /\ r \in Elems(proc[c]) /\ Elems(proc'[c]) = Elems(proc[c]) \ {r}
           /\ \/ ToDead(w) /\ dead' = dead \cup {r.id} /\ main' = main
              \/ /\ ~ToDead(w) /\ dead' = dead
                 /\ Elems(main') = Elems(main) \cup {ReturnedRaw(w)}
  <2>1. wk[w].pc = "book" /\ wk[w].out \notin {"ok", "cancel"}
    BY <1>8 DEF MoveTo, MoveToFails
  <2>2. Ids(proc'[c]) = Ids(proc[c]) \ {r.id}
    BY <1>1, <1>4, <1>8, LessOne
  <2>3. r.id \in Ids(proc[c])
    BY <1>4, <1>8 DEF IdsOf
  <2>4. ~ToDead(w) => ReturnedRaw(w).id = r.id
    BY <2>1, ReturnedRawType DEF TypeOK
  <2>5. \/ dead' = dead \cup {r.id} /\ Ids(main') = Ids(main)
        \/ dead' = dead /\ Ids(main') = Ids(main) \cup {r.id}
    BY <1>4, <1>8, <2>4 DEF IdsOf
  <2> QED BY <1>1, <1>2, <2>1, <2>2, <2>3, <2>5
<1> HIDE DEF c, r, d
<1>9. \/ UNCHANGED <<main, proc, dead>>
      \/ /\ Blmove(w) \/ BlmoveReplyLost(w)
         /\ main # <<>> /\ dead' = dead /\ Head(main) \in Elems(main)
         /\ Elems(main) = Elems(main') \cup {Head(main)}
         /\ Elems(proc'[c]) = Elems(proc[c]) \cup {Head(main)}
      \/ /\ MarkProcessingStarted(w) \/ MarkProcessingStartedFails(w)
         /\ UNCHANGED <<main, dead>> /\ FreshStamps(r.id) # {} /\ r \in Elems(proc[c])
         /\ Elems(proc'[c]) = (Elems(proc[c]) \ {r}) \cup {Restamped(r)}
      \/ /\ Ack(w) \/ AckFails(w)
         /\ UNCHANGED <<main, dead>> /\ Elems(proc'[c]) = Elems(proc[c]) \ {r}
      \/ /\ MoveTo(w) \/ MoveToFails(w)
         /\ r \in Elems(proc[c]) /\ Elems(proc'[c]) = Elems(proc[c]) \ {r}
         /\ \/ ToDead(w) /\ dead' = dead \cup {r.id} /\ main' = main
            \/ /\ ~ToDead(w) /\ dead' = dead
               /\ Elems(main') = Elems(main) \cup {ReturnedRaw(w)}
  BY WorkerElems DEF c, r
<1> QED BY <1>3, <1>5, <1>6, <1>7, <1>8, <1>9 DEF c, d

\* What the sweeps move: what they have read, or what the consumer owes.
LEMMA SweepIds ==
  ASSUME TypeOK, UniqInv, NEW c \in Consumers,
         ConsumerStep(c) \/ ConsumerFault(c) \/ Shutdown(c)
  PROVE  LET o == rec[c].owner IN
         /\ dead' = dead
         /\ \/ UNCHANGED <<main, proc>> /\ pend'[c] \subseteq pend[c]
            \/ /\ rec[c].pc = "requeue" /\ o \in Consumers /\ pend' = pend
               /\ \A x \in Consumers \ {o} : proc'[x] = proc[x]
               /\ Ids(proc'[o]) \subseteq Ids(proc[o]) /\ Ids(main) \subseteq Ids(main')
               /\ Ids(main') \cup Ids(proc'[o]) = Ids(main) \cup Ids(proc[o])
               /\ \A d \in Ids(proc[o]) \ Ids(proc'[o]) : d \in Ids(rec[c].items)
            \/ /\ rec[c].pc = "flush" /\ main' = main
               /\ \A x \in Consumers \ {c} : proc'[x] = proc[x]
               /\ Ids(proc'[c]) \subseteq Ids(proc[c]) /\ pend'[c] \subseteq pend[c]
               /\ \A d \in Ids(proc[c]) \ Ids(proc'[c]) : Owed(c, d)
<1> DEFINE o == rec[c].owner
<1>1. \A s : Ids(s) = IdsOf(Elems(s))
  BY IdsElems
<1>2. pend \in [Consumers -> SUBSET Raw]
  BY DEF TypeOK, ListTypes
<1>3. CASE /\ RequeueOrphans(c) \/ RequeueOrphansFails(c)
           /\ dead' = dead
           /\ o \in Consumers /\ \A x \in Consumers \ {o} : proc'[x] = proc[x]
           /\ Elems(main') = Elems(main) \cup (Elems(rec[c].items) \cap Elems(proc[o]))
           /\ Elems(proc'[o]) = Elems(proc[o]) \ Elems(rec[c].items)
  <2>1. rec[c].pc = "requeue" /\ pend' = pend
    BY <1>3 DEF RequeueOrphans, RequeueOrphansFails
  <2>2. Ids(proc'[o]) \subseteq Ids(proc[o]) /\ Ids(main) \subseteq Ids(main')
    BY <1>1, <1>3 DEF IdsOf
  <2>3. Ids(main') \cup Ids(proc'[o]) = Ids(main) \cup Ids(proc[o])
    BY <1>1, <1>3 DEF IdsOf
  <2>4. \A d \in Ids(proc[o]) \ Ids(proc'[o]) : d \in Ids(rec[c].items)
    BY <1>1, <1>3 DEF IdsOf
  <2> QED BY <1>3, <2>1, <2>2, <2>3, <2>4
<1>4. CASE /\ FlushPendingAcks(c) \/ FlushPendingAcksFails(c)
           /\ dead' = dead
           /\ main' = main /\ \A x \in Consumers \ {c} : proc'[x] = proc[x]
           /\ \E failed \in SUBSET pend[c] :
                /\ pend' = [pend EXCEPT ![c] = failed]
                /\ Elems(proc'[c]) = Elems(proc[c]) \ (pend[c] \ failed)
  <2>1. PICK failed \in SUBSET pend[c] :
          pend' = [pend EXCEPT ![c] = failed] /\ Elems(proc'[c]) = Elems(proc[c]) \ (pend[c] \ failed)
    BY <1>4
  <2>2. rec[c].pc = "flush" /\ pend'[c] = failed
    BY <1>2, <1>4, <2>1 DEF FlushPendingAcks, FlushPendingAcksFails
  <2>3. Ids(proc'[c]) \subseteq Ids(proc[c])
    BY <1>1, <2>1 DEF IdsOf
  <2>4. \A d \in Ids(proc[c]) \ Ids(proc'[c]) : Owed(c, d)
    BY <1>1, <2>1 DEF IdsOf, Owed
  <2> QED BY <1>4, <2>1, <2>2, <2>3, <2>4
<1>5. \/ pend' = pend \/ pend'[c] = {} \/ FlushPendingAcks(c) \/ FlushPendingAcksFails(c)
  BY LifeSteps DEF ConsumerStep, ConsumerFault, Shutdown
<1>6. CASE UNCHANGED <<main, proc>> /\ dead' = dead
  <2>1. pend'[c] \subseteq pend[c]
    <3>1. CASE FlushPendingAcks(c) \/ FlushPendingAcksFails(c)
      <4>1. PICK failed \in SUBSET pend[c] : FlushLua(c, failed)
        BY <3>1 DEF FlushPendingAcks, FlushPendingAcksFails
      <4>2. pend'[c] = failed
        BY <1>2, <4>1 DEF FlushLua
      <4> QED BY <4>1, <4>2
    <3> QED BY <1>5, <3>1
  <2> QED BY <1>6, <2>1
<1> HIDE DEF o
<1>7. /\ dead' = dead
      /\ \/ UNCHANGED <<main, proc>>
         \/ /\ RequeueOrphans(c) \/ RequeueOrphansFails(c)
            /\ o \in Consumers /\ \A x \in Consumers \ {o} : proc'[x] = proc[x]
            /\ Elems(main') = Elems(main) \cup (Elems(rec[c].items) \cap Elems(proc[o]))
            /\ Elems(proc'[o]) = Elems(proc[o]) \ Elems(rec[c].items)
         \/ /\ FlushPendingAcks(c) \/ FlushPendingAcksFails(c)
            /\ main' = main /\ \A x \in Consumers \ {c} : proc'[x] = proc[x]
            /\ \E failed \in SUBSET pend[c] :
                 /\ pend' = [pend EXCEPT ![c] = failed]
                 /\ Elems(proc'[c]) = Elems(proc[c]) \ (pend[c] \ failed)
  BY SweepElems DEF o
<1> QED BY <1>3, <1>4, <1>6, <1>7 DEF o

\* Where a worker goes from where it stands, ...
LEMMA WorkerMoves ==
  ASSUME TypeOK, NEW w \in Workers, WorkerStep(w) \/ WorkerFault(w)
  PROVE  LET s == wk[w]
             t == wk'[w]
         IN
         \/ s.pc = "idle" /\ t = s
         \/ s.pc = "idle" /\ t.pc = "claim" /\ t.raw = Head(main) /\ t.out = s.out /\ Blmove(w)
         \/ s.pc = "claim" /\ t.pc = "lock" /\ t.raw.id = s.raw.id /\ t.out = s.out
         \/ /\ s.pc = "lock" /\ t.raw = s.raw
            /\ \/ t.pc = "dedup" /\ t.out = s.out /\ s.raw.id \notin Unreadable
               \/ t.pc = "book" /\ t.out \in {"bad", "busy"}
         \/ /\ s.pc = "dedup" /\ t.raw = s.raw
            /\ \/ t.pc = "unlock" /\ t.out = "ok" /\ Msg(w) \in doneKey \cup procKey
               \/ t.pc = "work" /\ t.out = s.out
         \/ /\ s.pc = "work" /\ t.raw = s.raw
            /\ \/ t.pc = "send" /\ t.out = s.out
               \/ t.pc = "mark" /\ t.out = "ok" /\ Msg(w) \in settled'
               \/ t.pc = "release" /\ t.out = "error"
         \/ /\ s.pc = "send" /\ t.raw = s.raw /\ Msg(w) \in settled'
            /\ (t.pc = "mark" /\ t.out = s.out) \/ (t.pc = "release" /\ t.out = "ok")
         \/ /\ s.pc = "mark" /\ t.raw = s.raw
            /\ (t.pc = "unlock" /\ t.out = "ok") \/ (t.pc = "post" /\ t.out = s.out)
         \/ s.pc = "post" /\ t.raw = s.raw /\ t.pc = "unlock" /\ t.out \in {"ok", "error"}
         \/ s.pc = "release" /\ t.raw = s.raw /\ t.pc = "unlock" /\ t.out = s.out
         \/ s.pc = "unlock" /\ t.raw = s.raw /\ t.pc = "book" /\ t.out = s.out
         \/ s.pc = "book" /\ t = IdleWorker
<1>1. wk \in [Workers -> WorkerStates]
  BY DEF TypeOK, WorkerTypes
<1>2. CASE BlmoveReplyLost(w)
  BY <1>2 DEF BlmoveReplyLost
<1>3. CASE Blmove(w)
  BY <1>1, <1>3 DEF Blmove, WorkerStates
<1>4. CASE MarkProcessingStarted(w) \/ MarkProcessingStartedFails(w)
  <2>0. wk[w].raw \in Raw
    BY <1>4, HeldType DEF MarkProcessingStarted, MarkProcessingStartedFails, TypeOK
  <2>1. Restamped(wk[w].raw).id = wk[w].raw.id
    BY <1>4, <2>0, RestampedType DEF MarkProcessingStarted, MarkProcessingStartedFails
  <2> QED BY <1>1, <1>4, <2>1 DEF MarkProcessingStarted, MarkProcessingStartedFails, WorkerStates
<1>5. CASE HandleUnreadable(w) \/ TryLock(w) \/ TryLockFails(w)
  BY <1>1, <1>5 DEF HandleUnreadable, TryLock, TryLockFails, WorkerStates
<1>6. CASE Acquire(w) \/ AcquireFails(w)
  BY <1>1, <1>6 DEF Acquire, AcquireFails, WorkerStates
<1>7. CASE Work(w)
  <2>1. /\ wk[w].pc = "work"
        /\ \/ wk' = [wk EXCEPT ![w].pc = "send"]
           \/ wk' = [wk EXCEPT ![w].pc = "mark", ![w].out = "ok"] /\ Msg(w) \in settled'
           \/ wk' = [wk EXCEPT ![w].pc = "release", ![w].out = "error"]
    BY <1>7 DEF Work
  <2>2. CASE wk' = [wk EXCEPT ![w].pc = "send"]
    BY <1>1, <2>1, <2>2 DEF WorkerStates
  <2>3. CASE wk' = [wk EXCEPT ![w].pc = "mark", ![w].out = "ok"] /\ Msg(w) \in settled'
    BY <1>1, <2>1, <2>3 DEF WorkerStates
  <2>4. CASE wk' = [wk EXCEPT ![w].pc = "release", ![w].out = "error"]
    BY <1>1, <2>1, <2>4 DEF WorkerStates
  <2> QED BY <2>1, <2>2, <2>3, <2>4
<1>8. CASE Send(w)
  BY <1>1, <1>8 DEF Send, WorkerStates
<1>9. CASE MarkDone(w) \/ MarkDoneFails(w)
  <2>1. wk[w].pc = "mark" /\ wk' = [wk EXCEPT ![w].pc = IF wk[w].out = "ok" THEN "unlock" ELSE "post"]
    BY <1>9 DEF MarkDone, MarkDoneFails
  <2>2. wk'[w] = [wk[w] EXCEPT !.pc = IF wk[w].out = "ok" THEN "unlock" ELSE "post"]
    BY <1>1, <2>1
  <2>3. CASE wk[w].out = "ok"
    BY <1>1, <2>1, <2>2, <2>3 DEF WorkerStates
  <2>4. CASE wk[w].out # "ok"
    BY <1>1, <2>1, <2>2, <2>4 DEF WorkerStates
  <2> QED BY <2>3, <2>4
<1>10. CASE Post(w) \/ PostFails(w)
  BY <1>1, <1>10 DEF Post, PostFails, WorkerStates
<1>11. CASE Release(w) \/ ReleaseFails(w)
  BY <1>1, <1>11 DEF Release, ReleaseFails, WorkerStates
<1>12. CASE Unlock(w) \/ UnlockFails(w)
  BY <1>1, <1>12 DEF Unlock, UnlockFails, WorkerStates
<1>13. CASE Ack(w) \/ AckFails(w) \/ MoveTo(w) \/ MoveToFails(w) \/ LeaveInProc(w)
  BY <1>1, <1>13 DEF Ack, AckFails, MoveTo, MoveToFails, LeaveInProc
<1> QED BY <1>2, <1>3, <1>4, <1>5, <1>6, <1>7, <1>8, <1>9, <1>10, <1>11, <1>12, <1>13
        DEF WorkerStep, WorkerFault, ProcessStep

\* ... and what it makes of the keys, the acks it owes and the decisions.
LEMMA WorkerKeys ==
  ASSUME TypeOK, NEW w \in Workers, WorkerStep(w) \/ WorkerFault(w)
  PROVE  /\ settled \subseteq settled'
         /\ doneKey' \subseteq doneKey \cup {m \in {Msg(w)} : wk[w].pc = "mark"}
         /\ procKey' \subseteq procKey \cup {m \in {Msg(w)} : wk[w].pc = "dedup" /\ wk'[w].pc = "work"}
         /\ ReleaseHolds /\ wk[w].pc = "release" => Msg(w) \notin procKey'
         /\ \A x \in Consumers \ {OwnerOf[w]} : pend'[x] = pend[x]
         /\ pend'[OwnerOf[w]] \subseteq
              pend[OwnerOf[w]] \cup {r \in {wk[w].raw} : wk[w].pc = "book" /\ wk[w].out = "ok"}
<1>1. /\ wk \in [Workers -> WorkerStates] /\ pend \in [Consumers -> SUBSET Raw] /\ OwnerOf[w] \in Consumers
  BY ConstantsAssumption DEF TypeOK, WorkerTypes, ListTypes, ConstantsAssumption
<1> USE DEF lists, keys, history
<1>2. CASE UNCHANGED <<settled, doneKey, procKey, pend>> /\ wk[w].pc # "release"
  BY <1>2
<1>3. CASE \/ Blmove(w) \/ BlmoveReplyLost(w) \/ MarkProcessingStarted(w)
           \/ MarkProcessingStartedFails(w) \/ HandleUnreadable(w) \/ TryLock(w) \/ TryLockFails(w)
           \/ Post(w) \/ PostFails(w) \/ Unlock(w) \/ UnlockFails(w) \/ MoveTo(w) \/ MoveToFails(w)
           \/ LeaveInProc(w)
  BY <1>2, <1>3 DEF Blmove, BlmoveReplyLost, MarkProcessingStarted, MarkProcessingStartedFails,
     HandleUnreadable, TryLock, TryLockFails, Post, PostFails, Unlock, UnlockFails, MoveTo,
     MoveToFails, LeaveInProc
<1>4. CASE Acquire(w) \/ AcquireFails(w)
  BY <1>1, <1>4 DEF Acquire, AcquireFails, WorkerStates
<1>5. CASE Work(w) \/ Send(w)
  BY <1>1, <1>5 DEF Work, Send
<1>6. CASE MarkDone(w) \/ MarkDoneFails(w)
  BY <1>1, <1>6 DEF MarkDone, MarkDoneFails
<1>7. CASE Release(w) \/ ReleaseFails(w)
  BY <1>1, <1>7 DEF Release, ReleaseFails, Fault, ReleaseHolds
<1>8. CASE Ack(w) \/ AckFails(w)
  BY <1>1, <1>8 DEF Ack, AckFails
<1> QED BY <1>3, <1>4, <1>5, <1>6, <1>7, <1>8 DEF WorkerStep, WorkerFault, ProcessStep

\* Taking the head of main.
LEMMA Taken ==
  ASSUME TypeOK, NEW w \in Workers, Blmove(w)
  PROVE  Head(main).id \in Ids(main) /\ Head(main).id \in Ids(proc'[OwnerOf[w]])
<1> DEFINE c == OwnerOf[w]
<1>1. c \in Consumers /\ main \in Seq(Raw) /\ proc \in [Consumers -> Seq(Raw)] /\ proc[c] \in Seq(Raw)
  BY ListFacts, ConstantsAssumption DEF ConstantsAssumption
<1>2. main # <<>> /\ proc' = [proc EXCEPT ![c] = Append(proc[c], Head(main))]
  BY DEF Blmove
<1>3. Head(main) \in Raw /\ Head(main) \in Elems(main)
  BY <1>1, <1>2, TailList, HeadType DEF TypeOK
<1>4. Elems(proc'[c]) = Elems(proc[c]) \cup {Head(main)}
  BY <1>1, <1>2, <1>3, AppendList
<1> QED BY <1>3, <1>4, IdsElems DEF IdsOf

\* Who works on what after a step of w.
LEMMA HandMoves ==
  ASSUME TypeOK, NEW w \in Workers, WorkerStep(w) \/ WorkerFault(w)
  PROVE  /\ UNCHANGED <<status, rec, enq, heartbeat>>
         /\ \A v \in Workers \ {w} : wk'[v] = wk[v]
         /\ \A v \in Workers \ {w} : (Busy(v)' <=> Busy(v)) /\ Hand(v)' = Hand(v)
         /\ Busy(w)' => \/ Busy(w) /\ wk[w].pc # "book" /\ Hand(w)' = Hand(w)
                        \/ ~Busy(w) /\ Blmove(w) /\ Hand(w)' = Head(main).id /\ wk'[w].pc = "claim"
<1>1. UNCHANGED <<status, rec, enq, heartbeat>> /\ \A v \in Workers \ {w} : wk'[v] = wk[v]
  BY WorkerFrame
<1>2. \A v \in Workers \ {w} : (Busy(v)' <=> Busy(v)) /\ Hand(v)' = Hand(v)
  BY <1>1 DEF Busy, Hand
<1>3. ASSUME Busy(w)'
      PROVE  \/ Busy(w) /\ wk[w].pc # "book" /\ Hand(w)' = Hand(w)
             \/ ~Busy(w) /\ Blmove(w) /\ Hand(w)' = Head(main).id /\ wk'[w].pc = "claim"
  BY <1>3, WorkerMoves DEF Busy, Hand, IdleWorker
<1> QED BY <1>1, <1>2, <1>3

LEMMA HeldMoves ==
  ASSUME TypeOK, NEW w \in Workers, WorkerStep(w) \/ WorkerFault(w), NEW d, Held(d)'
  PROVE  Held(d) \/ (Blmove(w) /\ d = Head(main).id)
BY HandMoves DEF Held

LEMMA HoldWorker ==
  ASSUME TypeOK, UniqInv, Alive, HoldInv, NEW w \in Workers, WorkerStep(w) \/ WorkerFault(w)
  PROVE  HoldInv'
<1> DEFINE c == OwnerOf[w]
<1>1. /\ UNCHANGED <<status, rec, enq>> /\ \A v \in Workers \ {w} : wk'[v] = wk[v]
      /\ \A v \in Workers \ {w} : (Busy(v)' <=> Busy(v)) /\ Hand(v)' = Hand(v)
      /\ Busy(w)' => \/ Busy(w) /\ wk[w].pc # "book" /\ Hand(w)' = Hand(w)
                     \/ ~Busy(w) /\ Blmove(w) /\ Hand(w)' = Head(main).id /\ wk'[w].pc = "claim"
  BY HandMoves
<1>2. c \in Consumers /\ \A x \in Consumers \ {c} : proc'[x] = proc[x]
  BY WorkerIds
<1>3. \A v \in Workers : OwnerOf[v] \in Consumers
  BY ConstantsAssumption DEF ConstantsAssumption
<1>4. Handed /\ OneHand
  BY DEF HoldInv
<1>5. \A d \in Ids(proc[c]) \ Ids(proc'[c]) : Busy(w) /\ wk[w].pc = "book" /\ d = Hand(w)
  BY WorkerIds DEF Busy
<1>6. Handed'
  <2> SUFFICES ASSUME NEW v \in Workers, Busy(v)' PROVE Hand(v)' \in Ids(proc'[OwnerOf[v]])
    BY DEF Handed
  <2>1. CASE v # w /\ OwnerOf[v] # c
    BY <1>1, <1>2, <1>3, <1>4, <2>1 DEF Handed
  <2>2. CASE v # w /\ OwnerOf[v] = c
    <3>1. Busy(v) /\ Hand(v)' = Hand(v) /\ Hand(v) \in Ids(proc[c])
      BY <1>1, <1>4, <2>2 DEF Handed
    <3>2. Busy(w) => Hand(v) # Hand(w)
      BY <1>4, <2>2, <3>1 DEF OneHand
    <3> QED BY <1>5, <2>2, <3>1, <3>2
  <2>3. CASE v = w /\ Busy(w) /\ wk[w].pc # "book" /\ Hand(w)' = Hand(w)
    <3>1. Hand(w) \in Ids(proc[c])
      BY <1>4, <2>3 DEF Handed
    <3> QED BY <1>5, <2>3, <3>1
  <2>4. CASE v = w /\ Blmove(w) /\ Hand(w)' = Head(main).id
    BY <2>4, Taken
  <2> QED BY <1>1, <2>1, <2>2, <2>3, <2>4
<1>7. Blmove(w) => /\ Head(main).id \in Ids(main)
                   /\ \A x \in Consumers : Head(main).id \notin Ids(proc[x])
                   /\ ~Held(Head(main).id)
  <2> SUFFICES ASSUME Blmove(w)
               PROVE  /\ Head(main).id \in Ids(main)
                      /\ \A x \in Consumers : Head(main).id \notin Ids(proc[x])
                      /\ ~Held(Head(main).id)
    OBVIOUS
  <2>1. Head(main).id \in Ids(main)
    BY Taken
  <2>2. \A x \in Consumers : Head(main).id \notin Ids(proc[x])
    BY <2>1, OnlyThere
  <2> QED BY <1>3, <1>4, <2>1, <2>2 DEF Held, Handed
<1>8. OneHand'
  <2> SUFFICES ASSUME NEW v \in Workers \ {w}, Busy(v)', Busy(w)', Hand(v)' = Hand(w)' PROVE FALSE
    BY <1>1, <1>4 DEF OneHand
  <2> QED BY <1>1, <1>4, <1>7 DEF OneHand, Held
<1>9. ReadableIn'
  <2> SUFFICES ASSUME wk'[w].pc \in Section \/ wk'[w].out = "cancel" PROVE Hand(w)' \notin Unreadable
    BY <1>1 DEF HoldInv, ReadableIn
  <2>1. wk[w].pc \in Section \/ wk[w].out = "cancel" => Hand(w) \notin Unreadable
    BY DEF HoldInv, ReadableIn
  <2>2. wk[w].out = "cancel" => wk[w].pc \in {"release", "unlock", "book"}
    BY DEF HoldInv, CancelStops
  <2> QED BY <2>1, <2>2, WorkerMoves DEF Section, Hand, IdleWorker
<1>10. CancelStops'
  <2> SUFFICES ASSUME wk'[w].out = "cancel"
               PROVE  wk'[w].pc \in {"release", "unlock", "book"} /\ status[c] = "stopping"
    BY <1>1 DEF HoldInv, CancelStops
  <2>1. wk[w].out = "cancel" => wk[w].pc \in {"release", "unlock", "book"} /\ status[c] = "stopping"
    BY DEF HoldInv, CancelStops
  <2> QED BY <2>1, WorkerMoves DEF IdleWorker
<1>11. FlushUp'
  BY <1>1 DEF HoldInv, FlushUp
<1>12. /\ \A x \in Consumers \ {c} : pend'[x] = pend[x]
       /\ pend'[c] \subseteq pend[c] \cup {r \in {wk[w].raw} : wk[w].pc = "book" /\ wk[w].out = "ok"}
  BY WorkerKeys
<1>13. status[c] \in {"up", "stopping"}
  BY <1>2, WorkerFrame DEF Alive, QuietOut, Quiet, WorkersOf
<1>14. PendEmpty'
  BY <1>1, <1>2, <1>12, <1>13 DEF HoldInv, PendEmpty
<1>15. PendApart'
  <2> SUFFICES ASSUME NEW x \in Consumers, status[x] \in {"up", "stopping"}, NEW d \in IdsOf(pend'[x])
               PROVE  /\ d \in Elems(enq) /\ d \notin Ids(main') /\ d \notin dead' /\ ~Held(d)'
                      /\ \A y \in Consumers \ {x} : d \notin Ids(proc'[y])
    BY <1>1 DEF PendApart
  <2>1. CASE d \in IdsOf(pend[x])
    <3>1. /\ d \in Elems(enq) /\ d \notin Ids(main) /\ d \notin dead /\ ~Held(d)
          /\ \A y \in Consumers \ {x} : d \notin Ids(proc[y])
      BY <2>1 DEF HoldInv, PendApart
    <3>2. ~Held(d)'
      BY <1>7, <3>1, HeldMoves
    <3>3. Busy(w) => d # Hand(w)
      BY <3>1 DEF Held
    <3>4. d \notin Ids(main') /\ d \notin dead'
      BY <3>1, <3>3, WorkerIds DEF Busy
    <3>5. \A y \in Consumers \ {x} : d \notin Ids(proc'[y])
      BY <1>2, <3>1, WorkerIds
    <3> QED BY <3>1, <3>2, <3>4, <3>5
  <2>2. CASE d \notin IdsOf(pend[x])
    <3>1. x = c /\ wk[w].pc = "book" /\ wk[w].out = "ok" /\ d = Hand(w)
      BY <1>12, <2>2 DEF IdsOf, Hand
    <3>2. Busy(w) /\ d \in Ids(proc[c])
      BY <1>4, <3>1 DEF Busy, Handed
    <3>3. /\ d \in Elems(enq) /\ d \notin Ids(main) /\ d \notin dead
          /\ \A y \in Consumers \ {c} : d \notin Ids(proc[y])
      BY <1>2, <3>2, OnlyThere
    <3>4. ~Held(d)'
      <4> SUFFICES ASSUME NEW v \in Workers, Busy(v)', Hand(v)' = d PROVE FALSE
        BY DEF Held
      <4>1. v # w
        BY <1>1, <3>1, <3>2
      <4> QED BY <1>1, <1>4, <3>1, <3>2, <4>1 DEF OneHand
    <3>5. Ids(main') = Ids(main) /\ dead' = dead
      BY <3>1, WorkerIds
    <3> QED BY <1>2, <3>1, <3>3, <3>4, <3>5
  <2> QED BY <2>1, <2>2
<1> QED BY <1>6, <1>8, <1>9, <1>10, <1>11, <1>14, <1>15 DEF HoldInv

\* What a step of a consumer does to the workers: nothing, unless it stops or crashes.
LEMMA ShutHands ==
  ASSUME TypeOK, NEW c \in Consumers, ConsumerStep(c) \/ ConsumerFault(c) \/ Shutdown(c),
         NEW v \in Workers
  PROVE  \/ wk'[v] = wk[v] /\ (OwnerOf[v] # c \/ ~Shutdown(c))
         \/ /\ OwnerOf[v] = c /\ wk'[v] = IdleWorker
            /\ Crash(c) \/ (StopWorkers(c) /\ wk[v].pc \notin {"work", "send", "release"})
         \/ /\ OwnerOf[v] = c /\ StopWorkers(c) /\ wk[v].pc \in Section
            /\ wk'[v].raw = wk[v].raw /\ wk'[v].out = "cancel" /\ wk'[v].pc \in {"release", "unlock"}
<1>1. wk[v] \in WorkerStates
  BY DEF TypeOK, WorkerTypes
<1>2. CASE ~Shutdown(c)
  BY <1>2, LifeFrame
<1>3. CASE OwnerOf[v] # c
  BY <1>3, LifeFrame
<1>4. CASE OwnerOf[v] = c /\ Crash(c)
  BY <1>4 DEF Crash
<1>5. CASE OwnerOf[v] = c /\ StopWorkers(c)
  <2>1. PICK e \in BOOLEAN : wk'[v] = Cancelled(wk[v], e)
    <3>1. PICK Early \in SUBSET WorkersOf(c) : wk'[v] = Cancelled(wk[v], v \in Early)
      BY <1>5 DEF StopWorkers
    <3>2. CASE v \in Early
      <4>1. Cancelled(wk[v], v \in Early) = Cancelled(wk[v], TRUE)
        BY <3>2 DEF Cancelled
      <4> QED BY <3>1, <4>1
    <3>3. CASE v \notin Early
      <4>1. Cancelled(wk[v], v \in Early) = Cancelled(wk[v], FALSE)
        BY <3>3 DEF Cancelled
      <4> QED BY <3>1, <4>1
    <3> QED BY <3>2, <3>3
  <2>2. CASE wk[v].pc \in {"send", "mark"} \/ (wk[v].pc = "work" /\ ~e)
    <3>1. wk'[v] = [wk[v] EXCEPT !.pc = "release", !.out = "cancel"]
      BY <2>1, <2>2 DEF Cancelled
    <3>2. wk'[v].raw = wk[v].raw /\ wk'[v].out = "cancel" /\ wk'[v].pc = "release"
      BY <1>1, <3>1 DEF WorkerStates
    <3> QED BY <1>5, <2>2, <3>2 DEF Section
  <2>3. CASE ~(wk[v].pc \in {"send", "mark"} \/ (wk[v].pc = "work" /\ ~e))
             /\ wk[v].pc \in {"dedup", "work", "post", "release"}
    <3>1. wk'[v] = [wk[v] EXCEPT !.pc = "unlock", !.out = "cancel"]
      BY <2>1, <2>3 DEF Cancelled
    <3>2. wk'[v].raw = wk[v].raw /\ wk'[v].out = "cancel" /\ wk'[v].pc = "unlock"
      BY <1>1, <3>1 DEF WorkerStates
    <3> QED BY <1>5, <2>3, <3>2 DEF Section
  <2>4. CASE wk[v].pc \notin {"send", "mark", "dedup", "work", "post", "release"}
    BY <1>5, <2>1, <2>4 DEF Cancelled
  <2> QED BY <2>2, <2>3, <2>4
<1> QED BY <1>2, <1>3, <1>4, <1>5 DEF Shutdown

\* Nobody gets to work by a step of a consumer.
LEMMA ShutHeld ==
  ASSUME TypeOK, NEW c \in Consumers, ConsumerStep(c) \/ ConsumerFault(c) \/ Shutdown(c)
  PROVE  /\ \A v \in Workers : Busy(v)' => Busy(v) /\ Hand(v)' = Hand(v)
         /\ \A d : Held(d)' => Held(d)
<1>1. ASSUME NEW v \in Workers, Busy(v)' PROVE Busy(v) /\ Hand(v)' = Hand(v)
  <2>1. CASE wk'[v] = wk[v]
    BY <1>1, <2>1 DEF Busy, Hand
  <2>2. CASE wk'[v] = IdleWorker
    BY <1>1, <2>2 DEF Busy, IdleWorker
  <2>3. CASE wk[v].pc \in Section /\ wk'[v].raw = wk[v].raw
    BY <2>3 DEF Busy, Hand, Section
  <2> QED BY <2>1, <2>2, <2>3, ShutHands
<1> QED BY <1>1 DEF Held

\* A sweep takes a delivery away from a list nobody works on, a flush one nobody
\* works on.
LEMMA SweepFree ==
  ASSUME TypeOK, UniqInv, Alive, HoldInv, NEW c \in Consumers,
         ConsumerStep(c) \/ ConsumerFault(c) \/ Shutdown(c),
         NEW x \in Consumers, NEW d \in Ids(proc[x]) \ Ids(proc'[x])
  PROVE  /\ ~Held(d)
         /\ \/ rec[c].pc = "requeue" /\ rec[c].owner = x /\ d \in Ids(main') /\ d \in Ids(rec[c].items)
            \/ rec[c].pc = "flush" /\ x = c /\ Owed(c, d)
<1>1. \A w \in Workers : Busy(w) => Hand(w) \in Ids(proc[OwnerOf[w]]) /\ OwnerOf[w] \in Consumers
  BY ConstantsAssumption DEF HoldInv, Handed, ConstantsAssumption
<1>2. \A w \in Workers : Busy(w) /\ Hand(w) = d => OwnerOf[w] = x
  BY <1>1, OnlyThere
<1>3. CASE rec[c].pc = "requeue" /\ rec[c].owner = x /\ d \in Ids(main') /\ d \in Ids(rec[c].items)
  <2>1. status[x] \in {"gone", "closing"}
    BY <1>3 DEF Alive, VisitsGone, SweepsOwn, Sweeping
  <2>2. Quiet(x)
    BY <2>1 DEF Alive, QuietOut
  <2> QED BY <1>2, <1>3, <2>2 DEF Held, Busy, Quiet, WorkersOf
<1>4. CASE rec[c].pc = "flush" /\ x = c /\ Owed(c, d)
  <2>1. status[c] \in {"up", "stopping"}
    BY <1>4 DEF HoldInv, FlushUp
  <2> QED BY <1>4, <2>1 DEF HoldInv, PendApart, Owed
<1>5. \/ rec[c].pc = "requeue" /\ rec[c].owner = x /\ d \in Ids(main') /\ d \in Ids(rec[c].items)
      \/ rec[c].pc = "flush" /\ x = c /\ Owed(c, d)
  BY SweepIds
<1> QED BY <1>3, <1>4, <1>5

LEMMA HoldConsumer ==
  ASSUME TypeOK, UniqInv, Alive, HoldInv, NEW c \in Consumers,
         ConsumerStep(c) \/ ConsumerFault(c) \/ Shutdown(c)
  PROVE  HoldInv'
<1>1. /\ \A v \in Workers : Busy(v)' => Busy(v) /\ Hand(v)' = Hand(v)
      /\ \A d : Held(d)' => Held(d)
  BY ShutHeld
<1>2. \A x \in Consumers \ {c} : status'[x] = status[x] /\ pend'[x] = pend[x] /\ rec'[x] = rec[x]
  BY LifeFrame, OwnSweep
<1>3. enq' = enq /\ dead' = dead /\ pend'[c] \subseteq pend[c]
  BY LifeFrame, SweepIds
<1>4. \A v \in Workers : OwnerOf[v] \in Consumers
  BY ConstantsAssumption DEF ConstantsAssumption
<1>5. Handed'
  <2> SUFFICES ASSUME NEW v \in Workers, Busy(v)' PROVE Hand(v)' \in Ids(proc'[OwnerOf[v]])
    BY DEF Handed
  <2>1. Busy(v) /\ Hand(v)' = Hand(v) /\ Hand(v) \in Ids(proc[OwnerOf[v]]) /\ Held(Hand(v))
    BY <1>1 DEF HoldInv, Handed, Held
  <2> QED BY <1>4, <2>1, SweepFree
<1>6. OneHand'
  BY <1>1 DEF HoldInv, OneHand
<1>7. ReadableIn'
  <2> SUFFICES ASSUME NEW v \in Workers, wk'[v].pc \in Section \/ wk'[v].out = "cancel"
               PROVE  Hand(v)' \notin Unreadable
    BY DEF ReadableIn
  <2>1. CASE wk'[v] = wk[v]
    BY <2>1 DEF HoldInv, ReadableIn, Hand
  <2>2. wk'[v] # IdleWorker
    BY DEF IdleWorker, Section
  <2>3. CASE wk[v].pc \in Section /\ wk'[v].raw = wk[v].raw
    BY <2>3 DEF HoldInv, ReadableIn, Hand
  <2> QED BY <2>1, <2>2, <2>3, ShutHands
<1>8. CancelStops'
  <2> SUFFICES ASSUME NEW v \in Workers, wk'[v].out = "cancel"
               PROVE  wk'[v].pc \in {"release", "unlock", "book"} /\ status'[OwnerOf[v]] = "stopping"
    BY DEF CancelStops
  <2>1. CASE wk'[v] = wk[v] /\ (OwnerOf[v] # c \/ ~Shutdown(c))
    <3>1. wk[v].pc \in {"release", "unlock", "book"} /\ status[OwnerOf[v]] = "stopping"
      BY <2>1 DEF HoldInv, CancelStops
    <3>2. CASE OwnerOf[v] # c
      BY <1>2, <1>4, <2>1, <3>1, <3>2
    <3>3. CASE OwnerOf[v] = c
      <4>1. ~Quiet(c)
        BY <3>1, <3>3 DEF Quiet, WorkersOf
      <4>2. status'[c] = status[c]
        BY <2>1, <3>1, <3>3, <4>1, LifeSteps DEF ConsumerStep, ConsumerFault
      <4> QED BY <2>1, <3>1, <3>3, <4>2
    <3> QED BY <3>2, <3>3
  <2>2. wk'[v] # IdleWorker
    BY DEF IdleWorker
  <2>3. CASE /\ OwnerOf[v] = c /\ StopWorkers(c) /\ wk'[v].pc \in {"release", "unlock"}
    BY <2>3, LifeSteps
  <2> QED BY <2>1, <2>2, <2>3, ShutHands
<1>9. FlushUp'
  <2> SUFFICES ASSUME rec'[c].pc = "flush" PROVE status'[c] \in {"up", "stopping"}
    BY <1>2 DEF HoldInv, FlushUp
  <2>1. CASE StopWorkers(c)
    BY <2>1, LifeSteps
  <2>2. CASE ScanEnd(c)
    BY <2>2, LifeSteps
  <2>3. CASE ~StopWorkers(c) /\ ~ScanEnd(c)
    <3>1. ASSUME NEW o \in Consumers, CheckOwner(c, o) \/ CheckOwnerFails(c, o) PROVE FALSE
      <4>1. rec'[c].pc = rec[c].pc \/ rec'[c].pc = "read"
        BY <3>1, SweepFields
      <4>2. rec[c].pc = "visit"
        BY <3>1 DEF CheckOwner, CheckOwnerFails
      <4> QED BY <4>1, <4>2
    <3> QED BY <2>3, <3>1, SweepFields DEF ConsumerStep, ConsumerFault, Shutdown, Back
  <2> QED BY <2>1, <2>2, <2>3
<1>10. status'[c] \in {"up", "stopping", "closing"} \/ pend'[c] = {}
  <2>1. status[c] \in {"up", "stopping", "closing"} \/ pend[c] = {}
    BY DEF HoldInv, PendEmpty
  <2>2. CASE pend[c] = {}
    BY <1>3, <2>2
  <2>3. CASE status[c] \in {"up", "stopping", "closing"}
    BY <2>3, LifeSteps DEF ConsumerStep, ConsumerFault, Shutdown
  <2> QED BY <2>1, <2>2, <2>3
<1>11. PendEmpty'
  BY <1>2, <1>10 DEF HoldInv, PendEmpty
<1>12. PendApart'
  <2> SUFFICES ASSUME NEW x \in Consumers, status'[x] \in {"up", "stopping"}, NEW d \in IdsOf(pend'[x])
               PROVE  /\ d \in Elems(enq) /\ d \notin Ids(main') /\ d \notin dead /\ ~Held(d)'
                      /\ \A y \in Consumers \ {x} : d \notin Ids(proc'[y])
    BY <1>3 DEF PendApart
  <2>1. d \in IdsOf(pend[x])
    BY <1>2, <1>3 DEF IdsOf
  <2>2. pend[x] # {}
    BY <2>1 DEF IdsOf
  <2>3. status[x] \in {"up", "stopping"}
    <3>1. CASE x # c
      BY <1>2, <3>1
    <3>2. CASE x = c
      <4>1. status[c] \in {"up", "stopping", "closing"}
        BY <2>2, <3>2 DEF HoldInv, PendEmpty
      <4> QED BY <3>2, <4>1, LifeSteps DEF ConsumerStep, ConsumerFault, Shutdown
    <3> QED BY <3>1, <3>2
  <2>4. /\ d \in Elems(enq) /\ d \notin Ids(main) /\ d \notin dead /\ ~Held(d)
        /\ \A y \in Consumers \ {x} : d \notin Ids(proc[y])
    BY <2>1, <2>3 DEF HoldInv, PendApart
  <2>5. \A y \in Consumers \ {x} : d \notin Ids(proc'[y])
    BY <2>4, SweepIds
  <2>6. d \notin Ids(main')
    <3>1. CASE rec[c].pc = "requeue" /\ Ids(main') \subseteq Ids(main) \cup Ids(proc[rec[c].owner])
      <4>1. rec[c].owner \in Consumers /\ status[rec[c].owner] \in {"gone", "closing"}
        BY <3>1, RecTypes DEF Alive, VisitsGone, SweepsOwn, Sweeping
      <4>2. rec[c].owner # x
        BY <2>3, <4>1
      <4> QED BY <2>4, <3>1, <4>1, <4>2
    <3>2. CASE main' = main
      BY <2>4, <3>2
    <3>3. \/ main' = main
          \/ rec[c].pc = "requeue" /\ Ids(main') \subseteq Ids(main) \cup Ids(proc[rec[c].owner])
      BY SweepIds
    <3> QED BY <3>1, <3>2, <3>3
  <2> QED BY <1>1, <2>4, <2>5, <2>6
<1> QED BY <1>5, <1>6, <1>7, <1>8, <1>9, <1>11, <1>12 DEF HoldInv

LEMMA EnqueueIds ==
  ASSUME TypeOK, NEW d \in Deliveries, Enqueue(d)
  PROVE  /\ d \notin Elems(enq) /\ Elems(enq') = Elems(enq) \cup {d}
         /\ Ids(main') = Ids(main) \cup {d}
         /\ UNCHANGED <<proc, dead, pend, heartbeat, procKey, doneKey, status, wk, rec, settled>>
<1> DEFINE r == [id |-> d, attempts |-> 0, stamp |-> 0]
<1>1. /\ main' = Append(main, r) /\ enq' = Append(enq, d) /\ d \notin Elems(enq)
      /\ UNCHANGED <<proc, dead, pend, heartbeat, procKey, doneKey, status, wk, rec, settled>>
  BY DEF Enqueue, keys
<1>2. r \in Raw /\ r.id = d
  BY ConstantsAssumption DEF Raw, ConstantsAssumption
<1>3. main \in Seq(Raw) /\ enq \in Seq(Deliveries)
  BY DEF TypeOK, ListTypes, HistoryTypes
<1> HIDE DEF r
<1>4. Elems(main') = Elems(main) \cup {r} /\ Elems(enq') = Elems(enq) \cup {d}
  BY <1>1, <1>2, <1>3, AppendList
<1> QED BY <1>1, <1>2, <1>4, IdsElems DEF IdsOf

LEMMA HoldStep ==
  TypeOK /\ UniqInv /\ Alive /\ HoldInv /\ [Next]_vars => HoldInv'
<1> SUFFICES ASSUME TypeOK, UniqInv, Alive, HoldInv, [Next]_vars PROVE HoldInv'
  OBVIOUS
<1>1. CASE UNCHANGED <<main, proc, dead, pend, status, wk, rec, enq>>
  BY <1>1 DEF HoldInv, Handed, OneHand, ReadableIn, CancelStops, FlushUp, PendEmpty, PendApart, Held,
     Busy, Hand
<1>2. ASSUME NEW d \in Deliveries, Enqueue(d) PROVE HoldInv'
  <2>1. /\ d \notin Elems(enq) /\ Elems(enq') = Elems(enq) \cup {d}
        /\ Ids(main') = Ids(main) \cup {d} /\ UNCHANGED <<proc, dead, pend, status, wk, rec>>
    BY <1>2, EnqueueIds
  <2>2. PendApart'
    BY <2>1 DEF HoldInv, PendApart, Held, Busy, Hand
  <2>3. Handed' /\ OneHand' /\ ReadableIn' /\ CancelStops' /\ FlushUp' /\ PendEmpty'
    BY <2>1 DEF HoldInv, Handed, OneHand, ReadableIn, CancelStops, FlushUp, PendEmpty, Busy, Hand
  <2> QED BY <2>2, <2>3 DEF HoldInv
<1>3. CASE Next
  BY <1>1, <1>2, <1>3, HoldWorker, HoldConsumer, EnvironmentFrame DEF Next
<1> QED BY <1>1, <1>3 DEF vars

LEMMA HoldInit == Init => HoldInv
<1> SUFFICES ASSUME Init PROVE HoldInv
  OBVIOUS
<1>1. \A w \in Workers : wk[w].pc = "idle" /\ wk[w].out = "none"
  BY DEF Init, IdleWorker
<1>2. \A c \in Consumers : status[c] = "new" /\ pend[c] = {} /\ rec[c].pc = "idle"
  BY DEF Init, IdleRec
<1> QED BY <1>1, <1>2 DEF HoldInv, Handed, OneHand, ReadableIn, CancelStops, FlushUp, PendEmpty,
           PendApart, Busy, Section

\* The keys and decisions change with the sweeps in one way.
LEMMA SweepKeys ==
  ASSUME TypeOK, NEW c \in Consumers, ConsumerStep(c) \/ ConsumerFault(c) \/ Shutdown(c)
  PROVE  /\ settled' = settled /\ doneKey' = doneKey /\ procKey' \subseteq procKey
         /\ ReleaseOrphan(c) => procKey' = procKey \ OrphanMsgs(c)
<1> USE DEF lists, keys, history
<1>1. CASE ConsumerStep(c)
  <2>1. CASE ReleaseOrphan(c)
    BY <2>1 DEF ReleaseOrphan
  <2>2. CASE ~ReleaseOrphan(c)
    BY <1>1, <2>2 DEF ConsumerStep, Start, TouchHeartbeat, ScanProcKeys, CheckOwner,
       ReadOrphans, RequeueOrphans, ScanEnd, FlushPendingAcks, FlushLua, StopMaintenance, StopEnd
  <2> QED BY <2>1, <2>2
<1>2. ReleaseOrphan(c) => ConsumerStep(c)
  BY DEF ConsumerStep
<1>3. CASE ConsumerFault(c)
  BY <1>1, <1>2, <1>3 DEF ConsumerFault, CheckOwnerFails, ReadOrphansFails, ReleaseOrphanFails,
     RequeueOrphansFails, FlushPendingAcksFails, FlushLua
<1>4. CASE Shutdown(c)
  BY <1>1, <1>2, <1>4 DEF Shutdown, StopWorkers, Crash
<1> QED BY <1>1, <1>3, <1>4

LEMMA DoneSettledStep ==
  TypeOK /\ DoneSettled /\ [Next]_vars => DoneSettled'
<1> SUFFICES ASSUME TypeOK, DoneSettled, [Next]_vars PROVE DoneSettled'
  OBVIOUS
<1>1. CASE UNCHANGED <<wk, settled>> /\ doneKey' \subseteq doneKey
  BY <1>1 DEF DoneSettled, Msg
<1>2. ASSUME NEW w \in Workers, WorkerStep(w) \/ WorkerFault(w) PROVE DoneSettled'
  <2>1. /\ settled \subseteq settled'
        /\ doneKey' \subseteq doneKey \cup {m \in {Msg(w)} : wk[w].pc = "mark"}
    BY <1>2, WorkerKeys
  <2>2. doneKey' \subseteq settled'
    BY <2>1 DEF DoneSettled
  <2>3. \A v \in Workers \ {w} : wk'[v] = wk[v] /\ Msg(v)' = Msg(v)
    BY <1>2, WorkerFrame DEF Msg
  <2>4. wk'[w].raw = wk[w].raw => Msg(w)' = Msg(w)
    BY DEF Msg
  <2>5. wk'[w].pc \in {"mark", "post"} => Msg(w)' \in settled'
    BY <1>2, <2>1, <2>4, WorkerMoves DEF DoneSettled, IdleWorker
  <2>6. wk'[w].pc = "release" /\ wk'[w].out = "ok" => Msg(w)' \in settled'
    BY <1>2, <2>1, <2>4, WorkerMoves DEF DoneSettled, IdleWorker
  <2> QED BY <2>1, <2>2, <2>3, <2>5, <2>6 DEF DoneSettled
<1>3. ASSUME NEW c \in Consumers, ConsumerStep(c) \/ ConsumerFault(c) \/ Shutdown(c)
      PROVE  DoneSettled'
  <2>1. settled' = settled /\ doneKey' = doneKey
    BY <1>3, SweepKeys
  <2>2. ASSUME NEW v \in Workers
        PROVE  /\ wk'[v].pc \in {"mark", "post"} => Msg(v)' \in settled
               /\ wk'[v].pc = "release" /\ wk'[v].out = "ok" => Msg(v)' \in settled
    <3>1. CASE wk'[v] = wk[v]
      BY <3>1 DEF DoneSettled, Msg
    <3>2. CASE wk'[v] = IdleWorker
      BY <3>2 DEF IdleWorker
    <3>3. CASE wk'[v].out = "cancel" /\ wk'[v].pc \in {"release", "unlock"}
      BY <3>3
    <3> QED BY <1>3, <3>1, <3>2, <3>3, ShutHands
  <2> QED BY <2>1, <2>2 DEF DoneSettled
<1>4. \A d \in Deliveries : Enqueue(d) => UNCHANGED <<wk, settled, doneKey>>
  BY EnqueueIds
<1>5. CASE Next
  BY <1>1, <1>2, <1>3, <1>4, <1>5, EnvironmentFrame DEF Next
<1> QED BY <1>1, <1>5 DEF vars

\* A sweep comes to move a delivery only after it has deleted its processing key.
LEMMA SweepReleased ==
  ASSUME TypeOK, NEW c \in Consumers, ConsumerStep(c) \/ ConsumerFault(c) \/ Shutdown(c),
         NEW d \in Deliveries \ Unreadable, Released(c, d)', MsgOf[d] \in procKey'
  PROVE  rec'[c].owner = rec[c].owner /\ Released(c, d)
<1>1. PICK i \in DOMAIN rec'[c].items :
        /\ rec'[c].items[i].id = d
        /\ \/ rec'[c].pc = "requeue"
           \/ rec'[c].pc = "release" /\ i < rec'[c].next /\ rec'[c].ready
  BY DEF Released
<1>2. CASE StopWorkers(c)
  BY <1>2, SweepFields DEF Released
<1>3. CASE ReadOrphans(c)
  <2>1. rec'[c].items = LRange(proc[rec[c].owner]) /\ rec'[c].next = 1 /\ rec'[c].pc = "release"
    BY <1>1, <1>3, SweepFields DEF Back
  <2>2. LRange(proc[rec[c].owner]) \in Seq(Raw)
    BY RecTypes, LRangeType
  <2>3. i \in Nat \ {0}
    BY <1>1, <2>1, <2>2
  <2> QED BY <1>1, <2>1, <2>3
<1>4. CASE ReleaseOrphan(c) \/ ReleaseOrphanFails(c)
  <2>1. rec[c].pc = "release" /\ rec[c].items \in Seq(Raw) /\ rec[c].next \in Nat
    BY <1>4, RecTypes DEF ReleaseOrphan, ReleaseOrphanFails
  <2>2. /\ rec'[c].owner = rec[c].owner /\ rec'[c].items = rec[c].items
        /\ \/ rec'[c].pc = "release" /\ rec'[c].next = rec[c].next + 1 /\ ReleaseOrphan(c)
              /\ rec'[c].ready = rec[c].ready
           \/ rec'[c].pc = "release" /\ ~rec'[c].ready
           \/ rec'[c].pc = "requeue" /\ ReleaseOrphan(c) /\ rec[c].ready
              /\ ~(rec[c].next < Len(rec[c].items))
    BY <1>1, <1>4, SweepFields DEF Back
  <2>3. i \in Nat /\ i <= Len(rec[c].items) /\ rec[c].items[i].id = d
    BY <1>1, <2>1, <2>2
  <2>4. i < rec[c].next + 1 \/ ~(rec[c].next < Len(rec[c].items))
    BY <1>1, <2>2
  <2>5. ReleaseOrphan(c) /\ rec[c].ready
    BY <1>1, <2>2
  <2>6. i < rec[c].next \/ i = rec[c].next
    <3>1. Len(rec[c].items) \in Nat
      BY <2>1
    <3> QED BY <2>1, <2>3, <2>4, <3>1
  <2>7. i # rec[c].next
    <3> SUFFICES ASSUME i = rec[c].next PROVE FALSE
      OBVIOUS
    <3>1. OrphanMsgs(c) = {MsgOf[d]}
      BY <2>3 DEF OrphanMsgs
    <3> QED BY <2>5, <3>1, SweepKeys
  <2>8. i \in DOMAIN rec[c].items
    BY <1>1, <2>2
  <2> QED BY <2>1, <2>2, <2>3, <2>5, <2>6, <2>7, <2>8 DEF Released
<1>5. ASSUME NEW o \in Consumers, CheckOwner(c, o) \/ CheckOwnerFails(c, o) PROVE FALSE
  <2>1. rec'[c].pc = rec[c].pc \/ rec'[c].pc = "read"
    BY <1>5, SweepFields
  <2>2. rec[c].pc = "visit"
    BY <1>5 DEF CheckOwner, CheckOwnerFails
  <2> QED BY <1>1, <2>1, <2>2
<1>6. \/ Start(c) \/ TouchHeartbeat(c) \/ ScanProcKeys(c) \/ ReadOrphansFails(c) \/ RequeueOrphans(c)
      \/ RequeueOrphansFails(c) \/ ScanEnd(c) \/ FlushPendingAcks(c) \/ FlushPendingAcksFails(c)
      \/ StopMaintenance(c) \/ StopEnd(c) \/ Crash(c)
      => rec'[c].pc \notin {"release", "requeue"}
  BY SweepFields DEF Back
<1> QED BY <1>1, <1>2, <1>3, <1>4, <1>5, <1>6 DEF ConsumerStep, ConsumerFault, Shutdown

\* A consumer that is going stays so.
LEMMA GoingStays ==
  ASSUME TypeOK, NEW c \in Consumers, ConsumerStep(c) \/ ConsumerFault(c) \/ Shutdown(c),
         NEW x \in Consumers, status[x] \in {"stopping", "closing", "gone"}
  PROVE  status'[x] \in {"stopping", "closing", "gone"}
<1>1. CASE x # c
  BY <1>1, LifeFrame
<1>2. CASE x = c
  BY <1>2, LifeSteps DEF ConsumerStep, ConsumerFault, Shutdown
<1> QED BY <1>1, <1>2

\* A delivery that stays behind with a stopping or dead consumer is nobody's.
LEMMA LeftBehind ==
  ASSUME TypeOK, Alive, NEW c \in Consumers, status[c] \in {"up", "stopping"}, NEW d,
         NEW x \in Consumers, rec[x].owner = c
  PROVE  ~Released(x, d)
<1>1. x = c
  BY DEF Alive, VisitsGone
<1> QED BY <1>1 DEF Alive, SweepsOwn, Sweeping, Released

LEMMA GuardedWorker ==
  ASSUME ReleaseHolds, TypeOK, UniqInv, Alive, HoldInv, Guarded,
         NEW w \in Workers, WorkerStep(w) \/ WorkerFault(w)
  PROVE  Guarded'
<1> DEFINE c == OwnerOf[w]
<1>1. /\ UNCHANGED <<status, rec>> /\ \A v \in Workers \ {w} : wk'[v] = wk[v]
      /\ \A v \in Workers \ {w} : (Busy(v)' <=> Busy(v)) /\ Hand(v)' = Hand(v)
      /\ Busy(w)' => \/ Busy(w) /\ wk[w].pc # "book" /\ Hand(w)' = Hand(w)
                     \/ ~Busy(w) /\ Blmove(w) /\ Hand(w)' = Head(main).id /\ wk'[w].pc = "claim"
  BY HandMoves
<1>2. c \in Consumers
  BY ConstantsAssumption DEF ConstantsAssumption
<1>3. /\ settled \subseteq settled'
      /\ procKey' \subseteq procKey \cup {m \in {Msg(w)} : wk[w].pc = "dedup" /\ wk'[w].pc = "work"}
      /\ wk[w].pc = "release" => Msg(w) \notin procKey'
      /\ \A x \in Consumers \ {c} : pend'[x] = pend[x]
      /\ pend'[c] \subseteq pend[c] \cup {r \in {wk[w].raw} : wk[w].pc = "book" /\ wk[w].out = "ok"}
  BY WorkerKeys
<1>4. Msg(w) = MsgOf[Hand(w)] /\ (Busy(w) => Hand(w) \in Deliveries)
  BY HeldType DEF Msg, Hand, Busy, TypeOK
<1> SUFFICES ASSUME NEW m \in procKey' \ settled'
             PROVE  \E d \in Deliveries :
                      MsgOf[d] = m /\ (InHand(d)' \/ \E x \in Consumers : Stranded(d, x)')
  BY DEF Guarded
<1>5. CASE m \notin procKey
  <2>1. m = Msg(w) /\ wk[w].pc = "dedup" /\ wk'[w].pc = "work"
    BY <1>3, <1>5
  <2>2. Busy(w) /\ Busy(w)' /\ Hand(w)' = Hand(w)
    BY <1>1, <2>1 DEF Busy
  <2>3. InHand(Hand(w))'
    BY <2>1, <2>2 DEF InHand
  <2> QED BY <1>4, <2>1, <2>2, <2>3
<1>6. CASE m \in procKey
  <2>1. PICK d \in Deliveries : MsgOf[d] = m /\ (InHand(d) \/ \E x \in Consumers : Stranded(d, x))
    BY <1>3, <1>6 DEF Guarded
  <2>2. ASSUME NEW v \in Workers, Busy(v), Hand(v) = d,
               \/ wk[v].pc \in {"work", "send", "release"}
               \/ wk[v].pc \in {"unlock", "book"} /\ wk[v].out = "cancel"
        PROVE  InHand(d)' \/ Stranded(d, c)'
    <3>1. CASE v # w
      BY <1>1, <2>2, <3>1 DEF InHand
    <3>2. CASE v = w /\ wk[w].pc # "book"
      <4>1. Msg(w) = m
        BY <1>4, <2>1, <2>2, <3>2
      <4>2. wk[w].pc # "release" /\ m \notin settled'
        BY <1>3, <4>1
      <4>3. \/ wk'[w].pc \in {"send", "release"}
            \/ wk'[w].pc = "book" /\ wk'[w].out = "cancel"
        BY <2>2, <3>2, <4>1, <4>2, WorkerMoves
      <4>4. Busy(w)' /\ Hand(w)' = d
        BY <1>1, <2>2, <3>2, <4>3 DEF Busy
      <4> QED BY <4>3, <4>4 DEF InHand
    <3>3. CASE v = w /\ wk[w].pc = "book"
      <4>1. wk[w].out = "cancel" /\ status[c] = "stopping" /\ d \notin Unreadable /\ d \in Ids(proc[c])
        BY <2>2, <3>3 DEF HoldInv, CancelStops, ReadableIn, Handed
      <4>2. d \in Ids(proc'[c])
        BY <3>3, <4>1, WorkerIds
      <4>3. ~Held(d)'
        BY <1>1, <2>2, <3>3 DEF Held, HoldInv, OneHand, Busy
      <4>4. ~Owed(c, d)'
        <5>1. Held(d) /\ pend'[c] \subseteq pend[c]
          BY <1>3, <2>2, <3>3, <4>1 DEF Held
        <5>2. ~(d \in IdsOf(pend[c]))
          BY <1>2, <4>1, <5>1 DEF HoldInv, PendApart
        <5> QED BY <5>1, <5>2 DEF Owed, IdsOf
      <4>5. \A x \in Consumers : rec'[x].owner = c => ~Released(x, d)'
        <5>1. \A x \in Consumers : rec[x].owner = c => ~Released(x, d)
          BY <1>2, <4>1, LeftBehind
        <5> QED BY <1>1, <5>1 DEF Released
      <4> QED BY <1>1, <4>1, <4>2, <4>3, <4>4, <4>5 DEF Stranded
    <3> QED BY <3>1, <3>2, <3>3
  <2>3. ASSUME NEW y \in Consumers, Stranded(d, y) PROVE Stranded(d, y)'
    <3>1. /\ d \in Ids(proc[y]) \ Unreadable /\ status[y] \in {"stopping", "closing", "gone"}
          /\ ~Held(d) /\ ~Owed(y, d) /\ \A x \in Consumers : rec[x].owner = y => ~Released(x, d)
      BY <2>3 DEF Stranded
    <3>2. d \in Ids(proc'[y])
      BY <1>2, <3>1, WorkerIds DEF Held, Busy
    <3>3. d \notin Ids(main)
      BY <3>1, OnlyThere
    <3>4. ~Held(d)'
      BY <3>1, <3>3, HeldMoves, Taken
    <3>5. ~Owed(y, d)'
      <4>1. ASSUME NEW r \in pend'[y], r.id = d PROVE FALSE
        <5>1. r \in pend[y] \/ (r = wk[w].raw /\ wk[w].pc = "book")
          BY <1>3, <4>1
        <5>2. r \notin pend[y]
          BY <3>1, <4>1 DEF Owed, IdsOf
        <5> QED BY <3>1, <4>1, <5>1, <5>2 DEF Held, Busy, Hand
      <4> QED BY <4>1 DEF Owed, IdsOf
    <3>6. \A x \in Consumers : rec'[x].owner = y => ~Released(x, d)'
      BY <1>1, <3>1 DEF Released
    <3> QED BY <1>1, <3>1, <3>2, <3>4, <3>5, <3>6 DEF Stranded
  <2> QED BY <1>2, <2>1, <2>2, <2>3 DEF InHand
<1> QED BY <1>5, <1>6

LEMMA GuardedConsumer ==
  ASSUME TypeOK, UniqInv, Alive, HoldInv, Guarded, NEW c \in Consumers,
         ConsumerStep(c) \/ ConsumerFault(c) \/ Shutdown(c)
  PROVE  Guarded'
<1>1. settled' = settled /\ procKey' \subseteq procKey
  BY SweepKeys
<1>2. \A x \in Consumers \ {c} : status'[x] = status[x] /\ pend'[x] = pend[x] /\ rec'[x] = rec[x]
  BY LifeFrame, OwnSweep
<1>3. /\ \A v \in Workers : Busy(v)' => Busy(v) /\ Hand(v)' = Hand(v)
      /\ \A d : Held(d)' => Held(d)
  BY ShutHeld
<1> SUFFICES ASSUME NEW m \in procKey' \ settled'
             PROVE  \E d \in Deliveries :
                      MsgOf[d] = m /\ (InHand(d)' \/ \E x \in Consumers : Stranded(d, x)')
  BY DEF Guarded
<1>4. PICK d \in Deliveries : MsgOf[d] = m /\ (InHand(d) \/ \E x \in Consumers : Stranded(d, x))
  BY <1>1 DEF Guarded
<1>5. ASSUME NEW v \in Workers, Busy(v), Hand(v) = d,
             \/ wk[v].pc \in {"work", "send", "release"}
             \/ wk[v].pc \in {"unlock", "book"} /\ wk[v].out = "cancel"
      PROVE  InHand(d)' \/ Stranded(d, c)'
  <2>1. CASE wk'[v] = wk[v]
    BY <1>5, <2>1 DEF InHand, Busy, Hand
  <2>2. CASE wk'[v].raw = wk[v].raw /\ wk'[v].out = "cancel" /\ wk'[v].pc \in {"release", "unlock"}
    BY <1>5, <2>2 DEF InHand, Busy, Hand
  <2>3. CASE StopWorkers(c) /\ OwnerOf[v] = c /\ wk[v].pc \notin {"work", "send", "release"}
    <3>1. status[c] = "stopping" /\ status[c] = "up"
      BY <1>5, <2>3, LifeSteps DEF HoldInv, CancelStops
    <3> QED BY <3>1
  <2>4. CASE Crash(c) /\ OwnerOf[v] = c /\ wk'[v] = IdleWorker
    <3>1. d \in Ids(proc[c]) /\ d \notin Unreadable
      BY <1>5, <2>4 DEF HoldInv, Handed, ReadableIn, Section
    <3>2. proc' = proc /\ status'[c] = "gone" /\ pend'[c] = {} /\ status[c] \in Running
      BY <2>4, LifeSteps DEF Crash
    <3>3. ~Held(d)'
      <4> SUFFICES ASSUME NEW u \in Workers, Busy(u)', Hand(u)' = d PROVE FALSE
        BY DEF Held
      <4>1. u = v
        BY <1>3, <1>5 DEF HoldInv, OneHand
      <4> QED BY <2>4, <4>1 DEF Busy, IdleWorker
    <3>4. ~Owed(c, d)'
      BY <3>2 DEF Owed, IdsOf
    <3>5. ASSUME NEW x \in Consumers, rec'[x].owner = c PROVE ~Released(x, d)'
      <4>1. CASE x = c
        BY <2>4, <4>1, SweepFields DEF Released, Anew
      <4>2. CASE x # c
        BY <1>2, <3>2, <3>5, <4>2 DEF Alive, VisitsGone, Running
      <4> QED BY <4>1, <4>2
    <3> QED BY <3>1, <3>2, <3>3, <3>4, <3>5 DEF Stranded
  <2> QED BY <2>1, <2>2, <2>3, <2>4, ShutHands
<1>6. ASSUME NEW y \in Consumers, Stranded(d, y) PROVE Stranded(d, y)'
  <2>1. /\ d \in Ids(proc[y]) \ Unreadable /\ status[y] \in {"stopping", "closing", "gone"}
        /\ ~Held(d) /\ ~Owed(y, d) /\ \A x \in Consumers : rec[x].owner = y => ~Released(x, d)
    BY <1>6 DEF Stranded
  <2>2. d \in Ids(proc'[y])
    <3> SUFFICES ASSUME d \notin Ids(proc'[y]) PROVE FALSE
      OBVIOUS
    <3>1. \/ rec[c].pc = "requeue" /\ rec[c].owner = y /\ d \in Ids(rec[c].items)
          \/ y = c /\ Owed(c, d)
      BY <2>1, SweepFree
    <3>2. rec[c].pc = "requeue" /\ d \in Ids(rec[c].items) => Released(c, d)
      BY DEF Released, Ids
    <3> QED BY <2>1, <3>1, <3>2
  <2>3. status'[y] \in {"stopping", "closing", "gone"}
    BY <2>1, GoingStays
  <2>4. ~Owed(y, d)'
    <3>1. pend'[y] \subseteq pend[y]
      BY <1>2, SweepIds
    <3> QED BY <2>1, <3>1 DEF Owed, IdsOf
  <2>5. ASSUME NEW x \in Consumers, rec'[x].owner = y PROVE ~Released(x, d)'
    <3>1. CASE x # c
      BY <1>2, <2>1, <2>5, <3>1 DEF Released
    <3>2. CASE x = c
      <4> SUFFICES ASSUME Released(c, d)' PROVE FALSE
        BY <3>2
      <4>1. d \in Deliveries \ Unreadable /\ MsgOf[d] \in procKey'
        BY <1>4, <2>1
      <4>2. rec'[c].owner = rec[c].owner /\ Released(c, d)
        BY <4>1, SweepReleased
      <4> QED BY <2>1, <2>5, <3>2, <4>2
    <3> QED BY <3>1, <3>2
  <2> QED BY <1>3, <2>1, <2>2, <2>3, <2>4, <2>5 DEF Stranded
<1> QED BY <1>4, <1>5, <1>6 DEF InHand

\* A delivery that guards a processing key is itself not about to be acknowledged.
LEMMA GuardSafe ==
  ASSUME TypeOK, UniqInv, Alive, HoldInv, NEW f \in Deliveries,
         InHand(f) \/ \E y \in Consumers : Stranded(f, y)
  PROVE  /\ Safe(f)
         /\ \A w \in Workers : wk[w].pc = "dedup" => Hand(w) # f
<1>0. \A w \in Workers : OwnerOf[w] \in Consumers
  BY ConstantsAssumption DEF ConstantsAssumption
<1>1. CASE InHand(f)
  <2>1. PICK v \in Workers :
          /\ Busy(v) /\ Hand(v) = f
          /\ \/ wk[v].pc \in {"work", "send", "release"}
             \/ wk[v].pc \in {"unlock", "book"} /\ wk[v].out = "cancel"
    BY <1>1 DEF InHand
  <2>2. \A u \in Workers : Busy(u) /\ Hand(u) = f => u = v
    BY <2>1 DEF HoldInv, OneHand
  <2>3. f \in Ids(proc[OwnerOf[v]])
    BY <2>1 DEF HoldInv, Handed
  <2>4. Present(f)
    BY <1>0, <2>3, OnlyThere
  <2>5. \A u \in Workers : ~(wk[u].pc \in {"unlock", "book"} /\ wk[u].out = "ok" /\ Hand(u) = f)
    BY <2>1, <2>2 DEF Busy
  <2>6. \A w \in Workers : wk[w].pc = "dedup" => Hand(w) # f
    BY <2>1, <2>2 DEF Busy
  <2>7. ASSUME NEW x \in Consumers, Owed(x, f), f \in Ids(proc[x]) PROVE FALSE
    <3>1. x = OwnerOf[v]
      BY <1>0, <2>3, <2>7, OnlyThere
    <3>2. Held(f)
      BY <2>1 DEF Held
    <3>3. status[x] \notin {"up", "stopping"}
      BY <2>7, <3>2 DEF HoldInv, PendApart, Owed
    <3>4. Quiet(x)
      BY <3>3 DEF Alive, QuietOut
    <3> QED BY <2>1, <3>1, <3>4 DEF Quiet, WorkersOf, Busy
  <2> QED BY <2>4, <2>5, <2>6, <2>7 DEF Safe, Doomed
<1>2. ASSUME NEW y \in Consumers, Stranded(f, y)
      PROVE  Safe(f) /\ \A w \in Workers : wk[w].pc = "dedup" => Hand(w) # f
  <2>1. f \in Ids(proc[y]) /\ ~Held(f) /\ ~Owed(y, f)
    BY <1>2 DEF Stranded
  <2>2. Present(f)
    BY <2>1, OnlyThere
  <2>3. \A w \in Workers : wk[w].pc # "idle" => Hand(w) # f
    BY <2>1 DEF Held, Busy
  <2>4. \A x \in Consumers : ~(Owed(x, f) /\ f \in Ids(proc[x]))
    BY <2>1, OnlyThere
  <2> QED BY <2>2, <2>3, <2>4 DEF Safe, Doomed
<1> QED BY <1>1, <1>2

\* A step of a worker puts at risk only the delivery it refuses as a duplicate.
LEMMA RiskWorker ==
  ASSUME TypeOK, UniqInv, Alive, HoldInv, DoneSettled,
         NEW w \in Workers, WorkerStep(w) \/ WorkerFault(w),
         NEW f \in Deliveries, Safe(f), ~Safe(f)', MsgOf[f] \notin settled'
  PROVE  wk[w].pc = "dedup" /\ Hand(w) = f /\ MsgOf[f] \in procKey
<1> DEFINE c == OwnerOf[w]
<1>0. c \in Consumers
  BY ConstantsAssumption DEF ConstantsAssumption
<1>1. /\ \A v \in Workers \ {w} : wk'[v] = wk[v]
      /\ \A v \in Workers \ {w} : Hand(v)' = Hand(v)
      /\ Busy(w)' => \/ Busy(w) /\ wk[w].pc # "book" /\ Hand(w)' = Hand(w)
                     \/ ~Busy(w) /\ wk'[w].pc = "claim"
  BY HandMoves
<1>2. /\ settled \subseteq settled'
      /\ \A x \in Consumers \ {c} : pend'[x] = pend[x]
      /\ pend'[c] \subseteq pend[c] \cup {r \in {wk[w].raw} : wk[w].pc = "book" /\ wk[w].out = "ok"}
  BY WorkerKeys
<1>3. Present(f) /\ ~Doomed(f)
  BY DEF Safe
<1>4. ~(wk[w].pc = "book" /\ wk[w].out = "ok" /\ Hand(w) = f)
  BY <1>3 DEF Doomed
<1>5. Present(f)'
  BY <1>0, <1>3, <1>4, WorkerIds DEF Present
<1>6. ASSUME NEW x \in Consumers, Owed(x, f)', f \in Ids(proc'[x]) PROVE FALSE
  <2>1. Owed(x, f)
    <3>1. PICK r \in pend'[x] : r.id = f
      BY <1>6 DEF Owed, IdsOf
    <3>2. r \in pend[x] \/ (r = wk[w].raw /\ wk[w].pc = "book" /\ wk[w].out = "ok")
      BY <1>2, <3>1
    <3>3. r \in pend[x]
      BY <1>4, <3>1, <3>2 DEF Hand
    <3> QED BY <3>1, <3>3 DEF Owed, IdsOf
  <2>2. f \notin Ids(proc[x])
    BY <1>3, <2>1 DEF Doomed
  <2>3. x = c /\ status[c] = "up" /\ f \in Ids(main)
    BY <1>6, <2>2, WorkerIds
  <2> QED BY <1>0, <2>1, <2>3 DEF HoldInv, PendApart, Owed
<1>7. PICK v \in Workers : wk'[v].pc \in {"unlock", "book"} /\ wk'[v].out = "ok" /\ Hand(v)' = f
  BY <1>5, <1>6 DEF Safe, Doomed
<1>8. v = w
  BY <1>1, <1>3, <1>7 DEF Doomed
<1>9. Busy(w)' /\ Hand(w) = f /\ Busy(w)
  BY <1>1, <1>7, <1>8 DEF Busy
<1>10. Msg(w) = MsgOf[f] /\ Msg(w) \notin settled
  BY <1>2, <1>9 DEF Msg, Hand
<1>11. wk[w].pc \notin {"mark", "post"} /\ ~(wk[w].pc = "release" /\ wk[w].out = "ok")
  BY <1>10 DEF DoneSettled
<1>12. ~(wk[w].pc = "unlock" /\ wk[w].out = "ok")
  BY <1>3, <1>9 DEF Doomed
<1>13. wk[w].pc = "dedup" /\ Msg(w) \in doneKey \cup procKey
  <2>1. /\ wk'[w].pc \in {"unlock", "book"} /\ wk'[w].out = "ok"
        /\ wk[w].pc \notin {"idle", "book"} /\ Msg(w) \notin settled'
    BY <1>1, <1>7, <1>8, <1>9, <1>10 DEF Busy
  <2>2. \/ wk[w].pc = "dedup" /\ Msg(w) \in doneKey \cup procKey
        \/ wk[w].pc \in {"mark", "post"}
        \/ wk[w].pc \in {"release", "unlock"} /\ wk[w].out = "ok"
    BY <2>1, WorkerMoves
  <2> QED BY <1>11, <1>12, <2>2
<1> QED BY <1>9, <1>10, <1>13 DEF DoneSettled

LEMMA KeptWorker ==
  ASSUME TypeOK, UniqInv, Alive, HoldInv, DoneSettled, Guarded, Kept,
         NEW w \in Workers, WorkerStep(w) \/ WorkerFault(w)
  PROVE  Kept'
<1>1. enq' = enq /\ settled \subseteq settled'
  BY HandMoves, WorkerKeys
<1> SUFFICES ASSUME NEW d \in Elems(enq), MsgOf[d] \notin settled'
             PROVE  \E e \in Deliveries : MsgOf[e] = MsgOf[d] /\ Safe(e)'
  BY <1>1 DEF Kept
<1>2. PICK e \in Deliveries : MsgOf[e] = MsgOf[d] /\ Safe(e)
  BY <1>1 DEF Kept
<1>3. CASE Safe(e)'
  BY <1>2, <1>3
<1>4. CASE ~Safe(e)'
  <2>1. wk[w].pc = "dedup" /\ Hand(w) = e /\ MsgOf[d] \in procKey \ settled
    BY <1>1, <1>2, <1>4, RiskWorker
  <2>2. PICK f \in Deliveries :
          MsgOf[f] = MsgOf[d] /\ (InHand(f) \/ \E y \in Consumers : Stranded(f, y))
    BY <2>1 DEF Guarded
  <2>3. Safe(f) /\ Hand(w) # f
    BY <2>1, <2>2, GuardSafe
  <2>4. Safe(f)'
    BY <2>2, <2>3, RiskWorker
  <2> QED BY <2>2, <2>4
<1> QED BY <1>3, <1>4

LEMMA KeptConsumer ==
  ASSUME TypeOK, UniqInv, Alive, HoldInv, Kept, NEW c \in Consumers,
         ConsumerStep(c) \/ ConsumerFault(c) \/ Shutdown(c)
  PROVE  Kept'
<1>1. settled' = settled /\ enq' = enq /\ dead' = dead
  BY SweepKeys, SweepIds, LifeFrame
<1>2. \A x \in Consumers : pend'[x] \subseteq pend[x]
  BY LifeFrame, SweepIds
<1>3. \A x \in Consumers : Ids(proc'[x]) \subseteq Ids(proc[x])
  BY SweepIds
<1>4. Ids(main) \subseteq Ids(main')
  BY SweepIds
<1>5. ASSUME NEW e \in Deliveries, Safe(e) PROVE Safe(e)'
  <2>1. Present(e) /\ ~Doomed(e)
    BY <1>5 DEF Safe
  <2>2. Present(e)'
    <3>1. CASE e \in dead \/ e \in Ids(main)
      BY <1>1, <1>4, <3>1 DEF Present
    <3>2. ASSUME NEW x \in Consumers, e \in Ids(proc[x]), e \notin Ids(proc'[x]) PROVE Present(e)'
      <4>1. ~(x = c /\ Owed(c, e))
        BY <2>1, <3>2 DEF Doomed
      <4>2. e \in Ids(main')
        BY <3>2, <4>1, SweepFree
      <4> QED BY <4>2 DEF Present
    <3> QED BY <2>1, <3>1, <3>2 DEF Present
  <2>3. \A v \in Workers : ~(wk'[v].pc \in {"unlock", "book"} /\ wk'[v].out = "ok" /\ Hand(v)' = e)
    <3> SUFFICES ASSUME NEW v \in Workers,
                        wk'[v].pc \in {"unlock", "book"}, wk'[v].out = "ok", Hand(v)' = e
                 PROVE  FALSE
      OBVIOUS
    <3>1. wk'[v] = wk[v]
      BY ShutHands DEF IdleWorker
    <3> QED BY <2>1, <3>1 DEF Doomed, Hand
  <2>4. \A x \in Consumers : ~(Owed(x, e)' /\ e \in Ids(proc'[x]))
    BY <1>2, <1>3, <2>1 DEF Doomed, Owed, IdsOf
  <2> QED BY <2>2, <2>3, <2>4 DEF Safe, Doomed
<1> QED BY <1>1, <1>5 DEF Kept

\* A delivery just enqueued is in main, and nobody works on it or owes its ack.
LEMMA KeptEnqueue ==
  ASSUME TypeOK, UniqInv, HoldInv, Kept, NEW d \in Deliveries, Enqueue(d)
  PROVE  Kept'
<1>1. /\ d \notin Elems(enq) /\ Elems(enq') = Elems(enq) \cup {d}
      /\ Ids(main') = Ids(main) \cup {d}
      /\ UNCHANGED <<proc, dead, pend, wk, settled>>
  BY EnqueueIds
<1>2. \A w \in Workers : OwnerOf[w] \in Consumers
  BY ConstantsAssumption DEF ConstantsAssumption
<1>3. \A x \in Consumers : d \notin Ids(proc[x])
  BY <1>1, OnlyThere
<1>4. \A w \in Workers : Busy(w) => Hand(w) # d
  BY <1>2, <1>3 DEF HoldInv, Handed
<1>5. ~Doomed(d)
  BY <1>3, <1>4 DEF Doomed, Busy
<1>6. \A e : Doomed(e)' <=> Doomed(e)
  BY <1>1 DEF Doomed, Owed, Hand
<1>7. Safe(d)'
  BY <1>1, <1>5, <1>6 DEF Safe, Present
<1>8. \A e : Safe(e) => Safe(e)'
  BY <1>1, <1>6 DEF Safe, Present
<1> QED BY <1>1, <1>7, <1>8 DEF Kept

\* Steps that move nothing and take processing keys away at most.
LEMMA LossIdle ==
  ASSUME UNCHANGED <<main, proc, dead, pend, status, wk, rec, enq, settled>>, procKey' \subseteq procKey
  PROVE  (Guarded => Guarded') /\ (Kept => Kept')
<1>1. /\ \A d : InHand(d)' <=> InHand(d)
      /\ \A d : \A c \in Consumers : Stranded(d, c)' <=> Stranded(d, c)
  BY DEF InHand, Stranded, Held, Busy, Hand, Owed, Released
<1>2. \A d : Safe(d)' <=> Safe(d)
  BY DEF Safe, Present, Doomed, Owed, Hand
<1> QED BY <1>1, <1>2 DEF Guarded, Kept

LEMMA GuardedEnqueue ==
  ASSUME TypeOK, Guarded, NEW d \in Deliveries, Enqueue(d)
  PROVE  Guarded'
<1>1. UNCHANGED <<proc, dead, pend, procKey, status, wk, rec, settled>>
  BY EnqueueIds
<1>2. /\ \A e : InHand(e)' <=> InHand(e)
      /\ \A e : \A c \in Consumers : Stranded(e, c)' <=> Stranded(e, c)
  BY <1>1 DEF InHand, Stranded, Held, Busy, Hand, Owed, Released
<1> QED BY <1>1, <1>2 DEF Guarded

LEMMA LossStep ==
  ASSUME HeartbeatHolds, ReleaseHolds
  PROVE  TypeOK /\ UniqInv /\ Alive /\ LossInv /\ [Next]_vars => LossInv'
<1> SUFFICES ASSUME TypeOK, UniqInv, Alive, LossInv, [Next]_vars PROVE LossInv'
  OBVIOUS
<1>1. HoldInv /\ DoneSettled /\ Guarded /\ Kept
  BY DEF LossInv
<1>2. HoldInv' /\ DoneSettled'
  BY <1>1, HoldStep, DoneSettledStep
<1>3. ASSUME UNCHANGED vars PROVE Guarded' /\ Kept'
  <2>1. /\ UNCHANGED <<main, proc, dead, pend, status, wk, rec, enq, settled>>
        /\ procKey' = procKey
    BY <1>3 DEF vars
  <2> QED BY <1>1, <2>1, LossIdle
<1>4. ASSUME NEW d \in Deliveries, Enqueue(d) PROVE Guarded' /\ Kept'
  BY <1>1, <1>4, GuardedEnqueue, KeptEnqueue
<1>5. ASSUME NEW w \in Workers, WorkerStep(w) \/ WorkerFault(w) PROVE Guarded' /\ Kept'
  BY <1>1, <1>5, GuardedWorker, KeptWorker
<1>6. ASSUME NEW c \in Consumers, ConsumerStep(c) \/ ConsumerFault(c) \/ Shutdown(c)
      PROVE  Guarded' /\ Kept'
  BY <1>1, <1>6, GuardedConsumer, KeptConsumer
<1>7. ASSUME NEW c \in Consumers, HeartbeatExpire(c) \/ HeartbeatLapse(c) PROVE Guarded' /\ Kept'
  BY <1>1, <1>7, EnvironmentFrame, LossIdle
<1>8. ASSUME NEW u \in Users, LockExpire(u) \/ LockLapse(u) PROVE Guarded' /\ Kept'
  BY <1>1, <1>8, EnvironmentFrame, LossIdle
<1>9. ASSUME NEW m \in Msgs, ProcKeyExpire(m) \/ ProcKeyLapse(m) \/ DoneKeyLapse(m)
      PROVE  Guarded' /\ Kept'
  BY <1>1, <1>9, EnvironmentFrame, LossIdle
<1>10. ASSUME Next PROVE Guarded' /\ Kept'
  BY <1>4, <1>5, <1>6, <1>7, <1>8, <1>9, <1>10 DEF Next
<1> QED BY <1>2, <1>3, <1>10 DEF LossInv

LEMMA LossInit == Init => LossInv
<1> SUFFICES ASSUME Init PROVE LossInv
  OBVIOUS
<1>1. HoldInv
  BY HoldInit
<1>2. \A w \in Workers : wk[w].pc = "idle"
  BY DEF Init, IdleWorker
<1>3. DoneSettled
  BY <1>2 DEF Init, DoneSettled
<1>4. Guarded
  BY DEF Init, Guarded
<1>5. Kept
  <2>1. Elems(enq) = {}
    BY DEF Init, Elems
  <2> QED BY <2>1 DEF Kept
<1> QED BY <1>1, <1>3, <1>4, <1>5 DEF LossInv

\* An undecided message that was enqueued is still listed.
LEMMA LossInvSafe == LossInv => NoSilentLoss
<1> SUFFICES ASSUME LossInv, NEW i \in DOMAIN enq, MsgOf[enq[i]] \notin settled
             PROVE  \E d \in Deliveries : MsgOf[d] = MsgOf[enq[i]] /\ Present(d)
  BY DEF NoSilentLoss
<1>1. enq[i] \in Elems(enq)
  BY DEF Elems
<1> QED BY <1>1 DEF LossInv, Kept, Safe

\* Messages survive restarts and crashes: a delivery leaves the lists only when
\* process() has decided about its msgid (replied, had nothing to say, or saw the
\* send fail), whatever else Redis refuses and whichever process dies or stops in
\* between.  It needs that the heartbeat of a live process does not lapse, or a
\* sweep returns what a worker still works on, the mark of the running turn refuses
\* the redelivery, and the crash of that turn loses the message; and that the
\* release_processing of a turn does not raise: process() ignores its result, and
\* the key that stays makes the retry a duplicate, which is acknowledged.
THEOREM NoSilentLossHolds ==
  ASSUME HeartbeatHolds, ReleaseHolds
  PROVE  Spec => []NoSilentLoss
<1>1. Init => LossInv
  BY LossInit
<1>2. TypeOK /\ UniqInv /\ Alive /\ LossInv /\ [Next]_vars => LossInv'
  BY LossStep
<1>3. LossInv => NoSilentLoss
  BY LossInvSafe
<1>4. Spec => [](TypeOK /\ UniqInv /\ Alive)
  BY AliveInvariant
<1> QED BY <1>1, <1>2, <1>3, <1>4, PTL DEF Spec

=============================================================================
