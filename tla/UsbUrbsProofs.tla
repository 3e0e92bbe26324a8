--------------------------- MODULE UsbUrbsProofs ---------------------------
(***************************************************************************)
(* Proofs about UsbUrbs, for transfers of any type and length, any size of *)
(* a URB and any number of failures: when a transfer is reported nothing   *)
(* of it is outstanding, its status is what happened first, a cancellation *)
(* that returns 0 is reported as one and no other is, isochronous results  *)
(* stay with their packets, and step by step the transfer does what        *)
(* UsbTransfer promises.                                                   *)
(*                                                                         *)
(* The invariants are stacked: UrbsInv counts the URBs and keeps the list  *)
(* of those to be reaped, Delivered says where the data is, TroubleInv     *)
(* what the URBs tell of what happened, and CancelInv and IsoInv add to    *)
(* UrbsInv what a cancellation and the results of packets need.            *)
(***************************************************************************)
EXTENDS UsbUrbs, FiniteSetTheorems, SequenceTheorems, NaturalsInduction, WellFoundedInduction, TLAPS

-----------------------------------------------------------------------------
\* --- lists of indices --------------------------------------------------------

\* Ascending lists every element once, the lesser ones first.
LEMMA AscendingLists ==
  ASSUME NEW S \in SUBSET Nat, IsFiniteSet(S)
  PROVE  /\ Ascending(S) \in Seq(S) /\ Len(Ascending(S)) = Cardinality(S)
         /\ \A p, q \in 1..Cardinality(S) : p < q => Ascending(S)[p] < Ascending(S)[q]
         /\ IsInjective(Ascending(S)) /\ Range(Ascending(S)) = S
<1> DEFINE n == Cardinality(S)
           below(i) == {j \in S : j =< i}
           rank == [i \in S |-> Cardinality(below(i))]
           Sorted(s) == \A p, q \in 1..n : p < q => s[p] < s[q]
<1>0. \A i \in S : i \in Nat
  OBVIOUS
<1>1. n \in Nat /\ IsFiniteSet(1..n) /\ Cardinality(1..n) = n
  BY FS_CardinalityType, FS_Interval
<1>2. \A i \in S : IsFiniteSet(below(i)) /\ Cardinality(below(i)) \in 1..n
  <2> SUFFICES ASSUME NEW i \in S PROVE IsFiniteSet(below(i)) /\ Cardinality(below(i)) \in 1..n
    OBVIOUS
  <2>1. below(i) \in SUBSET S /\ i \in below(i)
    OBVIOUS
  <2>2. IsFiniteSet(below(i)) /\ Cardinality(below(i)) =< n /\ Cardinality(below(i)) \in Nat
    BY <2>1, FS_Subset, FS_CardinalityType
  <2>3. Cardinality(below(i)) # 0
    BY <2>1, <2>2, FS_EmptySet
  <2> QED
    BY <2>2, <2>3, <1>1
<1>3. \A i, j \in S : i < j => Cardinality(below(i)) < Cardinality(below(j))
  <2> SUFFICES ASSUME NEW i \in S, NEW j \in S, i < j
               PROVE  Cardinality(below(i)) < Cardinality(below(j))
    OBVIOUS
  <2>1. below(i) \in SUBSET below(j) /\ j \in below(j) /\ j \notin below(i)
    <3>1. i \in Nat /\ j \in Nat /\ \A k \in S : k \in Nat
      BY <1>0
    <3>2. \A k \in S : k =< i => k =< j
      BY <3>1
    <3>3. j =< j /\ ~(j =< i)
      BY <3>1
    <3> QED
      BY <3>2, <3>3
  <2>2. Cardinality(below(i)) =< Cardinality(below(j)) /\ Cardinality(below(i)) # Cardinality(below(j))
    BY <1>2, <2>1, FS_Subset
  <2> QED
    BY <1>2, <2>2
<1>4. rank \in [S -> 1..n] /\ \A i, j \in S : i < j => rank[i] < rank[j]
  BY <1>2, <1>3
<1> HIDE DEF rank, below, n
<1>5. rank \in Injection(S, 1..n)
  <2>1. \A i, j \in S : rank[i] = rank[j] => i = j
    BY <1>4
  <2> QED
    BY <1>4, <2>1 DEF Injection, IsInjective
<1>6. rank \in Surjection(S, 1..n)
  BY <1>1, <1>5, FS_Injection DEF n
<1>7. \E s \in [1..n -> S] : Sorted(s)
  <2> DEFINE s == [p \in 1..n |-> CHOOSE i \in S : rank[i] = p]
  <2>1. \A p \in 1..n : s[p] \in S /\ rank[s[p]] = p
    BY <1>6 DEF Surjection
  <2>2. s \in [1..n -> S]
    BY <2>1
  <2> HIDE DEF s
  <2>3. Sorted(s)
    <3> SUFFICES ASSUME NEW p \in 1..n, NEW q \in 1..n, p < q, ~(s[p] < s[q]) PROVE FALSE
      OBVIOUS
    <3>1. s[p] \in S /\ s[q] \in S /\ rank[s[p]] = p /\ rank[s[q]] = q
      BY <2>1
    <3>1a. s[p] \in Nat /\ s[q] \in Nat
      BY <1>0, <3>1
    <3>2. s[p] = s[q] \/ s[q] < s[p]
      BY <3>1a
    <3>3. q < p \/ p = q
      BY <1>4, <3>1, <3>2
    <3> QED
      BY <1>1, <3>3
  <2> QED
    BY <2>2, <2>3
<1>8. Ascending(S) \in [1..n -> S] /\ Sorted(Ascending(S))
  BY <1>7 DEF Ascending, n
<1> DEFINE a == Ascending(S)
<1>9. a \in Seq(S) /\ Len(a) = n /\ DOMAIN a = 1..n
  BY <1>1, <1>8
<1>8a. \A p, q \in 1..n : p < q => a[p] < a[q]
  BY <1>8
<1>8b. \A p \in 1..n : a[p] \in Nat
  BY <1>0, <1>8
<1> HIDE DEF a, Sorted
<1>10. \A p, q \in 1..n : a[p] = a[q] => p = q
  <2> SUFFICES ASSUME NEW p \in 1..n, NEW q \in 1..n, a[p] = a[q], p # q PROVE FALSE
    OBVIOUS
  <2>1. p < q \/ q < p
    BY <1>1
  <2>2. a[p] < a[q] \/ a[q] < a[p]
    BY <1>8a, <2>1
  <2> QED
    BY <1>8b, <2>2
<1>11. a \in Surjection(1..n, S)
  <2>1. a \in Injection(1..n, S)
    BY <1>8, <1>10 DEF Injection, IsInjective, a
  <2> QED
    BY <1>1, <2>1, FS_Injection DEF n
<1>12. IsInjective(a)
  BY <1>9, <1>10 DEF IsInjective
<1>13. Range(a) = S
  <2>1. \A x \in S : \E p \in 1..n : a[p] = x
    BY <1>11 DEF Surjection
  <2>2. \A p \in 1..n : a[p] \in S
    BY <1>9
  <2> QED
    BY <1>9, <2>1, <2>2 DEF Range
<1> QED
  BY <1>8a, <1>9, <1>12, <1>13 DEF a, n

\* Descending lists the same, the other way round.
LEMMA DescendingLists ==
  ASSUME NEW S \in SUBSET Nat, IsFiniteSet(S)
  PROVE  /\ Descending(S) \in Seq(S)
         /\ IsInjective(Descending(S)) /\ Range(Descending(S)) = S
<1> DEFINE a == Ascending(S)
           d == Descending(S)
           n == Len(a)
<1>1. a \in Seq(S) /\ IsInjective(a) /\ Range(a) = S
  BY AscendingLists
<1> HIDE DEF a
<1>2. d = [i \in 1..n |-> a[n - i + 1]]
  BY DEF Descending, Reverse, a
<1>3. n \in Nat /\ DOMAIN a = 1..n /\ \A i \in 1..n : a[i] \in S
  BY <1>1
<1> HIDE DEF n
<1>4. \A i \in 1..n : n - i + 1 \in 1..n
  BY <1>3
<1>5. DOMAIN d = 1..n /\ d \in [1..n -> S] /\ \A i \in 1..n : d[i] = a[n - i + 1]
  BY <1>2, <1>3, <1>4
<1> HIDE DEF d
<1>6. d \in Seq(S)
  BY <1>3, <1>5
<1>7. IsInjective(d)
  <2> SUFFICES ASSUME NEW i \in 1..n, NEW j \in 1..n, d[i] = d[j] PROVE i = j
    BY <1>5 DEF IsInjective
  <2>1. n - i + 1 = n - j + 1
    BY <1>1, <1>3, <1>4, <1>5 DEF IsInjective
  <2> QED
    BY <1>3, <2>1
<1>8. Range(d) = S
  <2>1. ASSUME NEW x \in S PROVE x \in Range(d)
    <3>1. PICK i \in 1..n : a[i] = x
      BY <1>1, <1>3 DEF Range
    <3>2. n - i + 1 \in 1..n /\ n - (n - i + 1) + 1 = i
      BY <1>3
    <3> QED
      BY <1>5, <3>1, <3>2 DEF Range
  <2> QED
    BY <1>5, <2>1 DEF Range
<1> QED
  BY <1>6, <1>7, <1>8 DEF d

\* The least of a set of URBs is the one the kernel works on.
LEMMA LeastExists ==
  ASSUME NEW I \in SUBSET Nat, I # {}
  PROVE  \E m \in I : \A i \in I : m =< i
<1> DEFINE Less == {p \in Nat \X Nat : p[1] < p[2]}
<1>1. IsWellFoundedOn(Less, Nat)
  BY NatLessThanWellFounded, Zenon DEF OpToRel
<1>2. PICK m \in I : \A i \in I : <<i, m>> \notin Less
  <2> HIDE DEF Less
  <2> QED
    BY <1>1, WFMin
<1>3. ASSUME NEW i \in I PROVE m =< i
  <2>1. ~(i < m)
    BY <1>2
  <2> QED
    BY <2>1
<1> QED
  BY <1>3

LEMMA HeadIsLeast ==
  ASSUME Pending \in SUBSET Nat, Pending # {}
  PROVE  HeadUrb \in Pending /\ \A i \in Pending : HeadUrb =< i
<1>1. \E m \in Pending : \A i \in Pending : m =< i
  BY LeastExists
<1> QED
  BY <1>1 DEF HeadUrb

-----------------------------------------------------------------------------
\* --- how a transfer is split -------------------------------------------------

\* The parts of the URBs lie one behind the other and make up the transfer.
LEMMA Splitting ==
  ASSUME UrbsAssumption, shape \in Shapes
  PROVE  /\ NumUrbs \in Nat \ {0} /\ UrbLen \in Nat \ {0} /\ shape.length \in Nat
         /\ Start(1) = 0 /\ Start(NumUrbs) + LenOf(NumUrbs) = shape.length
         /\ \A i \in 1..NumUrbs : /\ Start(i) \in Nat /\ LenOf(i) \in Nat /\ LenOf(i) =< UrbLen
                                  /\ Start(i) + LenOf(i) =< shape.length
                                  /\ i < NumUrbs => LenOf(i) = UrbLen /\ Start(i + 1) = Start(i) + LenOf(i)
         /\ \A i, j \in 1..NumUrbs : i < j => Start(i) + LenOf(i) =< Start(j)
         /\ shape.length = 0 => NumUrbs = 1
         /\ shape.length # 0 => \A i \in 1..NumUrbs : LenOf(i) # 0
<1> DEFINE b == UrbLen
           l == shape.length
           n == NumUrbs
<1>1. b \in Nat \ {0} /\ l \in Nat
  BY DEF UrbsAssumption, UrbLen
<1>2. n = IF l = 0 THEN 1 ELSE (l + b - 1) \div b
  BY DEF NumUrbs
<1> HIDE DEF b, l, n
<1>3. n \in Nat \ {0} /\ (n - 1) * b =< l /\ l =< (n - 1) * b + b /\ (l # 0 => (n - 1) * b < l)
  BY <1>1, <1>2
<1>4. \A i \in Nat : Start(i) = (i - 1) * b
  BY DEF Start, b
<1>5. \A i \in 1..n : Start(i) \in Nat /\ Start(i) =< (n - 1) * b
  BY <1>1, <1>3, <1>4
<1>6. \A i \in 1..n : LenOf(i) = IF i = n THEN l - Start(i) ELSE b
  BY DEF LenOf, n, l, b
<1>7. \A i \in 1..n : i < n => Start(i + 1) = Start(i) + b
  BY <1>1, <1>3, <1>4
<1>8. \A i, j \in 1..n : i < j => Start(i) + b =< Start(j)
  BY <1>1, <1>3, <1>4
<1>9. Start(n) = (n - 1) * b /\ Start(1) = 0
  BY <1>1, <1>3, <1>4
<1>10. ASSUME NEW i \in 1..n
       PROVE  /\ LenOf(i) \in Nat /\ LenOf(i) =< b /\ Start(i) + LenOf(i) =< l
              /\ i < n => LenOf(i) = b
  <2>1. CASE i = n
    BY <1>1, <1>3, <1>5, <1>6, <1>9, <2>1
  <2>2. CASE i # n
    <3>1. LenOf(i) = b /\ i < n
      BY <1>3, <1>6, <2>2
    <3>2. Start(i) + b =< Start(n)
      BY <1>3, <1>8, <3>1
    <3> QED
      BY <1>1, <1>3, <1>5, <1>9, <3>1, <3>2
  <2> QED
    BY <2>1, <2>2
<1>11. Start(n) + LenOf(n) = l
  BY <1>1, <1>3, <1>5, <1>6
<1>12. \A i, j \in 1..n : i < j => Start(i) + LenOf(i) =< Start(j)
  BY <1>1, <1>3, <1>5, <1>8, <1>10
<1>13. l # 0 => \A i \in 1..n : LenOf(i) # 0
  <2> SUFFICES ASSUME l # 0, NEW i \in 1..n PROVE LenOf(i) # 0
    OBVIOUS
  <2>1. CASE i = n
    BY <1>1, <1>3, <1>5, <1>6, <1>9, <2>1
  <2>2. CASE i # n
    BY <1>1, <1>3, <1>6, <2>2
  <2> QED
    BY <2>1, <2>2
<1> QED
  BY <1>1, <1>2, <1>3, <1>5, <1>7, <1>9, <1>10, <1>11, <1>12, <1>13 DEF b, l, n

-----------------------------------------------------------------------------
\* --- the URBs of a transfer, and the list of those to be reaped ----------------

UrbStates == {"new", "pending", "reapable", "reaped"}
UrbStatuses == {"none", "ok", "short", "stall", "proto", "overflow", "nodev", "cancelled"}
Urb == [len : Nat, state : UrbStates, status : UrbStatuses, data : Seq(Nat)]

Waiting(us) == {i \in DOMAIN us : us[i].state = "pending"}
Outstanding(us) == {i \in DOMAIN us : us[i].state \in {"pending", "reapable"}}
Active == phase \in {"submitting", "inflight"}

\* The list names every URB that can be reaped once.
ListInv(us, r) ==
  /\ us \in [1..NumUrbs -> Urb]
  /\ r \in Seq(1..NumUrbs) /\ IsInjective(r)
  /\ \A i \in 1..NumUrbs :
       /\ us[i].len = LenOf(i)
       /\ us[i].state = "reapable" <=> i \in Range(r)
       /\ us[i].state \in {"new", "pending"} <=> us[i].status = "none"

\* One URB is reaped before another: it is in front of it on the list, or the
\* kernel has the other one.
Earlier(us, r, i, j) ==
  \E p \in 1..Len(r) : r[p] = i /\ (us[j].state = "pending" \/ \E q \in p + 1..Len(r) : r[q] = j)

\* The kernel hands back the URBs of a list.
Gives(us, vs, l) ==
  /\ vs \in [1..NumUrbs -> Urb] /\ l \in Seq(Waiting(us)) /\ IsInjective(l)
  /\ \A i \in 1..NumUrbs :
       /\ vs[i].len = us[i].len /\ vs[i].data = us[i].data
       /\ i \in Range(l) => vs[i].state = "reapable" /\ vs[i].status # "none"
       /\ i \notin Range(l) => vs[i] = us[i]

\* The order of the outstanding URBs stays, and more of it is known.
OrderKept(us, r, vs, c) ==
  \A i, j \in Outstanding(us) :
    /\ Earlier(us, r, i, j) => Earlier(vs, c, i, j)
    /\ Earlier(vs, c, i, j) => Earlier(us, r, i, j) \/ (i \in Waiting(us) /\ j \in Waiting(us) /\ i # j)

LEMMA Appending ==
  ASSUME NEW S, NEW r \in Seq(S), NEW l \in Seq(S), IsInjective(r), IsInjective(l),
         Range(r) \cap Range(l) = {}
  PROVE  /\ r \o l \in Seq(S) /\ Len(r \o l) = Len(r) + Len(l)
         /\ \A p \in 1..Len(r) : (r \o l)[p] = r[p]
         /\ \A q \in 1..Len(l) : (r \o l)[Len(r) + q] = l[q]
         /\ IsInjective(r \o l) /\ Range(r \o l) = Range(r) \cup Range(l)
<1> DEFINE c == r \o l
<1>1. c \in Seq(S) /\ Len(c) = Len(r) + Len(l) /\ Len(r) \in Nat /\ Len(l) \in Nat
  BY ConcatProperties
<1>2. \A p \in 1..Len(r) : c[p] = r[p]
  BY ConcatProperties
<1>3. \A q \in 1..Len(l) : c[Len(r) + q] = l[q]
  <2> SUFFICES ASSUME NEW q \in 1..Len(l) PROVE c[Len(r) + q] = l[q]
    OBVIOUS
  <2>1. Len(r) + q \in 1..Len(r) + Len(l) /\ ~(Len(r) + q =< Len(r)) /\ Len(r) + q - Len(r) = q
    BY <1>1
  <2> QED
    BY <2>1, ConcatProperties
<1>4. DOMAIN c = 1..Len(c) /\ DOMAIN r = 1..Len(r) /\ DOMAIN l = 1..Len(l)
  BY <1>1
<1> HIDE DEF c
<1>5. \A k \in 1..Len(c) : \/ k \in 1..Len(r) /\ c[k] = r[k]
                           \/ k - Len(r) \in 1..Len(l) /\ c[k] = l[k - Len(r)]
  <2> SUFFICES ASSUME NEW k \in 1..Len(c), k \notin 1..Len(r)
               PROVE  k - Len(r) \in 1..Len(l) /\ c[k] = l[k - Len(r)]
    BY <1>2
  <2>1. k - Len(r) \in 1..Len(l) /\ Len(r) + (k - Len(r)) = k
    BY <1>1
  <2> QED
    BY <1>3, <2>1
<1>6. Range(c) = Range(r) \cup Range(l)
  <2>1. Range(c) \subseteq Range(r) \cup Range(l)
    BY <1>4, <1>5 DEF Range
  <2>2. Range(r) \subseteq Range(c)
    <3>1. \A p \in 1..Len(r) : p \in 1..Len(c)
      BY <1>1
    <3> QED
      BY <1>2, <1>4, <3>1 DEF Range
  <2>3. Range(l) \subseteq Range(c)
    <3>1. \A q \in 1..Len(l) : Len(r) + q \in 1..Len(c)
      BY <1>1
    <3> QED
      BY <1>3, <1>4, <3>1 DEF Range
  <2> QED
    BY <2>1, <2>2, <2>3
<1>7. IsInjective(c)
  <2> SUFFICES ASSUME NEW j \in 1..Len(c), NEW k \in 1..Len(c), c[j] = c[k] PROVE j = k
    BY <1>4 DEF IsInjective
  <2>1. CASE j \in 1..Len(r) /\ k \in 1..Len(r)
    BY <1>2, <1>4, <2>1 DEF IsInjective
  <2>2. CASE j - Len(r) \in 1..Len(l) /\ k - Len(r) \in 1..Len(l)
    <3>1. Len(r) + (j - Len(r)) = j /\ Len(r) + (k - Len(r)) = k
      BY <1>1
    <3>2. l[j - Len(r)] = l[k - Len(r)]
      BY <1>3, <2>2, <3>1
    <3>3. j - Len(r) = k - Len(r)
      BY <1>4, <2>2, <3>2 DEF IsInjective
    <3> QED
      BY <1>1, <3>3
  <2>3. \A a \in 1..Len(r), b \in 1..Len(l) : r[a] # l[b]
    BY <1>4 DEF Range
  <2> QED
    BY <1>5, <2>1, <2>2, <2>3
<1> QED
  BY <1>1, <1>2, <1>3, <1>6, <1>7 DEF c

\* Handing back moves URBs from the kernel to the end of the list and keeps the order.
LEMMA GivesList ==
  ASSUME NEW us, NEW vs, NEW r, NEW l, ListInv(us, r), Gives(us, vs, l)
  PROVE  /\ ListInv(vs, r \o l)
         /\ Outstanding(vs) = Outstanding(us) /\ Waiting(vs) = Waiting(us) \ Range(l)
         /\ Range(r \o l) = Range(r) \cup Range(l)
         /\ OrderKept(us, r, vs, r \o l)
<1> DEFINE c == r \o l
<1>1. /\ us \in [1..NumUrbs -> Urb] /\ vs \in [1..NumUrbs -> Urb]
      /\ r \in Seq(1..NumUrbs) /\ IsInjective(r) /\ IsInjective(l)
      /\ l \in Seq(Waiting(us)) /\ Waiting(us) \subseteq 1..NumUrbs
  BY DEF ListInv, Gives, Waiting
<1>2. DOMAIN r = 1..Len(r) /\ DOMAIN l = 1..Len(l) /\ Len(r) \in Nat /\ Len(l) \in Nat
      /\ l \in Seq(1..NumUrbs)
  BY <1>1, LenProperties, SeqMonotonic
<1>3. /\ \A p \in 1..Len(l) : l[p] \in Waiting(us)
      /\ \A p \in 1..Len(r) : r[p] \in 1..NumUrbs /\ us[r[p]].state = "reapable"
      /\ \A i \in Range(r) : \E p \in 1..Len(r) : r[p] = i
      /\ \A i \in Range(l) : \E p \in 1..Len(l) : l[p] = i
  <2>1. \A p \in 1..Len(l) : l[p] \in Waiting(us)
    BY <1>1, ElementOfSeq
  <2>2. \A p \in 1..Len(r) : r[p] \in 1..NumUrbs /\ r[p] \in Range(r)
    <3>1. \A p \in 1..Len(r) : r[p] \in 1..NumUrbs
      BY <1>1, ElementOfSeq
    <3> QED
      BY <1>2, <3>1 DEF Range
  <2>3. \A p \in 1..Len(r) : us[r[p]].state = "reapable"
    BY <2>2 DEF ListInv
  <2> QED
    BY <1>2, <2>1, <2>2, <2>3 DEF Range
<1>4. Range(r) \cap Range(l) = {}
  BY <1>1, <1>3 DEF Waiting
<1>5. /\ c \in Seq(1..NumUrbs) /\ Len(c) = Len(r) + Len(l)
      /\ \A p \in 1..Len(r) : c[p] = r[p]
      /\ \A q \in 1..Len(l) : c[Len(r) + q] = l[q]
      /\ IsInjective(c) /\ Range(c) = Range(r) \cup Range(l)
  BY <1>1, <1>2, <1>4, Appending
<1> HIDE DEF c
<1>6. \A i \in 1..NumUrbs :
        /\ i \in Range(l) => us[i].state = "pending" /\ vs[i].state = "reapable" /\ vs[i].status # "none"
        /\ i \notin Range(l) => vs[i] = us[i]
        /\ vs[i].len = us[i].len
  BY <1>3 DEF Gives, Waiting
<1>7. ListInv(vs, c)
  BY <1>1, <1>5, <1>6 DEF ListInv
<1>8. Outstanding(vs) = Outstanding(us) /\ Waiting(vs) = Waiting(us) \ Range(l)
  BY <1>1, <1>6 DEF Outstanding, Waiting
<1>9. ASSUME NEW i \in Outstanding(us), NEW j \in Outstanding(us), Earlier(us, r, i, j)
      PROVE  Earlier(vs, c, i, j)
  <2>1. PICK p \in 1..Len(r) : r[p] = i /\ (us[j].state = "pending" \/ \E q \in p + 1..Len(r) : r[q] = j)
    BY <1>9 DEF Earlier
  <2>2. p \in 1..Len(c) /\ c[p] = i
    BY <1>2, <1>5, <2>1
  <2>3. CASE \E q \in p + 1..Len(r) : r[q] = j
    <3>1. PICK q \in p + 1..Len(r) : r[q] = j
      BY <2>3
    <3>2. q \in 1..Len(r) /\ q \in p + 1..Len(c)
      BY <1>2, <1>5
    <3> QED
      BY <1>5, <2>2, <3>1, <3>2 DEF Earlier
  <2>4. CASE us[j].state = "pending" /\ j \notin Range(l)
    <3>1. vs[j].state = "pending"
      BY <1>1, <1>6, <2>4 DEF Outstanding
    <3> QED
      BY <2>2, <3>1 DEF Earlier
  <2>5. CASE j \in Range(l)
    <3>1. PICK q \in 1..Len(l) : l[q] = j
      BY <1>3, <2>5
    <3>2. Len(r) + q \in p + 1..Len(c) /\ c[Len(r) + q] = j
      BY <1>2, <1>5, <3>1
    <3> QED
      BY <2>2, <3>2 DEF Earlier
  <2> QED
    BY <2>1, <2>3, <2>4, <2>5
<1>10. ASSUME NEW i \in Outstanding(us), NEW j \in Outstanding(us), Earlier(vs, c, i, j)
       PROVE  Earlier(us, r, i, j) \/ (i \in Waiting(us) /\ j \in Waiting(us) /\ i # j)
  <2>1. PICK p \in 1..Len(c) : c[p] = i /\ (vs[j].state = "pending" \/ \E q \in p + 1..Len(c) : c[q] = j)
    BY <1>10 DEF Earlier
  <2>2. i \in Range(c) /\ DOMAIN c = 1..Len(c)
    BY <1>5, <2>1 DEF Range
  <2>3. i # j
    <3>1. CASE vs[j].state = "pending"
      BY <1>7, <2>2, <3>1 DEF ListInv, Outstanding
    <3>2. CASE \E q \in p + 1..Len(c) : c[q] = j
      <4>1. PICK q \in p + 1..Len(c) : c[q] = j
        BY <3>2
      <4>2. q \in 1..Len(c) /\ q # p
        OBVIOUS
      <4> QED
        BY <1>5, <2>1, <2>2, <4>1, <4>2 DEF IsInjective
    <3> QED
      BY <2>1, <3>1, <3>2
  <2>4. CASE us[j].state = "pending" /\ us[i].state = "pending"
    BY <1>1, <2>3, <2>4 DEF Waiting, Outstanding
  <2>5. CASE us[j].state = "pending" /\ us[i].state # "pending"
    <3>1. i \in Range(r)
      BY <1>1, <2>5 DEF ListInv, Outstanding
    <3>2. \E k \in 1..Len(r) : r[k] = i
      BY <1>3, <3>1
    <3> QED
      BY <2>5, <3>2 DEF Earlier
  <2>6. CASE us[j].state # "pending"
    <3>1. j \in Range(r) /\ j \notin Range(l) /\ vs[j].state # "pending"
      BY <1>1, <1>4, <1>6, <2>6 DEF ListInv, Outstanding
    <3>2. PICK q \in p + 1..Len(c) : c[q] = j
      BY <2>1, <3>1
    <3>3. q \in 1..Len(r)
      <4>1. CASE ~(q =< Len(r))
        <5>1. q - Len(r) \in 1..Len(l) /\ Len(r) + (q - Len(r)) = q
          BY <1>2, <1>5, <4>1
        <5>2. l[q - Len(r)] = j
          BY <1>5, <3>2, <5>1
        <5> QED
          BY <1>2, <3>1, <5>1, <5>2 DEF Range
      <4> QED
        BY <1>2, <4>1
    <3>4. p \in 1..Len(r) /\ q \in p + 1..Len(r) /\ r[p] = i /\ r[q] = j
      BY <1>2, <1>5, <2>1, <3>2, <3>3
    <3> QED
      BY <3>4 DEF Earlier
  <2> QED
    BY <2>4, <2>5, <2>6
<1> QED
  BY <1>5, <1>7, <1>8, <1>9, <1>10 DEF c, OrderKept

\* Reaping takes the first URB off the list and keeps the order of the others.
Takes(us, vs, r) ==
  /\ vs \in [1..NumUrbs -> Urb]
  /\ \A i \in 1..NumUrbs :
       /\ vs[i].len = us[i].len /\ vs[i].data = us[i].data /\ vs[i].status = us[i].status
       /\ vs[i].state = IF i = Head(r) THEN "reaped" ELSE us[i].state

LEMMA TakesList ==
  ASSUME NEW us, NEW vs, NEW r, r # <<>>, ListInv(us, r), Takes(us, vs, r)
  PROVE  /\ Head(r) \in Outstanding(us) /\ us[Head(r)].state = "reapable" /\ Head(r) \in Range(r)
         /\ ListInv(vs, Tail(r)) /\ Range(Tail(r)) = Range(r) \ {Head(r)}
         /\ Outstanding(vs) = Outstanding(us) \ {Head(r)} /\ Waiting(vs) = Waiting(us)
         /\ \A i, j \in Outstanding(vs) : Earlier(us, r, i, j) <=> Earlier(vs, Tail(r), i, j)
         /\ \A j \in Outstanding(us) : j # Head(r) => Earlier(us, r, Head(r), j)
         /\ \A j \in Outstanding(us) : ~Earlier(us, r, j, Head(r))
<1> DEFINE t == Tail(r)
           h == Head(r)
<1>1. /\ us \in [1..NumUrbs -> Urb] /\ vs \in [1..NumUrbs -> Urb]
      /\ r \in Seq(1..NumUrbs) /\ IsInjective(r)
  BY DEF ListInv, Takes
<1>2. /\ Len(r) \in Nat /\ Len(r) # 0 /\ DOMAIN r = 1..Len(r) /\ h = r[1]
      /\ t \in Seq(1..NumUrbs) /\ Len(t) = Len(r) - 1 /\ DOMAIN t = 1..Len(t)
      /\ \A p \in 1..Len(t) : t[p] = r[p + 1]
  BY <1>1, LenProperties
<1> HIDE DEF t, h
<1>3. \A p, q \in 1..Len(r) : r[p] = r[q] => p = q
  BY <1>1, <1>2 DEF IsInjective
<1>4. 1 \in 1..Len(r) /\ \A p \in 1..Len(t) : p + 1 \in 1..Len(r) /\ p + 1 # 1
  BY <1>2
<1>5. h \in Range(r) /\ h \in 1..NumUrbs /\ us[h].state = "reapable"
  <2>1. h \in Range(r)
    BY <1>2, <1>4 DEF Range
  <2>2. h \in 1..NumUrbs
    BY <1>1, <1>2, <1>4, ElementOfSeq
  <2> QED
    BY <2>1, <2>2 DEF ListInv
<1>6. IsInjective(t)
  <2> SUFFICES ASSUME NEW p \in 1..Len(t), NEW q \in 1..Len(t), t[p] = t[q] PROVE p = q
    BY <1>2 DEF IsInjective
  <2>1. p + 1 = q + 1
    BY <1>2, <1>3, <1>4
  <2> QED
    BY <1>2, <2>1
<1>7. Range(t) = Range(r) \ {h}
  <2>1. Range(t) \subseteq Range(r) \ {h}
    <3> SUFFICES ASSUME NEW p \in 1..Len(t) PROVE t[p] \in Range(r) \ {h}
      BY <1>2 DEF Range
    <3>1. t[p] = r[p + 1] /\ r[p + 1] # r[1]
      BY <1>2, <1>3, <1>4
    <3> QED
      BY <1>2, <1>4, <3>1 DEF Range
  <2>2. Range(r) \ {h} \subseteq Range(t)
    <3> SUFFICES ASSUME NEW p \in 1..Len(r), r[p] # h PROVE r[p] \in Range(t)
      BY <1>2 DEF Range
    <3>1. p - 1 \in 1..Len(t) /\ p - 1 + 1 = p
      BY <1>2
    <3> QED
      BY <1>2, <3>1 DEF Range
  <2> QED
    BY <2>1, <2>2
<1>8. \A i \in 1..NumUrbs :
        /\ vs[i].len = us[i].len /\ vs[i].data = us[i].data /\ vs[i].status = us[i].status
        /\ vs[i].state = IF i = h THEN "reaped" ELSE us[i].state
  BY DEF Takes, h
<1>9. ListInv(vs, t)
  <2>1. \A i \in 1..NumUrbs :
          /\ vs[i].len = LenOf(i)
          /\ vs[i].state = "reapable" <=> i \in Range(t)
          /\ vs[i].state \in {"new", "pending"} <=> vs[i].status = "none"
    BY <1>5, <1>7, <1>8 DEF ListInv
  <2> QED
    BY <1>1, <1>2, <1>6, <2>1 DEF ListInv
<1>10. Outstanding(vs) = Outstanding(us) \ {h} /\ Waiting(vs) = Waiting(us)
  BY <1>1, <1>5, <1>8 DEF Outstanding, Waiting
<1>11. ASSUME NEW i \in Outstanding(vs), NEW j \in Outstanding(vs)
       PROVE  Earlier(us, r, i, j) <=> Earlier(vs, t, i, j)
  <2>1. i # h /\ j # h /\ j \in 1..NumUrbs /\ vs[j].state = us[j].state
    BY <1>1, <1>8, <1>10 DEF Outstanding
  <2>2. ASSUME Earlier(us, r, i, j) PROVE Earlier(vs, t, i, j)
    <3>1. PICK p \in 1..Len(r) : r[p] = i /\ (us[j].state = "pending" \/ \E q \in p + 1..Len(r) : r[q] = j)
      BY <2>2 DEF Earlier
    <3>2. p - 1 \in 1..Len(t) /\ t[p - 1] = i
      BY <1>2, <2>1, <3>1
    <3>3. CASE \E q \in p + 1..Len(r) : r[q] = j
      <4>1. PICK q \in p + 1..Len(r) : r[q] = j
        BY <3>3
      <4>2. q - 1 \in p - 1 + 1..Len(t) /\ q - 1 \in 1..Len(t) /\ q - 1 + 1 = q
        BY <1>2
      <4> QED
        BY <1>2, <3>2, <4>1, <4>2 DEF Earlier
    <3> QED
      BY <2>1, <3>1, <3>2, <3>3 DEF Earlier
  <2>3. ASSUME Earlier(vs, t, i, j) PROVE Earlier(us, r, i, j)
    <3>1. PICK p \in 1..Len(t) : t[p] = i /\ (vs[j].state = "pending" \/ \E q \in p + 1..Len(t) : t[q] = j)
      BY <2>3 DEF Earlier
    <3>2. p + 1 \in 1..Len(r) /\ r[p + 1] = i
      BY <1>2, <3>1
    <3>3. CASE \E q \in p + 1..Len(t) : t[q] = j
      <4>1. PICK q \in p + 1..Len(t) : t[q] = j
        BY <3>3
      <4>2. q \in 1..Len(t) /\ q + 1 \in p + 1 + 1..Len(r)
        BY <1>2
      <4> QED
        BY <1>2, <3>2, <4>1, <4>2 DEF Earlier
    <3> QED
      BY <2>1, <3>1, <3>2, <3>3 DEF Earlier
  <2> QED
    BY <2>2, <2>3
<1>12. ASSUME NEW j \in Outstanding(us) PROVE (j # h => Earlier(us, r, h, j)) /\ ~Earlier(us, r, j, h)
  <2>1. CASE us[j].state = "pending"
    <3>1. j \notin Range(r)
      BY <1>1, <2>1 DEF ListInv, Outstanding
    <3>2. \A p \in 1..Len(r) : r[p] # j
      BY <1>2, <3>1 DEF Range
    <3> QED
      BY <1>2, <1>4, <2>1, <3>2 DEF Earlier
  <2>2. CASE us[j].state = "reapable"
    <3>1. j \in Range(r)
      BY <1>1, <2>2 DEF ListInv, Outstanding
    <3>2. PICK p \in 1..Len(r) : r[p] = j
      BY <1>2, <3>1 DEF Range
    <3>3. j # h => p \in 1 + 1..Len(r)
      BY <1>2, <3>2
    <3>4. j # h => Earlier(us, r, h, j)
      BY <1>2, <1>4, <3>2, <3>3 DEF Earlier
    <3>5. ~Earlier(us, r, j, h)
      <4> SUFFICES ASSUME NEW a \in 1..Len(r), NEW b \in a + 1..Len(r), r[b] = h PROVE FALSE
        BY <1>5 DEF Earlier
      <4>1. b \in 1..Len(r) /\ b # 1
        OBVIOUS
      <4> QED
        BY <1>2, <1>3, <1>4, <4>1
    <3> QED
      BY <3>4, <3>5
  <2> QED
    BY <1>1, <2>1, <2>2 DEF Outstanding
<1>13. h \in Outstanding(us)
  BY <1>1, <1>5 DEF Outstanding
<1> QED
  BY <1>5, <1>7, <1>9, <1>10, <1>11, <1>12, <1>13 DEF h, t

-----------------------------------------------------------------------------
\* --- the data the URBs have ------------------------------------------------------

Places(u) == 1..Len(u.data)

\* What was received and not given to the transfer yet (packets t + 1 to n) is in the
\* outstanding URBs: each has some consecutive packets, a URB that is reaped
\* earlier has earlier ones, and of those the kernel has only the first has any.
DataInv(us, r, t, n) ==
  /\ t =< n
  /\ \A i \in Outstanding(us) : \A k \in Places(us[i]) :
       us[i].data[k] = us[i].data[1] + k - 1 /\ t < us[i].data[k] /\ us[i].data[k] =< n
  /\ \A x \in t + 1..n : \E i \in Outstanding(us) : \E k \in Places(us[i]) : us[i].data[k] = x
  /\ \A i, j \in Outstanding(us) : Earlier(us, r, i, j) =>
       \A k \in Places(us[i]), m \in Places(us[j]) : us[i].data[k] < us[j].data[m]
  /\ \A i, j \in Waiting(us) : i < j => us[j].data = <<>>

LEMMA GivesData ==
  ASSUME NEW us, NEW vs, NEW r, NEW l, ListInv(us, r), Gives(us, vs, l),
         NEW t \in Nat, NEW n \in Nat, DataInv(us, r, t, n)
  PROVE  DataInv(vs, r \o l, t, n)
<1>1. /\ Outstanding(vs) = Outstanding(us) /\ Waiting(vs) \subseteq Waiting(us)
      /\ \A i, j \in Outstanding(us) : Earlier(vs, r \o l, i, j) =>
           Earlier(us, r, i, j) \/ (i \in Waiting(us) /\ j \in Waiting(us) /\ i # j)
  <2>1. Outstanding(vs) = Outstanding(us)
    BY GivesList, Zenon
  <2>1a. Waiting(vs) \subseteq Waiting(us)
    BY DEF Waiting, Gives, ListInv
  <2>2. OrderKept(us, r, vs, r \o l)
    BY GivesList
  <2> QED
    BY <2>1, <2>1a, <2>2 DEF OrderKept
<1>2. \A i \in Outstanding(us) : vs[i].data = us[i].data /\ Places(vs[i]) = Places(us[i])
  BY DEF Outstanding, ListInv, Gives, Places
<1>3. \A i, j \in Waiting(us) : i # j => us[i].data = <<>> \/ us[j].data = <<>>
  <2> SUFFICES ASSUME NEW i \in Waiting(us), NEW j \in Waiting(us), i # j
               PROVE  us[i].data = <<>> \/ us[j].data = <<>>
    OBVIOUS
  <2>1. i \in Nat /\ j \in Nat
    BY DEF Waiting, ListInv
  <2>2. i < j \/ j < i
    BY <2>1
  <2> QED
    BY <2>2 DEF DataInv
<1>4. \A i \in Outstanding(us) : us[i].data = <<>> => Places(us[i]) = {}
  BY DEF Places
<1>5. \A i, j \in Outstanding(us) : Earlier(vs, r \o l, i, j) =>
        \A k \in Places(us[i]), m \in Places(us[j]) : us[i].data[k] < us[j].data[m]
  BY <1>1, <1>3, <1>4 DEF DataInv
<1>6. Waiting(us) \subseteq Outstanding(us)
  BY DEF Waiting, Outstanding
<1>7. \A i, j \in Waiting(vs) : i < j => vs[j].data = <<>>
  BY <1>1, <1>2, <1>6 DEF DataInv
<1> QED
  BY <1>1, <1>2, <1>5, <1>7 DEF DataInv

LEMMA TakesData ==
  ASSUME NEW us, NEW vs, NEW r, r # <<>>, ListInv(us, r), Takes(us, vs, r),
         NEW t \in Nat, NEW n \in Nat, DataInv(us, r, t, n)
  PROVE  LET d == us[Head(r)].data
         IN  /\ d \in Seq(Nat) /\ t + Len(d) =< n
             /\ \A k \in 1..Len(d) : d[k] = t + k
             /\ DataInv(vs, Tail(r), t + Len(d), n)
<1> DEFINE h == Head(r)
           d == us[h].data
<1>1. /\ h \in Outstanding(us) /\ Outstanding(vs) = Outstanding(us) \ {h} /\ Waiting(vs) = Waiting(us)
      /\ \A i, j \in Outstanding(vs) : Earlier(us, r, i, j) <=> Earlier(vs, Tail(r), i, j)
      /\ \A j \in Outstanding(us) : j # h => Earlier(us, r, h, j)
  BY TakesList
<1>2. \A i \in Outstanding(us) : /\ us[i].data \in Seq(Nat) /\ vs[i].data = us[i].data
                                 /\ Places(vs[i]) = Places(us[i])
  BY DEF Outstanding, ListInv, Takes, Places, Urb
<1> HIDE DEF h
<1>3. d \in Seq(Nat) /\ Len(d) \in Nat /\ \A k \in 1..Len(d) : d[k] \in Nat
  BY <1>1, <1>2, ElementOfSeq
<1>4. \A i \in Outstanding(us) : \A k \in Places(us[i]) : us[i].data[k] \in Nat
  BY <1>2, ElementOfSeq DEF Places
<1>5. Len(d) # 0 => d[1] = t + 1
  <2> SUFFICES ASSUME Len(d) # 0 PROVE d[1] = t + 1
    OBVIOUS
  <2>1. 1 \in Places(us[h]) /\ t < d[1] /\ d[1] =< n
    BY <1>1, <1>3 DEF Places, DataInv
  <2>2. t + 1 \in t + 1..n
    BY <1>3, <2>1
  <2>3. PICK i \in Outstanding(us) : \E k \in Places(us[i]) : us[i].data[k] = t + 1
    BY <2>2 DEF DataInv
  <2>4. PICK k \in Places(us[i]) : us[i].data[k] = t + 1
    BY <2>3
  <2>5. CASE i # h
    <3>1. d[1] < us[i].data[k]
      BY <1>1, <2>1, <2>5 DEF DataInv
    <3> QED
      BY <1>3, <2>1, <2>4, <3>1
  <2>6. CASE i = h
    <3>1. d[k] = d[1] + k - 1 /\ k \in Nat /\ 1 =< k /\ d[k] = t + 1
      BY <1>1, <2>4, <2>6 DEF DataInv, Places
    <3> QED
      BY <1>3, <2>1, <3>1 DEF Places
  <2> QED
    BY <2>5, <2>6
<1>6. \A k \in 1..Len(d) : d[k] = t + k
  <2> SUFFICES ASSUME NEW k \in 1..Len(d) PROVE d[k] = t + k
    OBVIOUS
  <2>1. d[k] = d[1] + k - 1
    BY <1>1 DEF DataInv, Places
  <2> QED
    BY <1>3, <1>5, <2>1
<1>7. t + Len(d) =< n
  <2>1. CASE Len(d) = 0
    BY <2>1 DEF DataInv
  <2>2. CASE Len(d) # 0
    <3>1. Len(d) \in Places(us[h])
      BY <1>3, <2>2 DEF Places
    <3>2. d[Len(d)] =< n
      BY <1>1, <3>1 DEF DataInv
    <3> QED
      BY <1>3, <1>6, <2>2, <3>2
  <2> QED
    BY <2>1, <2>2
<1> DEFINE u == t + Len(d)
<1>8. u \in Nat
  BY <1>3
<1>9. ASSUME NEW i \in Outstanding(vs), NEW k \in Places(vs[i])
      PROVE  vs[i].data[k] = vs[i].data[1] + k - 1 /\ u < vs[i].data[k] /\ vs[i].data[k] =< n
  <2>1. i \in Outstanding(us) /\ i # h /\ vs[i].data = us[i].data /\ k \in Places(us[i])
    BY <1>1, <1>2, <1>9
  <2>2. us[i].data[k] = us[i].data[1] + k - 1 /\ t < us[i].data[k] /\ us[i].data[k] =< n
    BY <2>1 DEF DataInv
  <2>3. u < us[i].data[k]
    <3>1. CASE Len(d) = 0
      BY <2>2, <3>1
    <3>2. CASE Len(d) # 0
      <4>1. Len(d) \in Places(us[h]) /\ d[Len(d)] = u
        <5>1. Len(d) \in 1..Len(d)
          BY <1>3, <3>2
        <5> QED
          BY <1>6, <5>1 DEF Places
      <4>2. d[Len(d)] < us[i].data[k]
        BY <1>1, <2>1, <4>1 DEF DataInv
      <4> QED
        BY <4>1, <4>2
    <3> QED
      BY <3>1, <3>2
  <2> QED
    BY <2>1, <2>2, <2>3
<1>10. ASSUME NEW x \in u + 1..n
       PROVE  \E i \in Outstanding(vs) : \E k \in Places(vs[i]) : vs[i].data[k] = x
  <2>1. x \in t + 1..n
    BY <1>3, <1>8
  <2>2. PICK i \in Outstanding(us) : \E k \in Places(us[i]) : us[i].data[k] = x
    BY <2>1 DEF DataInv
  <2>3. i # h
    <3> SUFFICES ASSUME NEW k \in 1..Len(d), d[k] = x PROVE FALSE
      BY <2>2 DEF Places
    <3>1. x = t + k /\ k =< Len(d) /\ u + 1 =< x
      BY <1>6
    <3> QED
      BY <1>3, <3>1
  <2> QED
    BY <1>1, <1>2, <2>2, <2>3
<1>11. \A i, j \in Outstanding(vs) : Earlier(vs, Tail(r), i, j) =>
         \A k \in Places(vs[i]), m \in Places(vs[j]) : vs[i].data[k] < vs[j].data[m]
  BY <1>1, <1>2 DEF DataInv
<1>12. \A i, j \in Waiting(vs) : i < j => vs[j].data = <<>>
  <2>1. Waiting(us) \subseteq Outstanding(us)
    BY DEF Waiting, Outstanding
  <2> QED
    BY <1>1, <1>2, <2>1 DEF DataInv
<1>13. DataInv(vs, Tail(r), u, n)
  BY <1>7, <1>9, <1>10, <1>11, <1>12 DEF DataInv
<1> QED
  BY <1>3, <1>6, <1>7, <1>13 DEF h

\* The kernel puts the next packet into the first URB it has.
LEMMA PacketList ==
  ASSUME NEW us, NEW vs, NEW r, ListInv(us, r), NEW h \in Waiting(us), NEW n \in Nat,
         vs = [us EXCEPT ![h].data = Append(@, n + 1)]
  PROVE  /\ ListInv(vs, r) /\ Outstanding(vs) = Outstanding(us) /\ Waiting(vs) = Waiting(us)
         /\ \A i, j \in 1..NumUrbs : Earlier(vs, r, i, j) <=> Earlier(us, r, i, j)
         /\ h \in 1..NumUrbs /\ vs[h].data = Append(us[h].data, n + 1)
         /\ \A i \in 1..NumUrbs : /\ vs[i].len = us[i].len /\ vs[i].state = us[i].state /\ vs[i].status = us[i].status
                                  /\ i # h => vs[i] = us[i]
<1>1. us \in [1..NumUrbs -> Urb] /\ h \in 1..NumUrbs
  BY DEF ListInv, Waiting
<1> DEFINE e == Append(us[h].data, n + 1)
<1>2. e \in Seq(Nat)
  BY <1>1, AppendProperties DEF Urb
<1> HIDE DEF e
<1>3. /\ vs \in [1..NumUrbs -> Urb] /\ vs[h].data = e
      /\ \A i \in 1..NumUrbs : /\ vs[i].len = us[i].len /\ vs[i].state = us[i].state /\ vs[i].status = us[i].status
                               /\ i # h => vs[i] = us[i]
  BY <1>1, <1>2 DEF Urb, e
<1>4. ListInv(vs, r)
  BY <1>1, <1>3 DEF ListInv
<1>5. Outstanding(vs) = Outstanding(us) /\ Waiting(vs) = Waiting(us)
  BY <1>1, <1>3 DEF Outstanding, Waiting
<1>6. \A i, j \in 1..NumUrbs : Earlier(vs, r, i, j) <=> Earlier(us, r, i, j)
  <2>1. \A p \in 1..Len(r) : r[p] \in 1..NumUrbs
    BY ElementOfSeq DEF ListInv
  <2> QED
    BY <1>1, <1>3, <2>1 DEF Earlier
<1> QED
  BY <1>1, <1>3, <1>4, <1>5, <1>6 DEF e

LEMMA PacketData ==
  ASSUME NEW us, NEW vs, NEW r, ListInv(us, r), NEW h \in Waiting(us), \A i \in Waiting(us) : h =< i,
         NEW t \in Nat, NEW n \in Nat, DataInv(us, r, t, n),
         vs = [us EXCEPT ![h].data = Append(@, n + 1)]
  PROVE  DataInv(vs, r, t, n + 1)
<1>1. us \in [1..NumUrbs -> Urb] /\ h \in 1..NumUrbs /\ us[h].state = "pending" /\ h \in Outstanding(us)
  BY DEF ListInv, Waiting, Outstanding
<1> DEFINE d == us[h].data
           e == Append(d, n + 1)
<1>2. d \in Seq(Nat) /\ e \in Seq(Nat) /\ Len(d) \in Nat /\ Len(e) = Len(d) + 1
      /\ (\A k \in 1..Len(d) : e[k] = d[k]) /\ e[Len(d) + 1] = n + 1
  BY <1>1, AppendProperties DEF Urb
<1> HIDE DEF e
<1>3. /\ vs \in [1..NumUrbs -> Urb] /\ vs[h].data = e
      /\ \A i \in 1..NumUrbs : /\ vs[i].len = us[i].len /\ vs[i].state = us[i].state /\ vs[i].status = us[i].status
                               /\ i # h => vs[i] = us[i]
  BY <1>1, <1>2 DEF Urb, e
<1>5. Outstanding(vs) = Outstanding(us) /\ Waiting(vs) = Waiting(us)
  BY <1>1, <1>3 DEF Outstanding, Waiting
<1>6. \A i, j \in 1..NumUrbs : Earlier(vs, r, i, j) <=> Earlier(us, r, i, j)
  <2>1. \A p \in 1..Len(r) : r[p] \in 1..NumUrbs
    BY ElementOfSeq DEF ListInv
  <2> QED
    BY <1>1, <1>3, <2>1 DEF Earlier
<1>7. \A i \in Outstanding(us) : i # h => vs[i].data = us[i].data /\ Places(vs[i]) = Places(us[i])
  BY <1>3 DEF Outstanding, ListInv, Places
<1>8. Places(us[h]) = 1..Len(d) /\ Places(vs[h]) = 1..Len(d) + 1
  BY <1>2, <1>3 DEF Places
<1>9. \A i \in Outstanding(us) : us[i].data \in Seq(Nat) /\ \A k \in Places(us[i]) : us[i].data[k] \in Nat
  BY ElementOfSeq DEF Outstanding, ListInv, Places, Urb
<1>10. Len(d) # 0 => d[Len(d)] = n
  <2> SUFFICES ASSUME Len(d) # 0 PROVE d[Len(d)] = n
    OBVIOUS
  <2>1. Len(d) \in Places(us[h]) /\ t < d[Len(d)] /\ d[Len(d)] =< n
    BY <1>1, <1>2, <1>8 DEF DataInv
  <2>2. n \in t + 1..n
    BY <1>9, <1>1, <2>1
  <2>3. PICK i \in Outstanding(us) : \E k \in Places(us[i]) : us[i].data[k] = n
    BY <2>2 DEF DataInv
  <2>4. PICK k \in Places(us[i]) : us[i].data[k] = n
    BY <2>3
  <2>5. i = h
    <3>1. CASE us[i].state = "pending" /\ i # h
      <4>1. i \in Waiting(us) /\ i \in Nat /\ h \in Nat
        BY <3>1 DEF Outstanding, Waiting, ListInv
      <4>2. us[i].data = <<>>
        BY <3>1, <4>1 DEF DataInv
      <4> QED
        BY <2>4, <4>2 DEF Places
    <3>2. CASE us[i].state = "reapable"
      <4>1. i \in Range(r) /\ DOMAIN r = 1..Len(r)
        BY <3>2 DEF ListInv, Outstanding
      <4>2. Earlier(us, r, i, h)
        BY <1>1, <4>1 DEF Earlier, Range
      <4>3. us[i].data[k] < d[Len(d)]
        BY <1>1, <2>1, <2>4, <4>2 DEF DataInv
      <4>4. d[Len(d)] \in Nat
        BY <1>1, <1>9, <2>1
      <4> QED
        BY <2>1, <2>4, <4>3, <4>4
    <3> QED
      BY <3>1, <3>2 DEF Outstanding
  <2>6. \A x \in Places(us[h]) : us[h].data[x] = us[h].data[1] + x - 1
    BY <1>1 DEF DataInv
  <2>7. k \in Places(us[h]) /\ us[h].data[k] = n
    BY <2>4, <2>5
  <2> HIDE DEF d
  <2>8. d = us[h].data
    BY DEF d
  <2>9. 1 \in Places(us[h])
    BY <1>2, <1>8, <2>1
  <2>10. d[1] \in Nat
    BY <1>1, <1>9, <2>8, <2>9
  <2>11. k \in 1..Len(d) /\ d[k] = d[1] + k - 1 /\ d[Len(d)] = d[1] + Len(d) - 1 /\ d[k] = n
    BY <1>8, <2>1, <2>6, <2>7, <2>8
  <2>12. d[Len(d)] =< n
    BY <2>1
  <2> DEFINE x == d[1]
             m == Len(d)
  <2> HIDE DEF x, m
  <2>13. x \in Nat /\ m \in Nat /\ k \in 1..m /\ n = x + k - 1 /\ d[m] = x + m - 1 /\ x + m - 1 =< n
    BY <1>2, <2>10, <2>11, <2>12 DEF x, m
  <2>14. x + m - 1 = n
    BY <2>13
  <2> QED
    BY <2>13, <2>14 DEF m
<1>11. \A q \in 1..Len(d) + 1 : e[q] = e[1] + q - 1 /\ t < e[q] /\ e[q] =< n + 1
  <2>1. CASE Len(d) = 0
    BY <1>2, <2>1 DEF DataInv
  <2>2. CASE Len(d) # 0
    <3>1. \A k \in 1..Len(d) : d[k] \in Nat /\ d[k] = d[1] + k - 1 /\ t < d[k] /\ d[k] =< n
      BY <1>1, <1>8, <1>9 DEF DataInv
    <3>2. 1 \in 1..Len(d) /\ Len(d) \in 1..Len(d)
      BY <1>2, <2>2
    <3>3. d[1] \in Nat /\ n = d[1] + Len(d) - 1 /\ e[1] = d[1]
      BY <1>2, <1>10, <2>2, <3>1, <3>2
    <3>4. \A k \in 1..Len(d) + 1 : k \in 1..Len(d) \/ k = Len(d) + 1
      BY <1>2
    <3>5. t =< n
      BY DEF DataInv
    <3>6. ASSUME NEW q \in 1..Len(d) PROVE e[q] = e[1] + q - 1 /\ t < e[q] /\ e[q] =< n + 1
      <4>1. e[q] = d[q] /\ d[q] \in Nat /\ d[q] = d[1] + q - 1 /\ t < d[q] /\ d[q] =< n
        BY <1>2, <3>1
      <4> QED
        BY <3>3, <4>1
    <3>7. e[Len(d) + 1] = n + 1 /\ n + 1 = e[1] + (Len(d) + 1) - 1 /\ t < n + 1
      <4> DEFINE m == Len(d)
      <4>1. m \in Nat /\ n = d[1] + m - 1
        BY <1>2, <3>3
      <4> HIDE DEF m
      <4>2. n + 1 = e[1] + (m + 1) - 1 /\ t < n + 1
        BY <3>3, <3>5, <4>1
      <4> QED
        BY <1>2, <4>2 DEF m
    <3> QED
      BY <3>4, <3>6, <3>7
  <2> QED
    BY <2>1, <2>2
<1>12. ASSUME NEW i \in Outstanding(vs), NEW k \in Places(vs[i])
       PROVE  vs[i].data[k] = vs[i].data[1] + k - 1 /\ t < vs[i].data[k] /\ vs[i].data[k] =< n + 1
  <2>1. CASE i = h
    <3>1. k \in 1..Len(d) + 1
      BY <1>8, <2>1
    <3>2. e[k] = e[1] + k - 1 /\ t < e[k] /\ e[k] =< n + 1
      BY <1>11, <3>1
    <3> QED
      BY <1>3, <2>1, <3>2
  <2>2. CASE i # h
    <3>1. i \in Outstanding(us) /\ vs[i].data = us[i].data /\ k \in Places(us[i])
      BY <1>5, <1>7, <2>2
    <3>2. us[i].data[k] \in Nat
      BY <1>9, <3>1
    <3>3. us[i].data[k] = us[i].data[1] + k - 1 /\ t < us[i].data[k] /\ us[i].data[k] =< n
      BY <3>1 DEF DataInv
    <3>4. us[i].data[k] =< n + 1
      BY <3>2, <3>3
    <3> QED
      BY <3>1, <3>3, <3>4
  <2> QED
    BY <2>1, <2>2
<1>13. ASSUME NEW x \in t + 1..n + 1
       PROVE  \E i \in Outstanding(vs) : \E k \in Places(vs[i]) : vs[i].data[k] = x
  <2>1. CASE x = n + 1
    <3>1. Len(d) + 1 \in Places(vs[h]) /\ vs[h].data[Len(d) + 1] = x
      BY <1>2, <1>3, <1>8, <2>1
    <3> QED
      BY <1>1, <1>5, <3>1
  <2>2. CASE x # n + 1
    <3>1. x \in t + 1..n
      BY <2>2
    <3>2. PICK i \in Outstanding(us) : \E k \in Places(us[i]) : us[i].data[k] = x
      BY <3>1 DEF DataInv
    <3>3. PICK k \in Places(us[i]) : us[i].data[k] = x
      BY <3>2
    <3>4. CASE i = h
      <4>1. k \in Places(vs[h]) /\ vs[h].data[k] = x
        BY <1>2, <1>3, <1>8, <3>3, <3>4
      <4> QED
        BY <1>1, <1>5, <4>1
    <3>5. CASE i # h
      BY <1>5, <1>7, <3>3, <3>5
    <3> QED
      BY <3>4, <3>5
  <2> QED
    BY <2>1, <2>2
<1>14. ASSUME NEW i \in Outstanding(vs), NEW j \in Outstanding(vs), Earlier(vs, r, i, j),
              NEW k \in Places(vs[i]), NEW m \in Places(vs[j])
       PROVE  vs[i].data[k] < vs[j].data[m]
  <2>0. Outstanding(us) \subseteq 1..NumUrbs
    BY <1>1 DEF Outstanding
  <2>1. Earlier(us, r, i, j) /\ i \in Outstanding(us) /\ j \in Outstanding(us)
    BY <1>5, <1>6, <1>14, <2>0
  <2>2. i # h
    <3>1. h \notin Range(r)
      BY <1>1 DEF ListInv
    <3>2. i \in Range(r)
      BY <2>1 DEF Earlier, Range, ListInv
    <3> QED
      BY <3>1, <3>2
  <2>3. vs[i].data = us[i].data /\ k \in Places(us[i]) /\ us[i].data[k] \in Nat /\ us[i].data[k] =< n
    BY <1>7, <1>9, <2>1, <2>2 DEF DataInv
  <2>4. CASE j # h
    BY <1>7, <2>1, <2>3, <2>4 DEF DataInv
  <2>5. CASE j = h /\ m = Len(d) + 1
    <3>1. vs[j].data[m] = n + 1
      BY <1>2, <1>3, <2>5
    <3>2. us[i].data[k] < n + 1
      BY <2>3
    <3> QED
      BY <2>3, <3>1, <3>2
  <2>6. CASE j = h /\ m # Len(d) + 1
    <3>1. m \in Places(us[h]) /\ vs[j].data[m] = us[j].data[m]
      BY <1>2, <1>3, <1>8, <2>6
    <3> QED
      BY <2>1, <2>3, <2>6, <3>1 DEF DataInv
  <2> QED
    BY <2>4, <2>5, <2>6
<1>15. ASSUME NEW i \in Waiting(vs), NEW j \in Waiting(vs), i < j PROVE vs[j].data = <<>>
  <2>1. i \in Waiting(us) /\ j \in Waiting(us) /\ i \in Nat /\ j \in Nat /\ h \in Nat /\ j \in Outstanding(us)
    BY <1>5, <1>15 DEF Waiting, Outstanding, ListInv
  <2>2. j # h
    BY <1>15, <2>1
  <2> QED
    BY <1>7, <1>15, <2>1, <2>2 DEF DataInv
<1>16. DataInv(vs, r, t, n + 1)
  <2>1. t =< n + 1
    BY DEF DataInv
  <2> QED
    BY <1>12, <1>13, <1>14, <1>15, <2>1 DEF DataInv
<1> QED
  BY <1>16

-----------------------------------------------------------------------------
\* --- the steps, as moves of URBs ---------------------------------------------

LEMMA NoneLeft ==
  ASSUME NEW us, NEW r, ListInv(us, r), Outstanding(us) = {}
  PROVE  r = <<>> /\ Waiting(us) = {}
<1>1. Waiting(us) = {}
  BY DEF Outstanding, Waiting
<1>2. Range(r) = {}
  <2>1. \A i \in 1..NumUrbs : us[i].state # "reapable"
    BY DEF Outstanding, ListInv
  <2>2. \A i \in Range(r) : i \in 1..NumUrbs
    <3>1. r \in Seq(1..NumUrbs) /\ DOMAIN r = 1..Len(r)
      BY LenProperties DEF ListInv
    <3>2. \A p \in 1..Len(r) : r[p] \in 1..NumUrbs
      BY <3>1, ElementOfSeq
    <3> QED
      BY <3>1, <3>2 DEF Range
  <2> QED
    BY <2>1, <2>2 DEF ListInv
<1>3. \A p \in 1..Len(r) : r[p] \in Range(r)
  BY LenProperties DEF ListInv, Range
<1>4. Len(r) = 0
  BY <1>2, <1>3, LenProperties DEF ListInv
<1> QED
  BY <1>1, <1>4, EmptySeq DEF ListInv

\* The kernel hands back some of the URBs it has.
LEMMA HandingBack ==
  ASSUME NEW us, NEW r, ListInv(us, r), NEW l \in Seq(Waiting(us)), IsInjective(l),
         NEW s \in UrbStatuses \ {"none"}
  PROVE  Gives(us, HandBack(us, l, s), l) /\ \A i \in Range(l) : HandBack(us, l, s)[i].status = s
<1> DEFINE vs == HandBack(us, l, s)
<1>1. us \in [1..NumUrbs -> Urb] /\ Waiting(us) \subseteq 1..NumUrbs
  BY DEF ListInv, Waiting
<1>2. Range(l) \subseteq 1..NumUrbs
  BY <1>1, ElementOfSeq, LenProperties DEF Range
<1>3. vs = [i \in 1..NumUrbs |-> IF i \in Range(l) THEN [us[i] EXCEPT !.state = "reapable", !.status = s] ELSE us[i]]
  BY <1>1 DEF HandBack
<1> HIDE DEF vs
<1>4. \A i \in 1..NumUrbs :
        /\ vs[i] \in Urb /\ vs[i].len = us[i].len /\ vs[i].data = us[i].data
        /\ i \in Range(l) => vs[i].state = "reapable" /\ vs[i].status = s
        /\ i \notin Range(l) => vs[i] = us[i]
  BY <1>1, <1>3 DEF Urb, UrbStates
<1>5. vs \in [1..NumUrbs -> Urb]
  BY <1>3, <1>4
<1>6. Gives(us, vs, l)
  BY <1>4, <1>5 DEF Gives
<1> QED
  BY <1>2, <1>4, <1>6 DEF vs

\* Two lists handed back one after the other are one list handed back.
LEMMA GivesTwice ==
  ASSUME NEW us, NEW vs, NEW ws, NEW r, NEW l, NEW m,
         ListInv(us, r), Gives(us, vs, l), Gives(vs, ws, m)
  PROVE  Gives(us, ws, l \o m) /\ r \o (l \o m) = (r \o l) \o m
<1>1. /\ us \in [1..NumUrbs -> Urb] /\ vs \in [1..NumUrbs -> Urb] /\ ws \in [1..NumUrbs -> Urb]
      /\ l \in Seq(Waiting(us)) /\ IsInjective(l) /\ m \in Seq(Waiting(vs)) /\ IsInjective(m)
      /\ r \in Seq(1..NumUrbs)
  BY DEF ListInv, Gives
<1>2. Waiting(vs) \subseteq Waiting(us) /\ \A i \in Waiting(vs) : i \notin Range(l)
  BY <1>1 DEF Waiting, Gives
<1>3. m \in Seq(Waiting(us)) /\ Range(m) \subseteq Waiting(vs)
  <2>1. Range(m) \subseteq Waiting(vs)
    BY <1>1, ElementOfSeq, LenProperties DEF Range
  <2> QED
    BY <1>1, <1>2, <2>1, SeqMonotonic
<1>4. Range(l) \cap Range(m) = {}
  BY <1>2, <1>3
<1>5. l \o m \in Seq(Waiting(us)) /\ IsInjective(l \o m) /\ Range(l \o m) = Range(l) \cup Range(m)
  BY <1>1, <1>3, <1>4, Appending
<1>6. \A i \in 1..NumUrbs :
        /\ ws[i].len = us[i].len /\ ws[i].data = us[i].data
        /\ i \in Range(l) \cup Range(m) => ws[i].state = "reapable" /\ ws[i].status # "none"
        /\ i \notin Range(l) \cup Range(m) => ws[i] = us[i]
  <2> SUFFICES ASSUME NEW i \in 1..NumUrbs
               PROVE  /\ ws[i].len = us[i].len /\ ws[i].data = us[i].data
                      /\ i \in Range(l) \cup Range(m) => ws[i].state = "reapable" /\ ws[i].status # "none"
                      /\ i \notin Range(l) \cup Range(m) => ws[i] = us[i]
    OBVIOUS
  <2>1. /\ vs[i].len = us[i].len /\ vs[i].data = us[i].data
        /\ i \in Range(l) => vs[i].state = "reapable" /\ vs[i].status # "none"
        /\ i \notin Range(l) => vs[i] = us[i]
    BY DEF Gives
  <2>2. /\ ws[i].len = vs[i].len /\ ws[i].data = vs[i].data
        /\ i \in Range(m) => ws[i].state = "reapable" /\ ws[i].status # "none"
        /\ i \notin Range(m) => ws[i] = vs[i]
    BY DEF Gives
  <2> QED
    BY <2>1, <2>2
<1>7. Gives(us, ws, l \o m)
  BY <1>1, <1>5, <1>6 DEF Gives
<1>8. l \in Seq(1..NumUrbs) /\ m \in Seq(1..NumUrbs)
  <2>1. Waiting(us) \subseteq 1..NumUrbs
    BY <1>1 DEF Waiting
  <2> QED
    BY <1>1, <1>3, <2>1, SeqMonotonic
<1> QED
  BY <1>1, <1>7, <1>8, ConcatAssociative

LEMMA WaitingIsFinite ==
  ASSUME UrbsAssumption, shape \in Shapes, NEW us, NEW r, ListInv(us, r), NEW S \in SUBSET Waiting(us)
  PROVE  S \in SUBSET Nat /\ IsFiniteSet(S)
<1>1. Waiting(us) \subseteq 1..NumUrbs
  BY DEF ListInv, Waiting
<1>2. NumUrbs \in Nat
  BY Splitting
<1>3. IsFiniteSet(1..NumUrbs)
  BY <1>2, FS_Interval
<1>4. S \in SUBSET (1..NumUrbs)
  BY <1>1
<1>5. S \in SUBSET Nat
  BY <1>2, <1>4
<1>6. IsFiniteSet(S)
  BY <1>3, <1>4, FS_Subset
<1> QED
  BY <1>5, <1>6

\* discard_urbs gives up what the kernel has of a range, as long as the device is there.
LEMMA GivingUp ==
  ASSUME UrbsAssumption, shape \in Shapes,
         NEW us, NEW r, ListInv(us, r), Waiting(us) = Pending, NEW R
  PROVE  /\ Gives(us, Discarded(us, R), GivenUp(R)) /\ DiscardedList(r, R) = r \o GivenUp(R)
         /\ \A i \in Range(GivenUp(R)) : Discarded(us, R)[i].status = "cancelled"
         /\ Range(GivenUp(R)) = IF gone THEN {} ELSE Waiting(us) \cap R
<1> DEFINE l == GivenUp(R)
           S == Waiting(us) \cap R
<1>1. S \in SUBSET Nat /\ IsFiniteSet(S) /\ S \subseteq Waiting(us)
  BY WaitingIsFinite
<1>2. l = IF gone THEN <<>> ELSE Descending(S)
  BY DEF GivenUp
<1> HIDE DEF l, S
<1>3. Descending(S) \in Seq(S) /\ IsInjective(Descending(S)) /\ Range(Descending(S)) = S
  BY <1>1, DescendingLists
<1>4. l \in Seq(Waiting(us)) /\ IsInjective(l) /\ Range(l) = IF gone THEN {} ELSE S
  <2>1. CASE gone
    BY <1>2, <2>1, EmptySeq DEF IsInjective, Range
  <2>2. CASE ~gone
    BY <1>1, <1>2, <1>3, <2>2, SeqMonotonic
  <2> QED
    BY <2>1, <2>2
<1>5. Gives(us, HandBack(us, l, "cancelled"), l) /\ \A i \in Range(l) : HandBack(us, l, "cancelled")[i].status = "cancelled"
  BY <1>4, HandingBack DEF UrbStatuses
<1> QED
  BY <1>4, <1>5 DEF Discarded, DiscardedList, l, S

LEMMA NothingGiven ==
  ASSUME NEW us, NEW r, ListInv(us, r)
  PROVE  Gives(us, us, <<>>) /\ r \o <<>> = r /\ Range(<<>>) = {}
<1>1. <<>> \in Seq(Waiting(us)) /\ IsInjective(<<>>) /\ Range(<<>>) = {}
  BY EmptySeq DEF IsInjective, Range
<1>2. Gives(us, us, <<>>)
  BY <1>1 DEF Gives, ListInv
<1>3. r \o <<>> = r
  BY DEF ListInv
<1> QED
  BY <1>1, <1>2, <1>3

LEMMA OneUrb ==
  ASSUME NEW S, NEW i \in S
  PROVE  <<i>> \in Seq(S) /\ IsInjective(<<i>>) /\ Range(<<i>>) = {i} /\ Len(<<i>>) = 1
<1>1. <<i>> \in Seq(S) /\ Len(<<i>>) = 1 /\ DOMAIN <<i>> = {1} /\ <<i>>[1] = i
  OBVIOUS
<1> QED
  BY <1>1 DEF IsInjective, Range

\* The steps that hand URBs back: what the kernel gives and what becomes of the list.
Given(l) == Gives(urbs, urbs', l) /\ reapable' = reapable \o l

LEMMA LaterUrbFailsGives ==
  ASSUME UrbsAssumption, shape \in Shapes, ListInv(urbs, reapable), LaterUrbFails
  PROVE  \E l : /\ Given(l) /\ \A i \in Range(l) : urbs'[i].status = "cancelled"
                /\ Range(l) \subseteq 1..next - 1
                /\ ~gone /\ ~Ended => Range(l) = Waiting(urbs) \cap 1..next - 1
                /\ ~gone /\ Ended => l = <<>>
                /\ gone => l = <<>>
<1>1. CASE Ended /\ ~gone
  <2>1. urbs' = urbs /\ reapable' = reapable
    BY <1>1 DEF LaterUrbFails
  <2>2. Given(<<>>) /\ Range(<<>>) = {}
    BY <2>1, NothingGiven DEF Given
  <2> QED
    BY <1>1, <2>2
<1>2. CASE ~(Ended /\ ~gone)
  <2> DEFINE l == GivenUp(1..next - 1)
  <2>1. urbs' = Discarded(urbs, 1..next - 1) /\ reapable' = DiscardedList(reapable, 1..next - 1)
    BY <1>2 DEF LaterUrbFails
  <2>2. Waiting(urbs) = Pending
    BY DEF Waiting, Pending
  <2>3. /\ Gives(urbs, Discarded(urbs, 1..next - 1), l) /\ DiscardedList(reapable, 1..next - 1) = reapable \o l
        /\ \A i \in Range(l) : Discarded(urbs, 1..next - 1)[i].status = "cancelled"
        /\ Range(l) = IF gone THEN {} ELSE Waiting(urbs) \cap 1..next - 1
    BY <2>2, GivingUp
  <2>4. gone => l = <<>>
    BY DEF GivenUp
  <2> QED
    BY <1>2, <2>1, <2>3, <2>4 DEF Given
<1> QED
  BY <1>1, <1>2

LEMMA CancelGives ==
  ASSUME UrbsAssumption, shape \in Shapes, ListInv(urbs, reapable), Cancel
  PROVE  \E l : /\ Given(l) /\ \A i \in Range(l) : urbs'[i].status = "cancelled"
                /\ Range(l) = IF gone THEN {} ELSE Waiting(urbs)
<1> DEFINE l == GivenUp(1..NumUrbs)
<1>1. urbs' = Discarded(urbs, 1..NumUrbs) /\ reapable' = DiscardedList(reapable, 1..NumUrbs)
  BY DEF Cancel
<1>2. Waiting(urbs) = Pending /\ Waiting(urbs) \cap 1..NumUrbs = Waiting(urbs)
  BY DEF Waiting, Pending, ListInv
<1>3. /\ Gives(urbs, Discarded(urbs, 1..NumUrbs), l) /\ DiscardedList(reapable, 1..NumUrbs) = reapable \o l
      /\ \A i \in Range(l) : Discarded(urbs, 1..NumUrbs)[i].status = "cancelled"
      /\ Range(l) = IF gone THEN {} ELSE Waiting(urbs) \cap 1..NumUrbs
  BY <1>2, GivingUp
<1> QED
  BY <1>1, <1>2, <1>3 DEF Given

LEMMA UnplugGives ==
  ASSUME UrbsAssumption, shape \in Shapes, ListInv(urbs, reapable), Unplug
  PROVE  \E l : /\ Given(l) /\ \A i \in Range(l) : urbs'[i].status = "nodev"
                /\ Range(l) = Waiting(urbs)
<1> DEFINE l == Ascending(Pending)
<1>1. urbs' = HandBack(urbs, l, "nodev") /\ reapable' = reapable \o l
  BY DEF Unplug
<1>2. Pending = Waiting(urbs)
  BY DEF Waiting, Pending
<1>3. Pending \in SUBSET Nat /\ IsFiniteSet(Pending)
  BY <1>2, WaitingIsFinite
<1>4. l \in Seq(Waiting(urbs)) /\ IsInjective(l) /\ Range(l) = Waiting(urbs)
  BY <1>2, <1>3, AscendingLists
<1>5. Gives(urbs, HandBack(urbs, l, "nodev"), l) /\ \A i \in Range(l) : HandBack(urbs, l, "nodev")[i].status = "nodev"
  BY <1>4, HandingBack DEF UrbStatuses
<1> QED
  BY <1>1, <1>4, <1>5 DEF Given

LEMMA HeadIsWaiting ==
  ASSUME UrbsAssumption, shape \in Shapes, ListInv(urbs, reapable), Pending # {}
  PROVE  /\ HeadUrb \in Waiting(urbs) /\ \A i \in Waiting(urbs) : HeadUrb =< i
         /\ HeadUrb \in 1..NumUrbs /\ HeadUrb \in Outstanding(urbs)
         /\ <<HeadUrb>> \in Seq(Waiting(urbs)) /\ IsInjective(<<HeadUrb>>) /\ Range(<<HeadUrb>>) = {HeadUrb}
<1>1. Pending = Waiting(urbs)
  BY DEF Waiting, Pending
<1>2. Pending \in SUBSET Nat
  BY <1>1, WaitingIsFinite
<1>3. HeadUrb \in Waiting(urbs) /\ \A i \in Waiting(urbs) : HeadUrb =< i
  BY <1>1, <1>2, HeadIsLeast
<1>4. HeadUrb \in 1..NumUrbs /\ HeadUrb \in Outstanding(urbs)
  BY <1>3 DEF Waiting, Outstanding, ListInv
<1> QED
  BY <1>3, <1>4, OneUrb

LEMMA IsoDoneGives ==
  ASSUME UrbsAssumption, shape \in Shapes, ListInv(urbs, reapable), IsoDone
  PROVE  Given(<<HeadUrb>>) /\ urbs'[HeadUrb].status = "ok"
<1>1. urbs' = HandBack(urbs, <<HeadUrb>>, "ok") /\ reapable' = reapable \o <<HeadUrb>>
  <2>1. Append(reapable, HeadUrb) = reapable \o <<HeadUrb>>
    BY HeadIsWaiting, AppendIsConcat DEF ListInv, IsoDone
  <2> QED
    BY <2>1 DEF IsoDone
<1>2. /\ Gives(urbs, HandBack(urbs, <<HeadUrb>>, "ok"), <<HeadUrb>>)
      /\ \A i \in Range(<<HeadUrb>>) : HandBack(urbs, <<HeadUrb>>, "ok")[i].status = "ok"
  BY HeadIsWaiting, HandingBack DEF UrbStatuses, IsoDone
<1> QED
  BY <1>1, <1>2, HeadIsWaiting DEF Given, IsoDone

\* A control transfer is one URB.
LEMMA ControlIsOne ==
  ASSUME UrbsAssumption, shape \in Shapes, shape.type = "control"
  PROVE  NumUrbs = 1
<1> DEFINE l == shape.length
<1>1. l \in Nat
  BY DEF UrbsAssumption
<1>2. UrbLen = IF l = 0 THEN 1 ELSE l
  BY DEF UrbLen, Whole
<1>3. NumUrbs = IF l = 0 THEN 1 ELSE (l + l - 1) \div l
  BY <1>2 DEF NumUrbs
<1> HIDE DEF l
<1>4. l # 0 => (l + l - 1) \div l = 1
  BY <1>1
<1> QED
  BY <1>3, <1>4

LEMMA ListedIsEarlier ==
  ASSUME NEW us, NEW r, ListInv(us, r), NEW i \in Range(r), NEW j \in Waiting(us)
  PROVE  Earlier(us, r, i, j)
<1>1. \E p \in 1..Len(r) : r[p] = i
  BY LenProperties DEF ListInv, Range
<1> QED
  BY <1>1 DEF Earlier, Waiting

\* A URB ends, and the kernel cancels those that continue it.
LEMMA RestIsListed ==
  ASSUME UrbsAssumption, shape \in Shapes, ListInv(urbs, reapable), Pending # {}
  PROVE  \A B \in BOOLEAN : LET rest == IF B THEN Ascending(Pending \ {HeadUrb}) ELSE <<>>
                            IN  /\ rest \in Seq(Waiting(urbs) \ {HeadUrb}) /\ IsInjective(rest)
                                /\ Range(rest) = IF B THEN Waiting(urbs) \ {HeadUrb} ELSE {}
<1> DEFINE W == Waiting(urbs) \ {HeadUrb}
<1>1. W \in SUBSET Nat /\ IsFiniteSet(W) /\ W = Pending \ {HeadUrb}
  <2>1. W \in SUBSET Nat /\ IsFiniteSet(W)
    BY WaitingIsFinite
  <2> QED
    BY <2>1 DEF Waiting, Pending
<1> HIDE DEF W
<1>2. Ascending(W) \in Seq(W) /\ IsInjective(Ascending(W)) /\ Range(Ascending(W)) = W
  BY <1>1, AscendingLists
<1>3. <<>> \in Seq(W) /\ IsInjective(<<>>) /\ Range(<<>>) = {}
  BY EmptySeq DEF IsInjective, Range
<1> QED
  BY <1>1, <1>2, <1>3 DEF W

LEMMA EndingGives ==
  ASSUME UrbsAssumption, shape \in Shapes, ListInv(urbs, reapable), Pending # {},
         NEW s \in UrbStatuses \ {"none"},
         NEW rest \in Seq(Waiting(urbs) \ {HeadUrb}), IsInjective(rest),
         urbs' = HandBack(HandBack(urbs, <<HeadUrb>>, s), rest, "cancelled"),
         reapable' = reapable \o <<HeadUrb>> \o rest
  PROVE  \E l : /\ Given(l) /\ urbs'[HeadUrb].status = s
                /\ Range(l) = {HeadUrb} \cup Range(rest)
                /\ \A i \in Range(l) \ {HeadUrb} : urbs'[i].status = "cancelled"
                /\ \A j \in Waiting(urbs) \ {HeadUrb} : Earlier(urbs', reapable', HeadUrb, j)
<1> DEFINE h == HeadUrb
           f == <<h>>
           vs == HandBack(urbs, f, s)
           W == Waiting(urbs)
           l == f \o rest
<1>1. h \in W /\ h \in 1..NumUrbs /\ f \in Seq(W) /\ IsInjective(f) /\ Range(f) = {h}
  BY HeadIsWaiting
<1>2. Gives(urbs, vs, f) /\ vs[h].status = s
  BY <1>1, HandingBack
<1>3. ListInv(vs, reapable \o f) /\ Waiting(vs) = W \ {h} /\ Pending = W
  <2>1. ListInv(vs, reapable \o f) /\ Waiting(vs) = W \ Range(f)
    BY <1>2, GivesList
  <2> QED
    BY <1>1, <2>1 DEF Waiting, Pending
<1>4. rest \in Seq(W \ {h}) /\ IsInjective(rest) /\ Range(rest) \subseteq W \ {h}
  BY ElementOfSeq, LenProperties DEF Range
<1>4a. urbs' = HandBack(vs, rest, "cancelled") /\ reapable' = (reapable \o f) \o rest
  OBVIOUS
<1> HIDE DEF vs, f
<1>5. Gives(vs, urbs', rest) /\ \A i \in Range(rest) : urbs'[i].status = "cancelled"
  <2>1. rest \in Seq(Waiting(vs)) /\ "cancelled" \in UrbStatuses \ {"none"}
    BY <1>3, <1>4 DEF UrbStatuses
  <2> QED
    <3> DEFINE r == reapable \o f
    <3>1. ListInv(vs, r)
      BY <1>3
    <3> HIDE DEF r
    <3>2. Gives(vs, HandBack(vs, rest, "cancelled"), rest)
          /\ \A i \in Range(rest) : HandBack(vs, rest, "cancelled")[i].status = "cancelled"
      BY <1>4, <2>1, <3>1, HandingBack
    <3> QED
      BY <1>4a, <3>2
<1>6. Gives(urbs, urbs', l) /\ reapable' = reapable \o l
  <2>1. Gives(urbs, urbs', f \o rest) /\ reapable \o (f \o rest) = (reapable \o f) \o rest
    BY <1>2, <1>5, GivesTwice
  <2> QED
    BY <1>4a, <2>1
<1>7. Range(l) = {h} \cup Range(rest)
  <2>1. rest \in Seq(W)
    BY <1>4, SeqMonotonic
  <2>2. Range(f) \cap Range(rest) = {}
    BY <1>1, <1>4
  <2> QED
    <3>1. Range(f \o rest) = Range(f) \cup Range(rest)
      BY <1>1, <1>4, <2>1, <2>2, Appending
    <3> QED
      BY <1>1, <3>1
<1>8. urbs'[h].status = s
  BY <1>1, <1>2, <1>4, <1>5 DEF Gives
<1>9. ASSUME NEW j \in W \ {h} PROVE Earlier(urbs', reapable', h, j)
  <2>1. j \in Waiting(vs) /\ h \in Outstanding(vs) /\ j \in Outstanding(vs) /\ h \in Range(reapable \o f)
    BY <1>1, <1>2, <1>3 DEF Waiting, Outstanding, Gives, ListInv
  <2>2. Earlier(vs, reapable \o f, h, j)
    BY <1>3, <2>1, ListedIsEarlier
  <2>3. OrderKept(vs, reapable \o f, urbs', (reapable \o f) \o rest)
    BY <1>3, <1>5, GivesList
  <2> QED
    BY <1>4a, <2>1, <2>2, <2>3 DEF OrderKept
<1> QED
  BY <1>4, <1>5, <1>6, <1>7, <1>8, <1>9 DEF Given

LEMMA ReapMoves ==
  ASSUME UrbsAssumption, shape \in Shapes, ListInv(urbs, reapable), Reap, NEW vs,
         vs = [urbs EXCEPT ![Head(reapable)].state = "reaped"]
  PROVE  /\ reapable # <<>> /\ Takes(urbs, vs, reapable)
         /\ \E l : /\ Gives(vs, urbs', l) /\ reapable' = Tail(reapable) \o l
                   /\ \A i \in Range(l) : urbs'[i].status = "cancelled"
                   /\ Range(l) = IF gone \/ shape.type \notin {"bulk", "interrupt"} THEN {}
                                 ELSE Waiting(urbs) \cap RestDiscarded(Head(reapable), urbs[Head(reapable)], retired + 1 = NumUrbs)
<1> DEFINE h == Head(reapable)
<1>1. reapable # <<>> /\ h \in 1..NumUrbs /\ urbs \in [1..NumUrbs -> Urb]
  BY HeadTailProperties DEF Reap, CanReap, ListInv
<1>2. Takes(urbs, vs, reapable)
  BY <1>1 DEF Takes, Urb, UrbStates
<1>3. ListInv(vs, Tail(reapable)) /\ Waiting(vs) = Waiting(urbs)
  BY <1>1, <1>2, TakesList
<1>4. CASE ReapBulk
  <2> DEFINE R == RestDiscarded(h, urbs[h], retired + 1 = NumUrbs)
             l == GivenUp(R)
  <2>1. urbs' = Discarded(vs, R) /\ reapable' = DiscardedList(Tail(reapable), R) /\ shape.type \in {"bulk", "interrupt"}
    BY <1>4 DEF ReapBulk
  <2> HIDE DEF R
  <2>2. Waiting(vs) = Pending
    BY <1>3 DEF Waiting, Pending
  <2>3. /\ Gives(vs, Discarded(vs, R), l) /\ DiscardedList(Tail(reapable), R) = Tail(reapable) \o l
        /\ \A i \in Range(l) : Discarded(vs, R)[i].status = "cancelled"
        /\ Range(l) = IF gone THEN {} ELSE Waiting(vs) \cap R
    <3> DEFINE t == Tail(reapable)
    <3>1. ListInv(vs, t)
      BY <1>3
    <3> HIDE DEF t
    <3>2. /\ Gives(vs, Discarded(vs, R), GivenUp(R)) /\ DiscardedList(t, R) = t \o GivenUp(R)
          /\ \A i \in Range(GivenUp(R)) : Discarded(vs, R)[i].status = "cancelled"
          /\ Range(GivenUp(R)) = IF gone THEN {} ELSE Waiting(vs) \cap R
      BY <2>2, <3>1, GivingUp
    <3> QED
      BY <3>2 DEF t
  <2>4. \E m : /\ Gives(vs, urbs', m) /\ reapable' = Tail(reapable) \o m
               /\ \A i \in Range(m) : urbs'[i].status = "cancelled"
               /\ Range(m) = IF gone THEN {} ELSE Waiting(urbs) \cap R
    BY <1>3, <2>1, <2>3
  <2> QED
    BY <1>1, <1>2, <2>1, <2>4 DEF R
<1>5. CASE ReapControl \/ ReapIso
  <2>1. shape.type \notin {"bulk", "interrupt"} /\ reapable' = Tail(reapable)
    BY <1>5 DEF ReapControl, ReapIso
  <2>2. urbs' = vs
    <3>1. CASE ReapIso
      BY <3>1 DEF ReapIso
    <3>2. CASE ReapControl
      <4>1. h = 1
        BY <1>1, <3>2, ControlIsOne DEF ReapControl
      <4> QED
        BY <3>2, <4>1 DEF ReapControl
    <3> QED
      BY <1>5, <3>1, <3>2
  <2>3. Gives(vs, vs, <<>>) /\ Tail(reapable) \o <<>> = Tail(reapable) /\ Range(<<>>) = {}
    BY <1>3, NothingGiven
  <2> QED
    BY <1>1, <1>2, <2>1, <2>2, <2>3
<1> QED
  BY <1>4, <1>5 DEF Reap

LEMMA ShortPacketGives ==
  ASSUME UrbsAssumption, shape \in Shapes, ListInv(urbs, reapable), ShortPacket
  PROVE  \E l : /\ Given(l) /\ urbs'[HeadUrb].status = IF ShortEnds(HeadUrb) THEN "short" ELSE "ok"
                /\ Range(l) = {HeadUrb} \cup (IF ShortEnds(HeadUrb) THEN Waiting(urbs) \ {HeadUrb} ELSE {})
                /\ \A i \in Range(l) \ {HeadUrb} : urbs'[i].status = "cancelled"
                /\ \A j \in Waiting(urbs) \ {HeadUrb} : Earlier(urbs', reapable', HeadUrb, j)
<1> DEFINE B == ShortEnds(HeadUrb)
           s == IF B THEN "short" ELSE "ok"
           rest == IF B THEN Ascending(Pending \ {HeadUrb}) ELSE <<>>
<1>1. /\ urbs' = HandBack(HandBack(urbs, <<HeadUrb>>, s), rest, "cancelled")
      /\ reapable' = reapable \o <<HeadUrb>> \o rest /\ Pending # {}
  BY DEF ShortPacket
<1>2. B \in BOOLEAN
  BY DEF ShortEnds
<1> HIDE DEF B
<1>3. s \in UrbStatuses \ {"none"}
  BY DEF UrbStatuses
<1>4. /\ rest \in Seq(Waiting(urbs) \ {HeadUrb}) /\ IsInjective(rest)
      /\ Range(rest) = IF B THEN Waiting(urbs) \ {HeadUrb} ELSE {}
  BY <1>1, <1>2, RestIsListed
<1> HIDE DEF s, rest
<1>5. \E l : /\ Given(l) /\ urbs'[HeadUrb].status = s
             /\ Range(l) = {HeadUrb} \cup Range(rest)
             /\ \A i \in Range(l) \ {HeadUrb} : urbs'[i].status = "cancelled"
             /\ \A j \in Waiting(urbs) \ {HeadUrb} : Earlier(urbs', reapable', HeadUrb, j)
  BY <1>1, <1>3, <1>4, EndingGives
<1> QED
  BY <1>4, <1>5 DEF s, B

LEMMA BusErrorGives ==
  ASSUME UrbsAssumption, shape \in Shapes, ListInv(urbs, reapable),
         NEW s \in {"stall", "proto", "overflow"}, BusError(s)
  PROVE  \E l : /\ Given(l) /\ urbs'[HeadUrb].status = s
                /\ Range(l) = {HeadUrb} \cup (IF Continues THEN Waiting(urbs) \ {HeadUrb} ELSE {})
                /\ \A i \in Range(l) \ {HeadUrb} : urbs'[i].status = "cancelled"
                /\ \A j \in Waiting(urbs) \ {HeadUrb} : Earlier(urbs', reapable', HeadUrb, j)
<1> DEFINE rest == IF Continues THEN Ascending(Pending \ {HeadUrb}) ELSE <<>>
<1>1. /\ urbs' = HandBack(HandBack(urbs, <<HeadUrb>>, s), rest, "cancelled")
      /\ reapable' = reapable \o <<HeadUrb>> \o rest /\ Pending # {}
  BY DEF BusError
<1>2. Continues \in BOOLEAN
  BY DEF Continues
<1>3. s \in UrbStatuses \ {"none"}
  BY DEF UrbStatuses
<1>4. /\ rest \in Seq(Waiting(urbs) \ {HeadUrb}) /\ IsInjective(rest)
      /\ Range(rest) = IF Continues THEN Waiting(urbs) \ {HeadUrb} ELSE {}
  BY <1>1, <1>2, RestIsListed
<1> HIDE DEF rest
<1>5. \E l : /\ Given(l) /\ urbs'[HeadUrb].status = s
             /\ Range(l) = {HeadUrb} \cup Range(rest)
             /\ \A i \in Range(l) \ {HeadUrb} : urbs'[i].status = "cancelled"
             /\ \A j \in Waiting(urbs) \ {HeadUrb} : Earlier(urbs', reapable', HeadUrb, j)
  BY <1>1, <1>3, <1>4, EndingGives
<1> QED
  BY <1>4, <1>5

LEMMA PacketGives ==
  ASSUME UrbsAssumption, shape \in Shapes, ListInv(urbs, reapable), Packet, received \in Nat, NEW full,
         full = [urbs EXCEPT ![HeadUrb].data = Append(@, received + 1)]
  PROVE  /\ HeadUrb \in Waiting(urbs) /\ ListInv(full, reapable)
         /\ \E l : /\ Gives(full, urbs', l) /\ reapable' = reapable \o l
                   /\ Range(l) \subseteq {HeadUrb} /\ \A i \in Range(l) : urbs'[i].status = "ok"
                   /\ HeadUrb \in Range(l) <=> Len(urbs[HeadUrb].data) + 1 = urbs[HeadUrb].len
<1> DEFINE h == HeadUrb
<1>1. h \in Waiting(urbs) /\ h \in 1..NumUrbs
  BY HeadIsWaiting DEF Packet
<1>2. ListInv(full, reapable) /\ Waiting(full) = Waiting(urbs)
  BY <1>1, PacketList
<1>3. /\ Len(urbs[h].data) + 1 = urbs[h].len => urbs' = HandBack(full, <<h>>, "ok") /\ reapable' = Append(reapable, h)
      /\ Len(urbs[h].data) + 1 # urbs[h].len => urbs' = full /\ reapable' = reapable
  BY DEF Packet
<1>4. CASE Len(urbs[h].data) + 1 = urbs[h].len
  <2>1. <<h>> \in Seq(Waiting(full)) /\ IsInjective(<<h>>) /\ Range(<<h>>) = {h}
    BY <1>1, <1>2, OneUrb
  <2>2. reapable' = reapable \o <<h>>
    BY <1>1, <1>3, <1>4, AppendIsConcat DEF ListInv
  <2>3. Gives(full, HandBack(full, <<h>>, "ok"), <<h>>) /\ \A i \in Range(<<h>>) : HandBack(full, <<h>>, "ok")[i].status = "ok"
    BY <1>2, <2>1, HandingBack DEF UrbStatuses
  <2> QED
    BY <1>1, <1>2, <1>3, <1>4, <2>1, <2>2, <2>3
<1>5. CASE Len(urbs[h].data) + 1 # urbs[h].len
  <2>1. Gives(full, full, <<>>) /\ reapable \o <<>> = reapable /\ Range(<<>>) = {}
    BY <1>2, NothingGiven
  <2> QED
    BY <1>1, <1>2, <1>3, <1>5, <2>1
<1> QED
  BY <1>4, <1>5

-----------------------------------------------------------------------------
\* --- the URBs are counted ----------------------------------------------------

\* Overflow happens in the last URB, when the kernel has no other and none is behind it.
Overflow(us, r) ==
  \A i \in Outstanding(us) : us[i].status = "overflow" => i = NumUrbs /\ Waiting(us) = {} /\ r[Len(r)] = i

Basics ==
  /\ shape \in Shapes
  /\ phase \in {"idle", "submitting", "inflight", "refused", "done"}
  /\ action \in {"NORMAL", "SUBMIT_FAILED", "CANCELLED", "COMPLETED_EARLY", "ERROR"}
  /\ gone \in BOOLEAN /\ retired \in 0..NumUrbs

\* What is not retired is outstanding, and what was never submitted is retired.
Counted ==
  /\ phase = "submitting" =>
       /\ next \in 1..NumUrbs /\ retired = 0 /\ action = "NORMAL"
       /\ \A i \in 1..NumUrbs : urbs[i].state \in IF i < next THEN {"pending", "reapable"} ELSE {"new"}
  /\ phase = "inflight" =>
       /\ next \in 2..NumUrbs + 1 /\ retired + Cardinality(Outstanding(urbs)) = NumUrbs
       /\ \A i \in 1..NumUrbs : urbs[i].state = "new" <=> i >= next
       /\ action = "NORMAL" => next = NumUrbs + 1
  /\ gone \/ ~Active => Waiting(urbs) = {}
  /\ ~Active => reapable = <<>>

UrbsInv == Basics /\ Counted /\ (Active => ListInv(urbs, reapable) /\ Overflow(urbs, reapable))

LEMMA SameShape ==
  ASSUME shape' = shape
  PROVE  /\ NumUrbs' = NumUrbs /\ UrbLen' = UrbLen /\ Continues' = Continues
         /\ \A i : LenOf(i)' = LenOf(i) /\ Start(i)' = Start(i) /\ ShortEnds(i)' = ShortEnds(i)
<1>1. UrbLen' = UrbLen /\ Continues' = Continues
  BY DEF UrbLen, Whole, Continues
<1>2. NumUrbs' = NumUrbs
  BY <1>1 DEF NumUrbs
<1>3. \A i : Start(i)' = Start(i)
  BY <1>1 DEF Start
<1> QED
  BY <1>1, <1>2, <1>3 DEF LenOf, ShortEnds

LEMMA ListsPrimed ==
  ASSUME shape' = shape
  PROVE  /\ ListInv(urbs', reapable') => ListInv(urbs, reapable)'
         /\ Overflow(urbs', reapable') => Overflow(urbs, reapable)'
<1>1. NumUrbs' = NumUrbs /\ \A i : LenOf(i)' = LenOf(i)
  BY SameShape
<1> QED
  BY <1>1 DEF ListInv, Overflow, Outstanding, Waiting

LEMMA GivesOverflow ==
  ASSUME NEW us, NEW vs, NEW r, NEW l, ListInv(us, r), Gives(us, vs, l), Overflow(us, r),
         \A i \in Range(l) : vs[i].status = "overflow" => i = NumUrbs /\ Waiting(us) = {i}
  PROVE  Overflow(vs, r \o l)
<1>1. /\ Outstanding(vs) = Outstanding(us) /\ Waiting(vs) = Waiting(us) \ Range(l)
  <2>1. Outstanding(vs) = Outstanding(us)
    BY GivesList, Zenon
  <2>2. l \in Seq(Waiting(us)) /\ Waiting(us) \subseteq 1..NumUrbs
    BY DEF ListInv, Gives, Waiting
  <2>3. Range(l) \subseteq 1..NumUrbs
    BY <2>2, LenProperties, ElementOfSeq DEF Range
  <2> QED
    BY <2>1, <2>3 DEF Waiting, Gives, ListInv
<1>2. r \in Seq(1..NumUrbs) /\ l \in Seq(Waiting(us)) /\ Waiting(us) \subseteq 1..NumUrbs
  BY DEF ListInv, Gives, Waiting
<1>3. l \in Seq(1..NumUrbs) /\ DOMAIN l = 1..Len(l) /\ Len(l) \in Nat /\ Range(l) \subseteq Waiting(us)
  <2>1. l \in Seq(1..NumUrbs) /\ DOMAIN l = 1..Len(l) /\ Len(l) \in Nat
    BY <1>2, SeqMonotonic, LenProperties
  <2> QED
    BY <1>2, <2>1, ElementOfSeq DEF Range
<1> SUFFICES ASSUME NEW i \in Outstanding(vs), vs[i].status = "overflow"
             PROVE  i = NumUrbs /\ Waiting(vs) = {} /\ (r \o l)[Len(r \o l)] = i
  BY DEF Overflow
<1>4. CASE i \notin Range(l)
  <2>1. us[i].status = "overflow" /\ i \in Outstanding(us)
    BY <1>1, <1>4 DEF Gives, Outstanding, ListInv
  <2>2. i = NumUrbs /\ Waiting(us) = {} /\ r[Len(r)] = i
    BY <2>1 DEF Overflow
  <2>3. Range(l) = {}
    BY <1>3, <2>2
  <2>4. l = <<>>
    <3>1. Len(l) = 0
      <4>1. Len(l) # 0 => l[1] \in Range(l)
        BY <1>3 DEF Range
      <4> QED
        BY <2>3, <4>1
    <3> QED
      BY <1>3, <3>1, EmptySeq
  <2>5. r \o l = r
    BY <1>2, <2>4
  <2> QED
    BY <1>1, <2>2, <2>5
<1>5. CASE i \in Range(l)
  <2>1. i = NumUrbs /\ Waiting(us) = {i} /\ Waiting(vs) = {}
    BY <1>1, <1>5
  <2>2. Range(l) = {i}
    BY <1>3, <1>5, <2>1
  <2>3. Len(l) \in 1..Len(l) /\ l[Len(l)] = i
    <3>1. Len(l) # 0
      BY <1>3, <1>5 DEF Range
    <3>2. Len(l) \in 1..Len(l)
      BY <1>3, <3>1
    <3> QED
      BY <1>3, <2>2, <3>2 DEF Range
  <2>4. Len(r \o l) = Len(r) + Len(l) /\ (r \o l)[Len(r) + Len(l)] = l[Len(l)]
    <3>1. Len(r) \in Nat /\ Len(l) \in Nat /\ Len(l) # 0
      BY <1>2, <2>3, LenProperties
    <3>2. Len(r) + Len(l) \in 1..Len(r) + Len(l) /\ ~(Len(r) + Len(l) =< Len(r)) /\ Len(r) + Len(l) - Len(r) = Len(l)
      BY <3>1
    <3> QED
      BY <1>2, <1>3, <3>2, ConcatProperties
  <2> QED
    BY <2>1, <2>3, <2>4
<1> QED
  BY <1>4, <1>5

LEMMA TakesOverflow ==
  ASSUME NEW us, NEW vs, NEW r, r # <<>>, ListInv(us, r), Takes(us, vs, r), Overflow(us, r)
  PROVE  Overflow(vs, Tail(r))
<1>1. /\ Outstanding(vs) = Outstanding(us) \ {Head(r)} /\ Waiting(vs) = Waiting(us)
  BY TakesList
<1>2. /\ r \in Seq(1..NumUrbs) /\ Len(r) \in Nat /\ Len(r) # 0 /\ Head(r) = r[1]
      /\ Len(Tail(r)) = Len(r) - 1 /\ \A p \in 1..Len(Tail(r)) : Tail(r)[p] = r[p + 1]
  BY HeadTailProperties, LenProperties, EmptySeq DEF ListInv
<1> SUFFICES ASSUME NEW i \in Outstanding(vs), vs[i].status = "overflow"
             PROVE  i = NumUrbs /\ Waiting(vs) = {} /\ Tail(r)[Len(Tail(r))] = i
  BY DEF Overflow
<1>3. i \in Outstanding(us) /\ i # r[1] /\ us[i].status = "overflow"
  BY <1>1, <1>2 DEF Takes, Outstanding, ListInv
<1>4. i = NumUrbs /\ Waiting(us) = {} /\ r[Len(r)] = i
  BY <1>3 DEF Overflow
<1>5. Len(r) - 1 \in 1..Len(r) - 1 /\ Len(r) - 1 + 1 = Len(r)
  <2>1. Len(r) # 1
    BY <1>3, <1>4
  <2> QED
    BY <1>2, <2>1
<1> QED
  BY <1>1, <1>2, <1>4, <1>5

LEMMA GivesWaiting ==
  ASSUME NEW us, NEW vs, NEW r, NEW l, ListInv(us, r), Gives(us, vs, l)
  PROVE  \A i : i \in Waiting(vs) <=> i \in Waiting(us) /\ i \notin Range(l)
<1>1. l \in Seq(Waiting(us)) /\ Waiting(us) \subseteq 1..NumUrbs
  BY DEF ListInv, Gives, Waiting
<1>2. Range(l) \subseteq 1..NumUrbs
  BY <1>1, LenProperties, ElementOfSeq DEF Range
<1> QED
  BY <1>2 DEF Waiting, Gives, ListInv

LEMMA GivenWaits ==
  ASSUME NEW us, NEW vs, NEW l, Gives(us, vs, l), NEW i \in Range(l)
  PROVE  i \in Waiting(us)
<1>1. l \in Seq(Waiting(us)) /\ DOMAIN l = 1..Len(l)
  BY LenProperties DEF Gives
<1>2. \A p \in 1..Len(l) : l[p] \in Waiting(us)
  BY <1>1, ElementOfSeq
<1> QED
  BY <1>1, <1>2 DEF Range

\* A step that only hands back URBs of a transfer in flight keeps the count.
LEMMA GivesUrbs ==
  ASSUME UrbsAssumption, UrbsInv, Active,
         NEW us, ListInv(us, reapable), Overflow(us, reapable),
         \A i \in 1..NumUrbs : us[i].state = urbs[i].state,
         NEW l, Gives(us, urbs', l), reapable' = reapable \o l,
         \A i \in Range(l) : urbs'[i].status = "overflow" => i = NumUrbs /\ Waiting(us) = {i},
         shape' = shape, phase' = phase, next' = next, retired' = retired,
         \/ action' = action
         \/ phase = "inflight" /\ action' \in {"SUBMIT_FAILED", "CANCELLED", "COMPLETED_EARLY", "ERROR"},
         gone' = gone \/ (gone' = TRUE /\ Range(l) = Waiting(us))
  PROVE  UrbsInv'
<1>1. ListInv(urbs, reapable) /\ Basics /\ Counted
  BY DEF UrbsInv
<1>2. Outstanding(us) = Outstanding(urbs) /\ Waiting(us) = Waiting(urbs)
  BY <1>1 DEF Outstanding, Waiting, ListInv
<1>3. ListInv(urbs', reapable') /\ Outstanding(urbs') = Outstanding(urbs) /\ Waiting(urbs') = Waiting(urbs) \ Range(l)
  <2>1. ListInv(urbs', reapable \o l) /\ Outstanding(urbs') = Outstanding(us) /\ Waiting(urbs') = Waiting(us) \ Range(l)
    BY GivesList
  <2> QED
    BY <1>2, <2>1
<1>4. Overflow(urbs', reapable')
  <2>1. Overflow(urbs', reapable \o l)
    BY GivesOverflow
  <2> QED
    BY <2>1
<1>5. ListInv(urbs, reapable)' /\ Overflow(urbs, reapable)' /\ NumUrbs' = NumUrbs
  BY <1>3, <1>4, ListsPrimed, SameShape
<1>6. \A i \in 1..NumUrbs : /\ urbs'[i].state = "new" <=> urbs[i].state = "new"
                            /\ urbs[i].state \in {"pending", "reapable"} => urbs'[i].state \in {"pending", "reapable"}
  <2> SUFFICES ASSUME NEW i \in 1..NumUrbs
               PROVE  /\ urbs'[i].state = "new" <=> urbs[i].state = "new"
                      /\ urbs[i].state \in {"pending", "reapable"} => urbs'[i].state \in {"pending", "reapable"}
    OBVIOUS
  <2>1. CASE i \in Range(l)
    <3>1. i \in Waiting(us)
      BY <2>1, GivenWaits
    <3>2. urbs'[i].state = "reapable" /\ us[i].state = "pending"
      BY <2>1, <3>1 DEF Gives, Waiting
    <3> QED
      BY <3>2
  <2>2. CASE i \notin Range(l)
    BY <2>2 DEF Gives
  <2> QED
    BY <2>1, <2>2
<1>7. Basics'
  BY <1>1, <1>5 DEF Basics
<1>8. Counted'
  <2>1. Outstanding(urbs)' = Outstanding(urbs) /\ Waiting(urbs)' = Waiting(urbs) \ Range(l) /\ Active' = Active
    BY <1>3 DEF Outstanding, Waiting, Active
  <2>2. (phase = "submitting" =>
           /\ next \in 1..NumUrbs /\ retired = 0 /\ action = "NORMAL"
           /\ \A i \in 1..NumUrbs : urbs[i].state \in IF i < next THEN {"pending", "reapable"} ELSE {"new"})'
    <3> SUFFICES ASSUME phase = "submitting"
                 PROVE  /\ next' \in 1..NumUrbs /\ retired' = 0 /\ action' = "NORMAL"
                        /\ \A i \in 1..NumUrbs : urbs'[i].state \in IF i < next THEN {"pending", "reapable"} ELSE {"new"}
      BY <1>5
    <3>1. /\ next \in 1..NumUrbs /\ retired = 0 /\ action = "NORMAL"
          /\ \A i \in 1..NumUrbs : urbs[i].state \in IF i < next THEN {"pending", "reapable"} ELSE {"new"}
      BY <1>1 DEF Counted
    <3> QED
      BY <1>6, <3>1
  <2>3. (phase = "inflight" =>
           /\ next \in 2..NumUrbs + 1 /\ retired + Cardinality(Outstanding(urbs)) = NumUrbs
           /\ \A i \in 1..NumUrbs : urbs[i].state = "new" <=> i >= next
           /\ action = "NORMAL" => next = NumUrbs + 1)'
    <3> SUFFICES ASSUME phase = "inflight"
                 PROVE  /\ next' \in 2..NumUrbs + 1 /\ retired' + Cardinality(Outstanding(urbs)') = NumUrbs
                        /\ \A i \in 1..NumUrbs : urbs'[i].state = "new" <=> i >= next'
                        /\ action' = "NORMAL" => next' = NumUrbs + 1
      BY <1>5
    <3>1. /\ next \in 2..NumUrbs + 1 /\ retired + Cardinality(Outstanding(urbs)) = NumUrbs
          /\ \A i \in 1..NumUrbs : urbs[i].state = "new" <=> i >= next
          /\ action = "NORMAL" => next = NumUrbs + 1
      BY <1>1 DEF Counted
    <3> QED
      BY <1>6, <2>1, <3>1
  <2>4. (gone \/ ~Active)' => Waiting(urbs)' = {}
    BY <1>1, <1>2, <2>1 DEF Counted
  <2> QED
    BY <2>1, <2>2, <2>3, <2>4 DEF Counted
<1> QED
  BY <1>5, <1>7, <1>8 DEF UrbsInv

LEMMA SubmitUrbs ==
  ASSUME UrbsAssumption, UrbsInv, Submit
  PROVE  UrbsInv'
<1>1. shape \in Shapes /\ phase = "idle" /\ reapable = <<>> /\ Waiting(urbs) = {} /\ gone \in BOOLEAN
      /\ shape' = shape /\ reapable' = reapable /\ gone' = gone
  BY DEF UrbsInv, Basics, Counted, Active, Submit, busVars
<1>2. NumUrbs \in Nat \ {0} /\ \A i \in 1..NumUrbs : LenOf(i) \in Nat /\ Start(i) \in Nat
  BY <1>1, Splitting
<1>3. urbs' = [i \in 1..NumUrbs |-> [len |-> LenOf(i), state |-> "new", status |-> "none",
                data |-> IF shape.type = "iso" THEN [k \in 1..LenOf(i) |-> Start(i) + k] ELSE <<>>]]
  BY DEF Submit
<1>4. \A i \in 1..NumUrbs : /\ urbs'[i] \in Urb /\ urbs'[i].len = LenOf(i)
                            /\ urbs'[i].state = "new" /\ urbs'[i].status = "none"
  <2> SUFFICES ASSUME NEW i \in 1..NumUrbs
               PROVE  /\ urbs'[i] \in Urb /\ urbs'[i].len = LenOf(i)
                      /\ urbs'[i].state = "new" /\ urbs'[i].status = "none"
    OBVIOUS
  <2> DEFINE d == IF shape.type = "iso" THEN [k \in 1..LenOf(i) |-> Start(i) + k] ELSE <<>>
  <2>1. d \in Seq(Nat)
    <3>1. LenOf(i) \in Nat /\ Start(i) \in Nat
      BY <1>2
    <3>2. [k \in 1..LenOf(i) |-> Start(i) + k] \in Seq(Nat)
      BY <3>1
    <3> QED
      BY <3>2
  <2>2. urbs'[i] = [len |-> LenOf(i), state |-> "new", status |-> "none", data |-> d]
    BY <1>3
  <2> HIDE DEF d
  <2> QED
    BY <1>2, <2>1, <2>2 DEF Urb, UrbStates, UrbStatuses
<1>5. ListInv(urbs', reapable')
  <2>1. urbs' \in [1..NumUrbs -> Urb]
    BY <1>3, <1>4
  <2>2. reapable' \in Seq(1..NumUrbs) /\ IsInjective(reapable') /\ Range(reapable') = {}
    BY <1>1, EmptySeq DEF IsInjective, Range
  <2> QED
    BY <1>4, <2>1, <2>2 DEF ListInv
<1>6. Outstanding(urbs') = {} /\ Waiting(urbs') = {}
  BY <1>3, <1>4 DEF Outstanding, Waiting
<1>7. Overflow(urbs', reapable')
  BY <1>6 DEF Overflow
<1>8. ListInv(urbs, reapable)' /\ Overflow(urbs, reapable)' /\ NumUrbs' = NumUrbs
  BY <1>1, <1>5, <1>7, ListsPrimed, SameShape
<1>9. phase' = "submitting" /\ next' = 1 /\ retired' = 0 /\ action' = "NORMAL"
  BY DEF Submit
<1>10. Basics'
  BY <1>1, <1>2, <1>8, <1>9 DEF Basics
<1>11. Counted'
  BY <1>1, <1>2, <1>4, <1>6, <1>8, <1>9 DEF Counted, Waiting, Active
<1> QED
  BY <1>8, <1>10, <1>11 DEF UrbsInv

LEMMA SubmitUrbUrbs ==
  ASSUME UrbsAssumption, UrbsInv, SubmitUrb
  PROVE  /\ UrbsInv' /\ ListInv(urbs', reapable')
         /\ Outstanding(urbs') = Outstanding(urbs) \cup {next} /\ Waiting(urbs') = Waiting(urbs) \cup {next}
         /\ urbs[next].state = "new" /\ urbs[next].status = "none" /\ next \in 1..NumUrbs
         /\ \A i \in 1..NumUrbs : /\ urbs'[i].len = urbs[i].len /\ urbs'[i].data = urbs[i].data
                                  /\ urbs'[i].status = urbs[i].status
                                  /\ i # next => urbs'[i] = urbs[i]
<1>1. /\ Basics /\ Counted /\ ListInv(urbs, reapable) /\ Overflow(urbs, reapable)
      /\ phase = "submitting" /\ ~gone /\ shape' = shape /\ reapable' = reapable /\ gone' = gone
      /\ urbs' = [urbs EXCEPT ![next].state = "pending"] /\ next' = next + 1 /\ retired' = retired /\ action' = action
      /\ phase' = IF next = NumUrbs THEN "inflight" ELSE "submitting"
  BY DEF UrbsInv, SubmitUrb, Active, busVars
<1>2. /\ next \in 1..NumUrbs /\ retired = 0 /\ action = "NORMAL"
      /\ \A i \in 1..NumUrbs : urbs[i].state \in IF i < next THEN {"pending", "reapable"} ELSE {"new"}
  BY <1>1 DEF Counted
<1>3. NumUrbs \in Nat \ {0}
  BY <1>1, Splitting DEF Basics
<1>4. urbs \in [1..NumUrbs -> Urb] /\ urbs[next].state = "new" /\ urbs[next].status = "none"
  BY <1>1, <1>2, <1>3 DEF ListInv
<1>5. /\ urbs' \in [1..NumUrbs -> Urb] /\ urbs'[next].state = "pending"
      /\ \A i \in 1..NumUrbs : /\ urbs'[i].len = urbs[i].len /\ urbs'[i].data = urbs[i].data
                               /\ urbs'[i].status = urbs[i].status
                               /\ i # next => urbs'[i] = urbs[i]
  BY <1>1, <1>2, <1>4 DEF Urb, UrbStates
<1>6. ListInv(urbs', reapable')
  <2>1. \A i \in 1..NumUrbs : /\ urbs'[i].len = LenOf(i)
                              /\ urbs'[i].state = "reapable" <=> i \in Range(reapable)
                              /\ urbs'[i].state \in {"new", "pending"} <=> urbs'[i].status = "none"
    BY <1>1, <1>4, <1>5 DEF ListInv
  <2> QED
    BY <1>1, <1>5, <2>1 DEF ListInv
<1>7. Outstanding(urbs') = Outstanding(urbs) \cup {next} /\ Waiting(urbs') = Waiting(urbs) \cup {next}
  <2>1. \A i \in 1..NumUrbs : urbs'[i].state = IF i = next THEN "pending" ELSE urbs[i].state
    BY <1>5
  <2>2. DOMAIN urbs' = 1..NumUrbs /\ DOMAIN urbs = 1..NumUrbs
    BY <1>4, <1>5
  <2> QED
    BY <1>2, <2>1, <2>2 DEF Outstanding, Waiting
<1>8. Overflow(urbs', reapable')
  <2> SUFFICES ASSUME NEW i \in Outstanding(urbs'), urbs'[i].status = "overflow" PROVE FALSE
    BY DEF Overflow
  <2>1. i # next /\ i \in Outstanding(urbs) /\ urbs[i].status = "overflow"
    <3>1. i \in 1..NumUrbs /\ urbs[i].status = "overflow"
      BY <1>5 DEF Outstanding
    <3> QED
      BY <1>4, <1>7, <3>1
  <2>2. i = NumUrbs
    BY <1>1, <2>1 DEF Overflow
  <2>3. urbs[i].state = "new"
    BY <1>2, <1>3, <2>2
  <2> QED
    BY <2>1, <2>3 DEF Outstanding
<1>9. ListInv(urbs, reapable)' /\ Overflow(urbs, reapable)' /\ NumUrbs' = NumUrbs
  BY <1>1, <1>6, <1>8, ListsPrimed, SameShape
<1>10. Basics'
  BY <1>1, <1>9 DEF Basics
<1>11. Counted'
  <2>1. \A i \in 1..NumUrbs : urbs'[i].state \in IF i < next + 1 THEN {"pending", "reapable"} ELSE {"new"}
    <3> SUFFICES ASSUME NEW i \in 1..NumUrbs PROVE urbs'[i].state \in IF i < next + 1 THEN {"pending", "reapable"} ELSE {"new"}
      OBVIOUS
    <3>1. i < next \/ i = next \/ i > next
      BY <1>2
    <3>2. CASE i = next
      <4>1. i < next + 1
        BY <1>2, <3>2
      <4> QED
        BY <1>5, <3>2, <4>1
    <3>3. CASE i # next
      <4>1. i < next <=> i < next + 1
        BY <1>2, <3>3
      <4> QED
        BY <1>2, <1>5, <3>3, <4>1
    <3> QED
      BY <3>2, <3>3
  <2>2. CASE next = NumUrbs
    <3>1. Outstanding(urbs') = 1..NumUrbs
      BY <1>3, <1>5, <2>1, <2>2 DEF Outstanding
    <3>2. Cardinality(1..NumUrbs) = NumUrbs
      BY <1>3, FS_Interval
    <3>3. \A i \in 1..NumUrbs : urbs'[i].state # "new"
      BY <1>3, <2>1, <2>2
    <3>4. Cardinality(Outstanding(urbs))' = NumUrbs
      BY <3>1, <3>2 DEF Outstanding
    <3>5. \A i \in 1..NumUrbs : urbs'[i].state = "new" <=> i >= next + 1
      BY <1>3, <2>2, <3>3
    <3>6. phase' = "inflight" /\ next' \in 2..NumUrbs + 1 /\ retired' = 0 /\ next' = NumUrbs + 1 /\ ~gone'
      BY <1>1, <1>2, <1>3, <2>2
    <3> QED
      BY <1>1, <1>3, <1>9, <3>4, <3>5, <3>6 DEF Counted, Active
  <2>3. CASE next # NumUrbs
    <3>1. next + 1 \in 1..NumUrbs
      BY <1>2, <1>3, <2>3
    <3> QED
      BY <1>1, <1>2, <1>9, <2>1, <2>3, <3>1 DEF Counted, Active
  <2> QED
    BY <2>2, <2>3
<1> QED
  BY <1>2, <1>4, <1>5, <1>6, <1>7, <1>9, <1>10, <1>11 DEF UrbsInv

LEMMA LaterUrbFailsUrbs ==
  ASSUME UrbsAssumption, UrbsInv, LaterUrbFails
  PROVE  UrbsInv'
<1>1. /\ Basics /\ Counted /\ ListInv(urbs, reapable) /\ Overflow(urbs, reapable)
      /\ phase = "submitting" /\ shape' = shape /\ gone' = gone /\ next' = next /\ next > 1
      /\ phase' = "inflight" /\ retired' = retired + NotSubmitted
      /\ action' \in {"COMPLETED_EARLY", "SUBMIT_FAILED"}
  BY DEF UrbsInv, LaterUrbFails, Active
<1>2. /\ next \in 1..NumUrbs /\ retired = 0
      /\ \A i \in 1..NumUrbs : urbs[i].state \in IF i < next THEN {"pending", "reapable"} ELSE {"new"}
  BY <1>1 DEF Counted
<1>3. NumUrbs \in Nat \ {0} /\ shape \in Shapes
  BY <1>1, Splitting DEF Basics
<1>4. PICK l : Given(l) /\ \A i \in Range(l) : urbs'[i].status = "cancelled"
  BY <1>1, <1>3, LaterUrbFailsGives
<1>5. /\ ListInv(urbs', reapable') /\ Outstanding(urbs') = Outstanding(urbs)
      /\ Waiting(urbs') = Waiting(urbs) \ Range(l)
  <2>1. Gives(urbs, urbs', l) /\ reapable' = reapable \o l
    BY <1>4 DEF Given
  <2>2. ListInv(urbs', reapable \o l)
    BY <1>1, <2>1, GivesList
  <2>3. Outstanding(urbs') = Outstanding(urbs)
    BY <1>1, <2>1, GivesList
  <2>4. Waiting(urbs') = Waiting(urbs) \ Range(l)
    <3>1. \A i : i \in Waiting(urbs') <=> i \in Waiting(urbs) /\ i \notin Range(l)
      BY <1>1, <2>1, GivesWaiting
    <3> QED
      BY <3>1
  <2> QED
    BY <2>1, <2>2, <2>3, <2>4
<1>6. Overflow(urbs', reapable')
  <2>1. Gives(urbs, urbs', l) /\ reapable' = reapable \o l
    BY <1>4 DEF Given
  <2>2. Overflow(urbs', reapable \o l)
    BY <1>1, <1>4, <2>1, GivesOverflow
  <2> QED
    BY <2>1, <2>2
<1>7. ListInv(urbs, reapable)' /\ Overflow(urbs, reapable)' /\ NumUrbs' = NumUrbs
  BY <1>1, <1>5, <1>6, ListsPrimed, SameShape
<1>8. Outstanding(urbs) = 1..next - 1
  <2>1. urbs \in [1..NumUrbs -> Urb]
    BY <1>1 DEF ListInv
  <2>2. \A i \in 1..NumUrbs : i \in Outstanding(urbs) <=> i < next
    BY <1>2, <2>1 DEF Outstanding
  <2>3. \A i \in 1..next - 1 : i \in 1..NumUrbs /\ i < next
    BY <1>2, <1>3
  <2>4. \A i \in 1..NumUrbs : i < next => i \in 1..next - 1
    BY <1>2, <1>3
  <2>5. Outstanding(urbs) \subseteq 1..NumUrbs
    BY <2>1 DEF Outstanding
  <2> QED
    BY <2>2, <2>3, <2>4, <2>5
<1>9. Cardinality(Outstanding(urbs))' = next - 1
  <2>1. Cardinality(1..next - 1) = next - 1
    BY <1>1, <1>2, FS_Interval
  <2> QED
    BY <1>5, <1>8, <2>1 DEF Outstanding
<1>10. \A i \in 1..NumUrbs : urbs'[i].state = "new" <=> i >= next
  <2> SUFFICES ASSUME NEW i \in 1..NumUrbs PROVE urbs'[i].state = "new" <=> i >= next
    OBVIOUS
  <2>1. CASE i < next
    <3>1. i \in Outstanding(urbs')
      BY <1>2, <1>5, <1>8, <2>1
    <3>2. ~(i >= next)
      BY <1>2, <2>1
    <3> QED
      BY <3>1, <3>2 DEF Outstanding
  <2>2. CASE ~(i < next)
    <3>1. i >= next /\ urbs[i].state = "new"
      BY <1>2, <2>2
    <3>2. i \notin Range(l)
      <4>1. i \notin Waiting(urbs)
        BY <3>1 DEF Waiting
      <4> QED
        BY <1>4, <4>1, GivenWaits DEF Given
    <3> QED
      BY <1>4, <3>1, <3>2 DEF Given, Gives
  <2> QED
    BY <2>1, <2>2
<1>11. retired' = NumUrbs - next + 1 /\ retired' \in 0..NumUrbs /\ next \in 2..NumUrbs + 1
  BY <1>1, <1>2, <1>3 DEF NotSubmitted
<1>12. Basics'
  BY <1>1, <1>7, <1>11 DEF Basics
<1>13. Counted'
  <2>1. retired' + Cardinality(Outstanding(urbs))' = NumUrbs
    BY <1>2, <1>3, <1>9, <1>11
  <2>2. gone' => Waiting(urbs)' = {}
    BY <1>1, <1>5 DEF Counted, Waiting
  <2> QED
    BY <1>1, <1>7, <1>10, <1>11, <2>1, <2>2 DEF Counted, Active
<1> QED
  BY <1>7, <1>12, <1>13 DEF UrbsInv

LEMMA ReapUrbs ==
  ASSUME UrbsAssumption, UrbsInv, Reap
  PROVE  UrbsInv' /\ (phase' = "done" => Outstanding(urbs') = {})
<1> DEFINE h == Head(reapable)
           vs == [urbs EXCEPT ![h].state = "reaped"]
           O == Outstanding(urbs)
<1>1. /\ Basics /\ Counted /\ ListInv(urbs, reapable) /\ Overflow(urbs, reapable) /\ phase = "inflight"
      /\ shape' = shape /\ gone' = gone /\ next' = next /\ retired' = retired + 1
  BY DEF UrbsInv, Reap, Active
<1>2. /\ next \in 2..NumUrbs + 1 /\ retired + Cardinality(O) = NumUrbs
      /\ \A i \in 1..NumUrbs : urbs[i].state = "new" <=> i >= next
      /\ action = "NORMAL" => next = NumUrbs + 1
  BY <1>1 DEF Counted
<1>3. NumUrbs \in Nat \ {0} /\ shape \in Shapes /\ retired \in 0..NumUrbs
  BY <1>1, Splitting DEF Basics
<1>4. /\ reapable # <<>> /\ Takes(urbs, vs, reapable)
      /\ \E l : /\ Gives(vs, urbs', l) /\ reapable' = Tail(reapable) \o l
                /\ \A i \in Range(l) : urbs'[i].status = "cancelled"
  BY <1>1, <1>3, ReapMoves
<1>5. PICK l : /\ Gives(vs, urbs', l) /\ reapable' = Tail(reapable) \o l
               /\ \A i \in Range(l) : urbs'[i].status = "cancelled"
  BY <1>4
<1> HIDE DEF vs, h
<1>6. /\ h \in O /\ h \in 1..NumUrbs /\ h \in Range(reapable) /\ urbs[h].state = "reapable"
      /\ ListInv(vs, Tail(reapable)) /\ Outstanding(vs) = O \ {h} /\ Waiting(vs) = Waiting(urbs)
  <2>1. /\ h \in O /\ h \in Range(reapable) /\ urbs[h].state = "reapable"
        /\ ListInv(vs, Tail(reapable)) /\ Outstanding(vs) = O \ {h} /\ Waiting(vs) = Waiting(urbs)
    BY <1>1, <1>4, TakesList DEF h
  <2> QED
    BY <1>1, <2>1 DEF Outstanding, ListInv
<1>7. ListInv(urbs', reapable') /\ Outstanding(urbs') = O \ {h} /\ Waiting(urbs') = Waiting(urbs) \ Range(l)
  <2>1. ListInv(urbs', Tail(reapable) \o l) /\ Outstanding(urbs') = Outstanding(vs) /\ Waiting(urbs') = Waiting(vs) \ Range(l)
    BY <1>5, <1>6, GivesList
  <2> QED
    BY <1>5, <1>6, <2>1
<1>8. Overflow(urbs', reapable')
  <2>1. Overflow(vs, Tail(reapable))
    BY <1>1, <1>4, TakesOverflow
  <2>2. Overflow(urbs', Tail(reapable) \o l)
    BY <1>5, <1>6, <2>1, GivesOverflow
  <2> QED
    BY <1>5, <2>2
<1>9. ListInv(urbs, reapable)' /\ Overflow(urbs, reapable)' /\ NumUrbs' = NumUrbs
  BY <1>1, <1>7, <1>8, ListsPrimed, SameShape
<1>10. IsFiniteSet(O) /\ Cardinality(O \ {h}) = Cardinality(O) - 1 /\ Cardinality(O \ {h}) \in Nat /\ IsFiniteSet(O \ {h})
  <2>1. O \subseteq 1..NumUrbs /\ IsFiniteSet(1..NumUrbs)
    BY <1>1, <1>3, FS_Interval DEF Outstanding, ListInv
  <2>2. IsFiniteSet(O)
    BY <2>1, FS_Subset
  <2> QED
    BY <1>6, <2>2, FS_RemoveElement, FS_CardinalityType
<1>11. retired + 1 = NumUrbs => O \ {h} = {}
  <2> SUFFICES ASSUME retired + 1 = NumUrbs PROVE O \ {h} = {}
    OBVIOUS
  <2>1. Cardinality(O \ {h}) = 0
    <3>1. Cardinality(O) \in Nat
      BY <1>10, FS_CardinalityType
    <3> QED
      BY <1>2, <1>3, <1>10, <3>1
  <2> QED
    BY <1>10, <2>1, FS_EmptySet
<1>12. urbs[h].status = "overflow" => O \ {h} = {}
  <2> SUFFICES ASSUME urbs[h].status = "overflow", NEW j \in O, j # h PROVE FALSE
    OBVIOUS
  <2>1. Waiting(urbs) = {} /\ reapable[Len(reapable)] = h
    BY <1>1, <1>6 DEF Overflow
  <2>2. j \in 1..NumUrbs /\ urbs[j].state = "reapable"
    BY <1>1, <2>1 DEF Outstanding, Waiting, ListInv
  <2>3. Earlier(urbs, reapable, h, j)
    BY <1>1, <1>4, TakesList DEF h
  <2>4. PICK p \in 1..Len(reapable) : reapable[p] = h /\ \E q \in p + 1..Len(reapable) : reapable[q] = j
    BY <2>2, <2>3 DEF Earlier
  <2>5. Len(reapable) \in Nat /\ DOMAIN reapable = 1..Len(reapable) /\ IsInjective(reapable)
    BY <1>1, LenProperties DEF ListInv
  <2>6. p < Len(reapable) /\ p \in 1..Len(reapable) /\ Len(reapable) \in 1..Len(reapable)
    BY <2>4, <2>5
  <2> QED
    BY <2>1, <2>4, <2>5, <2>6 DEF IsInjective
<1>13. /\ phase' \in {"inflight", "done"}
       /\ action' \in {"NORMAL", "SUBMIT_FAILED", "CANCELLED", "COMPLETED_EARLY", "ERROR"}
       /\ action' = "NORMAL" => action = "NORMAL"
       /\ phase' = "done" => O \ {h} = {}
  <2>1. CASE ReapBulk
    <3> DEFINE u == urbs[h]
               all == retired + 1 = NumUrbs
    <3>1. /\ action' = ActionAfter(u, all)
          /\ BulkCompletes(u, all) => phase' = "done"
          /\ ~BulkCompletes(u, all) => phase' = phase
      BY <2>1 DEF ReapBulk, h, Done
    <3>2. BulkCompletes(u, all) => O \ {h} = {}
      BY <1>11, <1>12 DEF BulkCompletes
    <3> QED
      BY <1>1, <3>1, <3>2 DEF ActionAfter, Basics
  <2>2. CASE ReapControl
    <3>1. NumUrbs = 1
      BY <1>3, <2>2, ControlIsOne DEF ReapControl
    <3>2. O \ {h} = {}
      BY <1>1, <1>6, <3>1 DEF Outstanding, ListInv
    <3> QED
      BY <1>1, <2>2, <3>2 DEF ReapControl, Done, Basics
  <2>3. CASE ReapIso
    <3>1. /\ action' = action
          /\ ~(retired + 1 = NumUrbs) => phase' = phase
          /\ retired + 1 = NumUrbs => phase' = "done"
      BY <2>3 DEF ReapIso, Done
    <3> QED
      BY <1>1, <1>11, <3>1 DEF Basics
  <2> QED
    BY <2>1, <2>2, <2>3 DEF Reap
<1>14. retired' + Cardinality(Outstanding(urbs))' = NumUrbs /\ retired' \in 0..NumUrbs
  <2>1. Cardinality(Outstanding(urbs))' = Cardinality(O \ {h})
    BY <1>7 DEF Outstanding
  <2>2. Cardinality(O) \in Nat
    BY <1>10, FS_CardinalityType
  <2> QED
    BY <1>1, <1>2, <1>3, <1>10, <2>1, <2>2
<1>15. \A i \in 1..NumUrbs : urbs'[i].state = "new" <=> i >= next
  <2> SUFFICES ASSUME NEW i \in 1..NumUrbs PROVE urbs'[i].state = "new" <=> urbs[i].state = "new"
    BY <1>2
  <2>1. vs[i].state = IF i = h THEN "reaped" ELSE urbs[i].state
    BY <1>4 DEF Takes, h
  <2>2. CASE i \in Range(l)
    <3>1. i \in Waiting(vs)
      BY <1>5, <2>2, GivenWaits
    <3> QED
      BY <1>5, <1>6, <2>1, <2>2, <3>1 DEF Gives, Waiting
  <2>3. CASE i \notin Range(l)
    <3>1. urbs'[i] = vs[i]
      BY <1>5, <2>3 DEF Gives
    <3> QED
      BY <1>6, <2>1, <3>1
  <2> QED
    BY <2>2, <2>3
<1>16. phase' = "done" => Outstanding(urbs') = {} /\ reapable' = <<>> /\ Waiting(urbs') = {}
  BY <1>7, <1>13, NoneLeft
<1>17. Basics'
  BY <1>1, <1>9, <1>13, <1>14 DEF Basics
<1>18. Counted'
  <2>1. gone' => Waiting(urbs)' = {}
    BY <1>1, <1>7 DEF Counted, Waiting
  <2>2. ~Active' => reapable' = <<>> /\ Waiting(urbs)' = {}
    BY <1>13, <1>16 DEF Active, Waiting
  <2>3. phase' # "submitting"
    BY <1>13
  <2> QED
    BY <1>1, <1>2, <1>9, <1>13, <1>14, <1>15, <2>1, <2>2, <2>3 DEF Counted
<1> QED
  BY <1>9, <1>16, <1>17, <1>18 DEF UrbsInv

LEMMA UrbsInvInit ==
  ASSUME UrbsAssumption, Init
  PROVE  UrbsInv
<1>1. NumUrbs \in Nat \ {0}
  BY Splitting DEF Init
<1>2. Basics
  <2>1. shape \in Shapes /\ phase = "idle" /\ action = "NORMAL" /\ gone = FALSE /\ retired = 0
    BY DEF Init
  <2>2. 0 \in 0..NumUrbs
    BY <1>1
  <2> QED
    BY <2>1, <2>2 DEF Basics
<1>3. phase = "idle" /\ urbs = <<>> /\ reapable = <<>>
  BY DEF Init
<1>4. Waiting(urbs) = {}
  BY <1>3 DEF Waiting
<1> QED
  BY <1>2, <1>3, <1>4 DEF UrbsInv, Counted, Active

LEMMA UrbsInvStep ==
  ASSUME UrbsAssumption, UrbsInv, received \in Nat, [Next]_vars
  PROVE  UrbsInv'
<1>0. Basics /\ Counted /\ shape \in Shapes /\ NumUrbs \in Nat \ {0} /\ (Active => ListInv(urbs, reapable) /\ Overflow(urbs, reapable))
  BY Splitting DEF UrbsInv, Basics
<1>1. ASSUME Submit PROVE UrbsInv'
  BY <1>1, SubmitUrbs
<1>2. ASSUME SubmitUrb PROVE UrbsInv'
  BY <1>2, SubmitUrbUrbs
<1>3. ASSUME FirstUrbFails PROVE UrbsInv'
  <2>1. /\ phase = "submitting" /\ next = 1 /\ phase' = "refused" /\ urbs' = <<>> /\ reapable' = reapable
        /\ shape' = shape /\ retired' = retired /\ action' = action /\ gone' = gone
    BY <1>3 DEF FirstUrbFails
  <2>2. ListInv(urbs, reapable) /\ \A i \in 1..NumUrbs : urbs[i].state = "new"
    BY <1>0, <2>1 DEF Counted, Active
  <2>3. Outstanding(urbs) = {}
    BY <2>2 DEF Outstanding, ListInv
  <2>4. reapable' = <<>>
    BY <2>1, <2>2, <2>3, NoneLeft
  <2>5. NumUrbs' = NumUrbs
    BY <2>1, SameShape
  <2> QED
    BY <1>0, <2>1, <2>4, <2>5 DEF UrbsInv, Basics, Counted, Active, Waiting
<1>4. ASSUME LaterUrbFails PROVE UrbsInv'
  BY <1>4, LaterUrbFailsUrbs
<1>5. ASSUME SubmitRefused PROVE UrbsInv'
  <2>1. /\ phase = "idle" /\ phase' = "refused" /\ urbs' = urbs /\ reapable' = reapable
        /\ shape' = shape /\ retired' = retired /\ action' = action /\ gone' = gone
    BY <1>5 DEF SubmitRefused
  <2>2. NumUrbs' = NumUrbs
    BY <2>1, SameShape
  <2> QED
    BY <1>0, <2>1, <2>2 DEF UrbsInv, Basics, Counted, Active, Waiting
<1>6. ASSUME Reap PROVE UrbsInv'
  BY <1>6, ReapUrbs
<1>7. ASSUME Disconnect PROVE UrbsInv'
  <2>1. /\ phase = "inflight" /\ phase' = "done" /\ urbs' = <<>> /\ reapable' = <<>>
        /\ shape' = shape /\ retired' = retired /\ action' = action /\ gone' = gone
    BY <1>7 DEF Disconnect, Done, busVars
  <2>2. NumUrbs' = NumUrbs
    BY <2>1, SameShape
  <2> QED
    BY <1>0, <2>1, <2>2 DEF UrbsInv, Basics, Counted, Active, Waiting
<1>8. ASSUME Cancel PROVE UrbsInv'
  <2>1. /\ phase = "inflight" /\ shape' = shape /\ phase' = phase /\ next' = next /\ retired' = retired /\ gone' = gone
        /\ action' = action \/ action' = "CANCELLED"
    BY <1>8 DEF Cancel, busVars
  <2>2. ListInv(urbs, reapable) /\ Overflow(urbs, reapable) /\ Active
    BY <1>0, <2>1 DEF Active
  <2>3. PICK l : /\ Given(l) /\ \A i \in Range(l) : urbs'[i].status = "cancelled"
                 /\ Range(l) = IF gone THEN {} ELSE Waiting(urbs)
    BY <1>0, <1>8, <2>2, CancelGives
  <2>4. /\ Gives(urbs, urbs', l) /\ reapable' = reapable \o l
        /\ \A i \in Range(l) : urbs'[i].status = "overflow" => i = NumUrbs /\ Waiting(urbs) = {i}
    BY <2>3 DEF Given
  <2> QED
    BY <2>1, <2>2, <2>4, GivesUrbs
<1>9. ASSUME Unplug PROVE UrbsInv'
  <2>1. /\ shape' = shape /\ phase' = phase /\ next' = next /\ retired' = retired /\ action' = action /\ gone' = TRUE
        /\ phase \in {"submitting", "inflight"}
    BY <1>9 DEF Unplug, Kernel
  <2>2. ListInv(urbs, reapable) /\ Overflow(urbs, reapable) /\ Active
    BY <1>0, <2>1 DEF Active
  <2>3. PICK l : Given(l) /\ (\A i \in Range(l) : urbs'[i].status = "nodev") /\ Range(l) = Waiting(urbs)
    BY <1>0, <1>9, <2>2, UnplugGives
  <2>4. /\ Gives(urbs, urbs', l) /\ reapable' = reapable \o l
        /\ \A i \in Range(l) : urbs'[i].status = "overflow" => i = NumUrbs /\ Waiting(urbs) = {i}
    BY <2>3 DEF Given
  <2>5. gone' = gone \/ (gone' = TRUE /\ Range(l) = Waiting(urbs))
    BY <2>1, <2>3
  <2> QED
    BY <2>1, <2>2, <2>4, <2>5, GivesUrbs
<1>10. ASSUME Pending # {} PROVE Active /\ ListInv(urbs, reapable) /\ Overflow(urbs, reapable)
  <2>1. Active
    BY <1>0, <1>10 DEF Counted, Waiting, Pending
  <2> QED
    BY <1>0, <2>1
<1>11. ASSUME IsoDone PROVE UrbsInv'
  <2>1. /\ shape' = shape /\ phase' = phase /\ next' = next /\ retired' = retired /\ action' = action /\ gone' = gone
        /\ Pending # {}
    BY <1>11 DEF IsoDone, Kernel, busVars
  <2>2. Given(<<HeadUrb>>) /\ urbs'[HeadUrb].status = "ok"
    BY <1>0, <1>10, <1>11, <2>1, IsoDoneGives
  <2>3. Range(<<HeadUrb>>) = {HeadUrb}
    BY <1>0, <1>10, <2>1, HeadIsWaiting
  <2>4. /\ Gives(urbs, urbs', <<HeadUrb>>) /\ reapable' = reapable \o <<HeadUrb>>
        /\ \A i \in Range(<<HeadUrb>>) : urbs'[i].status = "overflow" => i = NumUrbs /\ Waiting(urbs) = {i}
    BY <2>2, <2>3 DEF Given
  <2> QED
    BY <1>10, <2>1, <2>4, GivesUrbs
<1>12. ASSUME ShortPacket PROVE UrbsInv'
  <2>1. /\ shape' = shape /\ phase' = phase /\ next' = next /\ retired' = retired /\ action' = action /\ gone' = gone
        /\ Pending # {}
    BY <1>12 DEF ShortPacket, Kernel
  <2>2. PICK l : /\ Given(l) /\ urbs'[HeadUrb].status = IF ShortEnds(HeadUrb) THEN "short" ELSE "ok"
                 /\ \A i \in Range(l) \ {HeadUrb} : urbs'[i].status = "cancelled"
    BY <1>0, <1>10, <1>12, <2>1, ShortPacketGives
  <2>3. /\ Gives(urbs, urbs', l) /\ reapable' = reapable \o l
        /\ \A i \in Range(l) : urbs'[i].status = "overflow" => i = NumUrbs /\ Waiting(urbs) = {i}
    BY <2>2 DEF Given
  <2> QED
    BY <1>10, <2>1, <2>3, GivesUrbs
<1>13. ASSUME NEW s \in {"stall", "proto", "overflow"}, BusError(s) PROVE UrbsInv'
  <2>1. /\ shape' = shape /\ phase' = phase /\ next' = next /\ retired' = retired /\ action' = action /\ gone' = gone
        /\ Pending # {} /\ (s = "overflow" => HeadUrb = NumUrbs)
    BY <1>13 DEF BusError, Kernel
  <2>2. PICK l : /\ Given(l) /\ urbs'[HeadUrb].status = s
                 /\ \A i \in Range(l) \ {HeadUrb} : urbs'[i].status = "cancelled"
    BY <1>0, <1>10, <1>13, <2>1, BusErrorGives
  <2>3. ASSUME NEW i \in Range(l), urbs'[i].status = "overflow" PROVE i = NumUrbs /\ Waiting(urbs) = {i}
    <3>1. i = HeadUrb /\ i = NumUrbs
      BY <2>1, <2>2, <2>3
    <3>2. HeadUrb \in Waiting(urbs) /\ \A j \in Waiting(urbs) : HeadUrb =< j
      BY <1>0, <1>10, <2>1, HeadIsWaiting
    <3>3. \A j \in Waiting(urbs) : j \in 1..NumUrbs
      BY <1>10, <2>1 DEF Waiting, ListInv
    <3>4. \A j \in Waiting(urbs) : j = NumUrbs
      BY <1>0, <3>1, <3>2, <3>3
    <3> QED
      BY <3>1, <3>2, <3>4
  <2>4. Gives(urbs, urbs', l) /\ reapable' = reapable \o l
    BY <2>2 DEF Given
  <2> QED
    BY <1>10, <2>1, <2>3, <2>4, GivesUrbs
<1>14. ASSUME Packet PROVE UrbsInv'
  <2> DEFINE full == [urbs EXCEPT ![HeadUrb].data = Append(@, received + 1)]
  <2>1. /\ shape' = shape /\ phase' = phase /\ next' = next /\ retired' = retired /\ action' = action /\ gone' = gone
        /\ Pending # {}
    BY <1>14 DEF Packet, Kernel
  <2>2. /\ HeadUrb \in Waiting(urbs) /\ ListInv(full, reapable)
        /\ \E l : /\ Gives(full, urbs', l) /\ reapable' = reapable \o l
                  /\ Range(l) \subseteq {HeadUrb} /\ \A i \in Range(l) : urbs'[i].status = "ok"
    BY <1>0, <1>10, <1>14, <2>1, PacketGives
  <2>3. PICK l : /\ Gives(full, urbs', l) /\ reapable' = reapable \o l
                 /\ Range(l) \subseteq {HeadUrb} /\ \A i \in Range(l) : urbs'[i].status = "ok"
    BY <2>2
  <2>4. \A i \in 1..NumUrbs : full[i].state = urbs[i].state /\ full[i].status = urbs[i].status
    BY <1>10, <2>1, <2>2 DEF ListInv, Urb
  <2>5. Overflow(full, reapable)
    <3>1. DOMAIN full = 1..NumUrbs /\ DOMAIN urbs = 1..NumUrbs
      BY <1>10, <2>1 DEF ListInv
    <3>2. Outstanding(full) = Outstanding(urbs) /\ Waiting(full) = Waiting(urbs)
      BY <2>4, <3>1 DEF Outstanding, Waiting
    <3>3. Overflow(urbs, reapable)
      BY <1>10, <2>1
    <3> QED
      BY <2>4, <3>1, <3>2, <3>3 DEF Overflow, Outstanding
  <2> HIDE DEF full
  <2>6. \A i \in Range(l) : urbs'[i].status = "overflow" => i = NumUrbs /\ Waiting(full) = {i}
    BY <2>3
  <2> QED
    BY <1>10, <2>1, <2>2, <2>3, <2>4, <2>5, <2>6, GivesUrbs
<1>15. ASSUME UNCHANGED vars PROVE UrbsInv'
  <2>1. /\ shape' = shape /\ phase' = phase /\ next' = next /\ retired' = retired /\ action' = action /\ gone' = gone
        /\ urbs' = urbs /\ reapable' = reapable
    BY <1>15 DEF vars, codeVars, busVars
  <2>2. NumUrbs' = NumUrbs /\ (Active => ListInv(urbs, reapable)' /\ Overflow(urbs, reapable)')
    BY <1>0, <2>1, SameShape, ListsPrimed
  <2> QED
    BY <1>0, <2>1, <2>2 DEF UrbsInv, Basics, Counted, Active, Waiting, Outstanding
<1> QED
  BY <1>1, <1>2, <1>3, <1>4, <1>5, <1>6, <1>7, <1>8, <1>9, <1>11, <1>12, <1>13, <1>14, <1>15
  DEF Next, Submission, Bus, Terminated

-----------------------------------------------------------------------------
\* --- where the data is ----------------------------------------------------------

\* No URB has more than its part, and nothing was received that is beyond the
\* first URB of the kernel.
Room ==
  /\ received =< shape.length
  /\ \A i \in 1..NumUrbs : /\ Len(urbs[i].data) =< urbs[i].len
                           /\ urbs[i].state = "new" => urbs[i].data = <<>>
  /\ \A i \in Waiting(urbs) : /\ received =< Start(i) + Len(urbs[i].data)
                              /\ Len(urbs[i].data) < urbs[i].len \/ shape.length = 0
  /\ phase = "submitting" => received =< Start(next)

\* A URB that ends the transfer early: what comes after it is not in its place.
Breaks(u) == u.status = "proto" \/ (u.status \in {"ok", "short", "cancelled"} /\ Len(u.data) < u.len)
BreakAhead(us, r) == \E j \in Range(r) : Breaks(us[j])

\* As long as no URB broke the transfer the data of each is in its place.
FirstPlaces(us, r) ==
  \A i \in Outstanding(us) : us[i].data # <<>> =>
    \/ us[i].data[1] = Start(i) + 1
    \/ \E j \in Outstanding(us) : Earlier(us, r, j, i) /\ Breaks(us[j])

\* The kernel still has the URBs that were submitted last.
LastWait(us, n) == \A i \in Waiting(us) : \A j \in i..n - 1 : j \in Waiting(us)

\* What is received next belongs to the first URB of the kernel.
NextInPlace ==
  /\ \A i \in Waiting(urbs) : (\A j \in Waiting(urbs) : i =< j) =>
       received = Start(i) + Len(urbs[i].data) \/ BreakAhead(urbs, reapable)
  /\ phase = "submitting" /\ Waiting(urbs) = {} => received = Start(next) \/ BreakAhead(urbs, reapable)

InPlace == LastWait(urbs, next) /\ FirstPlaces(urbs, reapable) /\ (~Stalled /\ ~gone => NextInPlace)

\* What a step may do to a URB: it does not touch the data, and what has ended has ended.
Settles(us, vs) ==
  \A i \in 1..NumUrbs :
    /\ vs[i].len = us[i].len /\ vs[i].data = us[i].data
    /\ vs[i].state \in {"new", "pending"} => us[i].state = vs[i].state
    /\ us[i].status # "none" => vs[i].status = us[i].status

LEMMA GivesSettles ==
  ASSUME NEW us, NEW vs, NEW r, NEW l, ListInv(us, r), Gives(us, vs, l)
  PROVE  Settles(us, vs)
<1>1. \A i \in 1..NumUrbs : i \in Range(l) => us[i].status = "none"
  BY GivenWaits DEF ListInv, Waiting
<1> QED
  BY <1>1 DEF Settles, Gives

LEMMA TakesSettles ==
  ASSUME NEW us, NEW vs, NEW r, Takes(us, vs, r)
  PROVE  Settles(us, vs)
BY DEF Settles, Takes

LEMMA RoomKept ==
  ASSUME shape' = shape, received' = received, ListInv(urbs, reapable), ListInv(urbs', reapable'),
         Settles(urbs, urbs'), phase' = "submitting" => phase = "submitting" /\ next' = next, Room
  PROVE  Room'
<1>1. NumUrbs' = NumUrbs /\ \A i : Start(i)' = Start(i)
  BY SameShape
<1>2. \A i \in Waiting(urbs') : i \in 1..NumUrbs /\ i \in Waiting(urbs)
  BY DEF Settles, Waiting, ListInv
<1>3. \A i \in Waiting(urbs') : /\ received' =< Start(i) + Len(urbs'[i].data)
                                /\ Len(urbs'[i].data) < urbs'[i].len \/ shape.length = 0
  BY <1>2 DEF Room, Settles
<1>4. \A i \in 1..NumUrbs : /\ Len(urbs'[i].data) =< urbs'[i].len
                            /\ urbs'[i].state = "new" => urbs'[i].data = <<>>
  BY DEF Room, Settles
<1>5. \A i \in Waiting(urbs)' : /\ received' =< Start(i)' + Len(urbs'[i].data)
                                /\ Len(urbs'[i].data) < urbs'[i].len \/ shape'.length = 0
  BY <1>1, <1>3 DEF Waiting
<1>6. received' =< shape'.length /\ (phase' = "submitting" => received' =< Start(next)')
  BY <1>1 DEF Room, Start
<1> QED
  BY <1>1, <1>4, <1>5, <1>6 DEF Room

LEMMA ListedIsUrb ==
  ASSUME NEW us, NEW r, ListInv(us, r), NEW i \in Range(r)
  PROVE  i \in 1..NumUrbs
<1>1. r \in Seq(1..NumUrbs) /\ DOMAIN r = 1..Len(r)
  BY LenProperties DEF ListInv
<1>2. \A p \in 1..Len(r) : r[p] \in 1..NumUrbs
  BY <1>1, ElementOfSeq
<1> QED
  BY <1>1, <1>2 DEF Range

LEMMA GivesPlaces ==
  ASSUME NEW us, NEW vs, NEW r, NEW l, ListInv(us, r), Gives(us, vs, l)
  PROVE  /\ FirstPlaces(us, r) => FirstPlaces(vs, r \o l)
         /\ BreakAhead(us, r) => BreakAhead(vs, r \o l)
<1>1. Outstanding(vs) = Outstanding(us) /\ Outstanding(us) \subseteq 1..NumUrbs
  <2>1. Outstanding(vs) = Outstanding(us)
    BY GivesList, Zenon
  <2> QED
    BY <2>1 DEF Outstanding, ListInv
<1>2. OrderKept(us, r, vs, r \o l)
  BY GivesList
<1>3. \A j \in 1..NumUrbs : Breaks(us[j]) => vs[j] = us[j]
  <2>1. \A j \in 1..NumUrbs : j \in Range(l) => us[j].status = "none"
    BY GivenWaits DEF ListInv, Waiting
  <2> QED
    BY <2>1 DEF Gives, Breaks
<1>4. \A i \in 1..NumUrbs : vs[i].data = us[i].data
  BY DEF Gives
<1>5. FirstPlaces(us, r) => FirstPlaces(vs, r \o l)
  BY <1>1, <1>2, <1>3, <1>4 DEF FirstPlaces, OrderKept
<1>6. BreakAhead(us, r) => BreakAhead(vs, r \o l)
  <2> SUFFICES ASSUME NEW j \in Range(r), Breaks(us[j]) PROVE BreakAhead(vs, r \o l)
    BY DEF BreakAhead
  <2>1. j \in 1..NumUrbs /\ us[j].state = "reapable" /\ vs[j] = us[j]
    BY <1>3, ListedIsUrb DEF ListInv
  <2>2. ListInv(vs, r \o l)
    BY GivesList
  <2>3. j \in Range(r \o l)
    BY <2>1, <2>2 DEF ListInv
  <2> QED
    BY <2>1, <2>3 DEF BreakAhead
<1> QED
  BY <1>5, <1>6

LEMMA TakesPlaces ==
  ASSUME NEW us, NEW vs, NEW r, r # <<>>, ListInv(us, r), Takes(us, vs, r),
         ~Breaks(us[Head(r)]) \/ Outstanding(vs) = {}
  PROVE  /\ FirstPlaces(us, r) => FirstPlaces(vs, Tail(r))
         /\ ~Breaks(us[Head(r)]) /\ BreakAhead(us, r) => BreakAhead(vs, Tail(r))
<1> DEFINE h == Head(r)
<1>1. /\ h \in Range(r) /\ Range(Tail(r)) = Range(r) \ {h}
      /\ Outstanding(vs) = Outstanding(us) \ {h}
      /\ \A i, j \in Outstanding(vs) : Earlier(us, r, i, j) <=> Earlier(vs, Tail(r), i, j)
  BY TakesList
<1>2. \A i \in 1..NumUrbs : /\ vs[i].data = us[i].data
                            /\ Breaks(vs[i]) <=> Breaks(us[i])
  BY DEF Takes, Breaks
<1>3. Outstanding(us) \subseteq 1..NumUrbs
  BY DEF Outstanding, ListInv
<1> HIDE DEF h
<1>4. FirstPlaces(us, r) => FirstPlaces(vs, Tail(r))
  <2>1. CASE Outstanding(vs) = {}
    BY <2>1 DEF FirstPlaces
  <2>2. CASE ~Breaks(us[h])
    BY <1>1, <1>2, <1>3, <2>2 DEF FirstPlaces
  <2> QED
    BY <2>1, <2>2 DEF h
<1>5. ~Breaks(us[h]) /\ BreakAhead(us, r) => BreakAhead(vs, Tail(r))
  <2> SUFFICES ASSUME ~Breaks(us[h]), NEW j \in Range(r), Breaks(us[j]) PROVE BreakAhead(vs, Tail(r))
    BY DEF BreakAhead
  <2>1. j \in 1..NumUrbs
    BY ListedIsUrb
  <2>2. j \in Range(Tail(r))
    BY <1>1
  <2> QED
    BY <1>2, <2>1, <2>2 DEF BreakAhead
<1> QED
  BY <1>4, <1>5 DEF h

\* What was received is in the buffer or in an outstanding URB, nothing twice and nothing
\* out of its place.
Delivered ==
  /\ received \in Nat /\ transferred \in Nat /\ transferred =< received /\ received =< shape.length
  /\ phase \in {"idle", "refused"} => received = 0
  /\ phase = "submitting" \/ (shape.type = "control" /\ Active) => transferred = 0
  /\ shape.type = "iso" => received = 0
  /\ shape.type # "iso" =>
       /\ buffer \in [1..shape.length -> 0..shape.length]
       /\ \A k \in 1..transferred : buffer[k] = k
       /\ Active => /\ DataInv(urbs, reapable, transferred, received) /\ Room
                    /\ action = "NORMAL" => InPlace
  /\ phase = "done" /\ status # "NO_DEVICE" => transferred = received

LEMMA DataPrimed ==
  DataInv(urbs', reapable', transferred', received') => DataInv(urbs, reapable, transferred, received)'
BY DEF DataInv, Outstanding, Waiting, Earlier, Places

LEMMA PlacesPrimed ==
  ASSUME shape' = shape
  PROVE  /\ FirstPlaces(urbs', reapable') => FirstPlaces(urbs, reapable)'
         /\ LastWait(urbs', next') => LastWait(urbs, next)'
         /\ BreakAhead(urbs', reapable') => BreakAhead(urbs, reapable)'
         /\ Waiting(urbs)' = Waiting(urbs') /\ \A i : Start(i)' = Start(i)
<1>1. \A i : Start(i)' = Start(i)
  BY SameShape
<1>2. FirstPlaces(urbs', reapable') => FirstPlaces(urbs, reapable)'
  BY <1>1 DEF FirstPlaces, Outstanding, Earlier, Breaks
<1> QED
  BY <1>1, <1>2 DEF LastWait, BreakAhead, Breaks, Waiting

LEMMA GivesDelivered ==
  ASSUME UrbsAssumption, UrbsInv, Delivered, Active, NEW l, Given(l),
         shape' = shape, received' = received, transferred' = transferred, buffer' = buffer, status' = status,
         phase' \in {"submitting", "inflight"},
         phase' = "submitting" => phase = "submitting" /\ next' = next,
         shape.type # "iso" /\ action' = "NORMAL" =>
           /\ action = "NORMAL" /\ LastWait(urbs', next')
           /\ ~Stalled' /\ ~gone' => NextInPlace'
  PROVE  Delivered'
<1>1. ListInv(urbs, reapable) /\ Gives(urbs, urbs', l) /\ reapable' = reapable \o l
  BY DEF UrbsInv, Given
<1>2. ListInv(urbs', reapable')
  <2>1. ListInv(urbs', reapable \o l)
    BY <1>1, GivesList
  <2> QED
    BY <1>1, <2>1
<1>3. CASE shape.type = "iso"
  BY <1>3 DEF Delivered, Active
<1>4. CASE shape.type # "iso"
  <2>1. /\ DataInv(urbs, reapable, transferred, received) /\ Room /\ (action = "NORMAL" => InPlace)
        /\ received \in Nat /\ transferred \in Nat
    BY <1>4 DEF Delivered
  <2>2. DataInv(urbs, reapable, transferred, received)'
    <3>1. DataInv(urbs', reapable \o l, transferred, received)
      BY <1>1, <2>1, GivesData
    <3> QED
      BY <1>1, <3>1, DataPrimed
  <2>3. Room'
    <3>1. Settles(urbs, urbs')
      BY <1>1, GivesSettles
    <3> QED
      BY <1>1, <1>2, <2>1, <3>1, RoomKept
  <2>4. action' = "NORMAL" => InPlace'
    <3> SUFFICES ASSUME action' = "NORMAL" PROVE InPlace'
      OBVIOUS
    <3>1. FirstPlaces(urbs, reapable)
      BY <1>4, <2>1 DEF InPlace
    <3>2. FirstPlaces(urbs', reapable \o l)
      BY <1>1, <3>1, GivesPlaces
    <3>3. FirstPlaces(urbs, reapable)' /\ LastWait(urbs, next)'
      BY <1>1, <1>4, <3>2, PlacesPrimed
    <3> QED
      BY <1>4, <3>3 DEF InPlace
  <2> QED
    BY <1>4, <2>2, <2>3, <2>4 DEF Delivered, Active
<1> QED
  BY <1>3, <1>4

LEMMA CancelDelivered ==
  ASSUME UrbsAssumption, UrbsInv, Delivered, Cancel
  PROVE  Delivered'
<1>1. /\ phase = "inflight" /\ shape' = shape /\ received' = received /\ transferred' = transferred
      /\ buffer' = buffer /\ status' = status /\ phase' = phase /\ next' = next /\ gone' = gone
      /\ action' = "NORMAL" => action = "NORMAL"
  BY DEF Cancel, busVars
<1>2. Active /\ ListInv(urbs, reapable) /\ shape \in Shapes /\ (gone => Waiting(urbs) = {})
  BY <1>1 DEF UrbsInv, Basics, Counted, Active
<1>3. PICK l : Given(l) /\ Range(l) = IF gone THEN {} ELSE Waiting(urbs)
  BY <1>2, CancelGives
<1>4. Waiting(urbs') = {}
  BY <1>2, <1>3, GivesWaiting DEF Given
<1>5. LastWait(urbs', next')
  BY <1>4 DEF LastWait
<1>6. NextInPlace'
  BY <1>1, <1>4, PlacesPrimed DEF NextInPlace
<1> QED
  BY <1>1, <1>2, <1>3, <1>5, <1>6, GivesDelivered

LEMMA UnplugDelivered ==
  ASSUME UrbsAssumption, UrbsInv, Delivered, Unplug
  PROVE  Delivered'
<1>1. /\ phase \in {"submitting", "inflight"} /\ shape' = shape /\ received' = received /\ transferred' = transferred
      /\ buffer' = buffer /\ status' = status /\ phase' = phase /\ next' = next /\ gone' = TRUE /\ action' = action
  BY DEF Unplug, Kernel
<1>2. Active /\ ListInv(urbs, reapable) /\ shape \in Shapes
  BY <1>1 DEF UrbsInv, Basics, Active
<1>3. PICK l : Given(l) /\ Range(l) = Waiting(urbs)
  BY <1>2, UnplugGives
<1>4. Waiting(urbs') = {}
  BY <1>2, <1>3, GivesWaiting DEF Given
<1>5. LastWait(urbs', next')
  BY <1>4 DEF LastWait
<1> QED
  BY <1>1, <1>2, <1>3, <1>5, GivesDelivered

LEMMA LaterUrbFailsDelivered ==
  ASSUME UrbsAssumption, UrbsInv, Delivered, LaterUrbFails
  PROVE  Delivered'
<1>1. /\ phase = "submitting" /\ shape' = shape /\ received' = received /\ transferred' = transferred
      /\ buffer' = buffer /\ status' = status /\ phase' = "inflight" /\ action' # "NORMAL"
  BY DEF LaterUrbFails
<1>2. Active /\ ListInv(urbs, reapable) /\ shape \in Shapes
  BY <1>1 DEF UrbsInv, Basics, Active
<1>3. PICK l : Given(l)
  BY <1>2, LaterUrbFailsGives
<1> QED
  BY <1>1, <1>2, <1>3, GivesDelivered

LEMMA IsoDoneDelivered ==
  ASSUME UrbsAssumption, UrbsInv, Delivered, IsoDone
  PROVE  Delivered'
<1>1. /\ shape' = shape /\ received' = received /\ transferred' = transferred /\ shape.type = "iso"
      /\ buffer' = buffer /\ status' = status /\ phase' = phase /\ next' = next /\ Pending # {}
  BY DEF IsoDone, Kernel, busVars
<1>2. Active /\ ListInv(urbs, reapable) /\ shape \in Shapes
  BY <1>1 DEF UrbsInv, Basics, Counted, Active, Pending, Waiting
<1>3. Given(<<HeadUrb>>)
  BY <1>2, IsoDoneGives
<1>4. phase' \in {"submitting", "inflight"}
  BY <1>1, <1>2 DEF Active
<1> QED
  BY <1>1, <1>2, <1>3, <1>4, GivesDelivered

\* The first of the URBs the kernel has goes, or all of them go.
LEMMA LastStillWait ==
  ASSUME UrbsAssumption, UrbsInv, Pending # {}, NEW n \in Nat, LastWait(urbs, n), NEW l, Given(l),
         Range(l) = {HeadUrb} \/ Range(l) = Waiting(urbs)
  PROVE  LastWait(urbs', n)
<1>1. ListInv(urbs, reapable) /\ shape \in Shapes
  BY DEF UrbsInv, Basics, Counted, Active, Pending, Waiting
<1>2. \A i : i \in Waiting(urbs') <=> i \in Waiting(urbs) /\ i \notin Range(l)
  BY <1>1, GivesWaiting DEF Given
<1>3. CASE Range(l) = Waiting(urbs)
  BY <1>2, <1>3 DEF LastWait
<1>4. CASE Range(l) = {HeadUrb}
  <2>1. \A i \in Waiting(urbs) : HeadUrb =< i /\ i \in Nat /\ HeadUrb \in Nat
    BY <1>1, HeadIsWaiting DEF Waiting, ListInv
  <2> SUFFICES ASSUME NEW i \in Waiting(urbs'), NEW j \in i..n - 1 PROVE j \in Waiting(urbs')
    BY DEF LastWait
  <2>2. i \in Waiting(urbs) /\ i # HeadUrb
    BY <1>2, <1>4
  <2>3. j # HeadUrb
    BY <2>1, <2>2
  <2>4. j \in Waiting(urbs)
    BY <2>2 DEF LastWait
  <2> QED
    BY <1>2, <1>4, <2>3, <2>4
<1> QED
  BY <1>3, <1>4

\* Where the kernel has the last URB nothing is left to submit.
LEMMA LastIsSubmitted ==
  ASSUME UrbsAssumption, UrbsInv, NumUrbs \in Waiting(urbs)
  PROVE  phase = "inflight"
<1>1. Basics /\ Counted /\ ListInv(urbs, reapable) /\ NumUrbs \in Nat \ {0} /\ phase \in {"submitting", "inflight"}
  BY Splitting DEF UrbsInv, Basics, Counted, Active
<1>2. ASSUME phase = "submitting" PROVE FALSE
  <2>1. next \in 1..NumUrbs /\ urbs[NumUrbs].state = "pending"
    BY <1>1, <1>2 DEF Counted, Waiting
  <2>2. ~(NumUrbs < next) /\ NumUrbs \in 1..NumUrbs
    BY <1>1, <2>1
  <2> QED
    BY <1>1, <1>2, <2>1, <2>2 DEF Counted
<1> QED
  BY <1>1, <1>2

Troubles == {"short", "stall", "proto", "overflow", "submit"}

LEMMA TroubleAppended ==
  ASSUME NEW t \in Seq(Troubles), NEW s \in Troubles
  PROVE  LET a == Append(t, s)
         IN  /\ a \in Seq(Troubles) /\ a # <<>> /\ Contains(a, s)
             /\ Head(a) = IF t = <<>> THEN s ELSE Head(t)
             /\ \A x : Contains(t, x) => Contains(a, x)
             /\ \A x : Contains(a, x) => Contains(t, x) \/ x = s
<1> DEFINE a == Append(t, s)
<1>1. /\ a \in Seq(Troubles) /\ Len(a) = Len(t) + 1 /\ Len(t) \in Nat
      /\ (\A i \in 1..Len(t) : a[i] = t[i]) /\ a[Len(t) + 1] = s
  BY AppendProperties, LenProperties
<1> HIDE DEF a
<1>2. \A i \in 1..Len(a) : i \in 1..Len(t) \/ i = Len(t) + 1
  BY <1>1
<1>3. Len(t) + 1 \in 1..Len(a) /\ \A i \in 1..Len(t) : i \in 1..Len(a)
  BY <1>1
<1>4. a # <<>> /\ Head(a) = a[1]
  BY <1>1
<1>5. a[1] = IF t = <<>> THEN s ELSE Head(t)
  <2>1. CASE t = <<>>
    BY <1>1, <2>1
  <2>2. CASE t # <<>>
    <3>1. 1 \in 1..Len(t) /\ Head(t) = t[1]
      BY <1>1, <2>2, EmptySeq
    <3> QED
      BY <1>1, <2>2, <3>1
  <2> QED
    BY <2>1, <2>2
<1> QED
  BY <1>1, <1>2, <1>3, <1>4, <1>5 DEF Contains, a

LEMMA ShortPacketDelivered ==
  ASSUME UrbsAssumption, UrbsInv, Delivered, ShortPacket
  PROVE  Delivered'
<1> DEFINE h == HeadUrb
<1>1. /\ shape' = shape /\ received' = received /\ transferred' = transferred /\ shape.type # "iso"
      /\ buffer' = buffer /\ status' = status /\ phase' = phase /\ next' = next /\ Pending # {}
      /\ action' = action /\ gone' = gone
  BY DEF ShortPacket, Kernel
<1>2. Active /\ ListInv(urbs, reapable) /\ shape \in Shapes /\ Counted
  BY <1>1 DEF UrbsInv, Basics, Counted, Active, Pending, Waiting
<1>3. PICK l : /\ Given(l) /\ urbs'[h].status = IF ShortEnds(h) THEN "short" ELSE "ok"
               /\ Range(l) = {h} \cup (IF ShortEnds(h) THEN Waiting(urbs) \ {h} ELSE {})
  BY <1>2, ShortPacketGives
<1>4. h \in Waiting(urbs) /\ h \in 1..NumUrbs
  BY <1>1, <1>2, HeadIsWaiting
<1>5. ListInv(urbs', reapable') /\ \A i : i \in Waiting(urbs') <=> i \in Waiting(urbs) /\ i \notin Range(l)
  <2>1. ListInv(urbs', reapable \o l)
    BY <1>2, <1>3, GivesList DEF Given
  <2> QED
    BY <1>2, <1>3, <2>1, GivesWaiting DEF Given
<1>6. ASSUME action' = "NORMAL" PROVE LastWait(urbs', next') /\ NextInPlace'
  <2>1. InPlace /\ Room /\ next \in Nat
    <3>1. next \in Nat
      BY <1>2, Splitting DEF Counted, Active
    <3> QED
      BY <1>1, <1>2, <1>6, <3>1 DEF Delivered
  <2>2. Range(l) = {h} \/ Range(l) = Waiting(urbs)
    BY <1>3, <1>4
  <2>3. LastWait(urbs', next')
    BY <1>1, <1>3, <2>1, <2>2, LastStillWait DEF InPlace
  <2>4. CASE shape.length = 0
    <3>1. NumUrbs = 1
      BY <1>2, <2>4, Splitting
    <3>2. Waiting(urbs) \subseteq {1} /\ h = 1
      BY <1>2, <1>4, <3>1 DEF Waiting, ListInv
    <3>3. Waiting(urbs') = {}
      BY <1>3, <1>5, <3>2
    <3>4. phase' = "inflight"
      BY <1>1, <1>4, <3>1, <3>2, LastIsSubmitted
    <3> QED
      BY <1>1, <2>3, <3>3, <3>4, PlacesPrimed DEF NextInPlace
  <2>5. CASE shape.length # 0
    <3>1. Len(urbs[h].data) < urbs[h].len
      BY <1>4, <2>1, <2>5 DEF Room
    <3>2. urbs'[h].len = urbs[h].len /\ urbs'[h].data = urbs[h].data /\ urbs'[h].state = "reapable"
      BY <1>3, <1>4 DEF Given, Gives
    <3>3. Breaks(urbs'[h])
      BY <1>3, <3>1, <3>2 DEF Breaks
    <3>4. h \in Range(reapable')
      BY <1>4, <1>5, <3>2 DEF ListInv
    <3>5. BreakAhead(urbs', reapable')
      BY <3>3, <3>4 DEF BreakAhead
    <3>6. BreakAhead(urbs, reapable)'
      BY <1>1, <3>5, PlacesPrimed
    <3> QED
      BY <2>3, <3>6 DEF NextInPlace
  <2> QED
    BY <2>4, <2>5
<1>7. phase' \in {"submitting", "inflight"}
  BY <1>1, <1>2 DEF Active
<1> QED
  BY <1>1, <1>2, <1>3, <1>6, <1>7, GivesDelivered

LEMMA BusErrorDelivered ==
  ASSUME UrbsAssumption, UrbsInv, Delivered, trouble \in Seq(Troubles),
         NEW s \in {"stall", "proto", "overflow"}, BusError(s)
  PROVE  Delivered'
<1> DEFINE h == HeadUrb
<1>1. /\ shape' = shape /\ received' = received /\ transferred' = transferred /\ shape.type # "iso"
      /\ buffer' = buffer /\ status' = status /\ phase' = phase /\ next' = next /\ Pending # {}
      /\ action' = action /\ gone' = gone
      /\ s = "overflow" => h = NumUrbs
      /\ trouble' = IF Stalled THEN trouble ELSE Append(trouble, s)
      /\ Stalled => s = "stall"
  BY DEF BusError, Kernel
<1>2. Active /\ ListInv(urbs, reapable) /\ shape \in Shapes /\ Counted
  BY <1>1 DEF UrbsInv, Basics, Counted, Active, Pending, Waiting
<1>3. PICK l : /\ Given(l) /\ urbs'[h].status = s
               /\ Range(l) = {h} \cup (IF Continues THEN Waiting(urbs) \ {h} ELSE {})
  BY <1>2, BusErrorGives
<1>4. h \in Waiting(urbs) /\ h \in 1..NumUrbs /\ \A i \in Waiting(urbs) : h =< i
  BY <1>1, <1>2, HeadIsWaiting
<1>5. ListInv(urbs', reapable') /\ \A i : i \in Waiting(urbs') <=> i \in Waiting(urbs) /\ i \notin Range(l)
  <2>1. ListInv(urbs', reapable \o l)
    BY <1>2, <1>3, GivesList DEF Given
  <2> QED
    BY <1>2, <1>3, <2>1, GivesWaiting DEF Given
<1>6. ASSUME action' = "NORMAL" PROVE LastWait(urbs', next') /\ (~Stalled' => NextInPlace')
  <2>1. InPlace /\ Room /\ next \in Nat
    <3>1. next \in Nat
      BY <1>2, Splitting DEF Counted, Active
    <3> QED
      BY <1>1, <1>2, <1>6, <3>1 DEF Delivered
  <2>2. Range(l) = {h} \/ Range(l) = Waiting(urbs)
    BY <1>3, <1>4
  <2>3. LastWait(urbs', next')
    BY <1>1, <1>3, <2>1, <2>2, LastStillWait DEF InPlace
  <2>4. CASE s = "overflow"
    <3>1. h = NumUrbs
      BY <1>1, <2>4
    <3>2. Waiting(urbs) = {h}
      <4>1. \A i \in Waiting(urbs) : i \in 1..NumUrbs /\ NumUrbs \in Nat
        BY <1>2, Splitting DEF Waiting, ListInv
      <4>2. \A i \in Waiting(urbs) : i = h
        BY <1>4, <3>1, <4>1
      <4> QED
        BY <1>4, <4>2
    <3>3. Waiting(urbs') = {}
      BY <1>3, <1>5, <3>2
    <3>4. phase' = "inflight"
      BY <1>1, <1>4, <3>1, LastIsSubmitted
    <3> QED
      BY <1>1, <2>3, <3>3, <3>4, PlacesPrimed DEF NextInPlace
  <2>5. CASE s = "proto"
    <3>1. urbs'[h].state = "reapable" /\ Breaks(urbs'[h])
      BY <1>3, <1>4, <2>5 DEF Given, Gives, Breaks
    <3>2. h \in Range(reapable')
      BY <1>4, <1>5, <3>1 DEF ListInv
    <3>3. BreakAhead(urbs', reapable')
      BY <3>1, <3>2 DEF BreakAhead
    <3>4. BreakAhead(urbs, reapable)'
      BY <1>1, <3>3, PlacesPrimed
    <3> QED
      BY <2>3, <3>4 DEF NextInPlace
  <2>6. CASE s = "stall"
    <3>1. Stalled'
      <4>1. trouble' = IF Stalled THEN trouble ELSE Append(trouble, "stall")
        BY <1>1, <2>6
      <4>2. Contains(Append(trouble, "stall"), "stall")
        BY TroubleAppended DEF Troubles
      <4> QED
        BY <4>1, <4>2 DEF Stalled
    <3> QED
      BY <2>3, <3>1
  <2> QED
    BY <2>4, <2>5, <2>6
<1>7. phase' \in {"submitting", "inflight"}
  BY <1>1, <1>2 DEF Active
<1> QED
  BY <1>1, <1>2, <1>3, <1>6, <1>7, GivesDelivered

LEMMA PacketDelivered ==
  ASSUME UrbsAssumption, UrbsInv, Delivered, Packet
  PROVE  Delivered'
<1> DEFINE h == HeadUrb
           full == [urbs EXCEPT ![h].data = Append(@, received + 1)]
           d == urbs[h].data
<1>1. /\ shape' = shape /\ received' = received + 1 /\ transferred' = transferred /\ shape.type # "iso"
      /\ buffer' = buffer /\ status' = status /\ phase' = phase /\ next' = next /\ Pending # {}
      /\ action' = action /\ gone' = gone /\ trouble' = trouble /\ ~Stalled /\ ~gone
      /\ Len(d) < urbs[h].len
  BY DEF Packet, Kernel
<1>2. Active /\ ListInv(urbs, reapable) /\ shape \in Shapes /\ Counted
  BY <1>1 DEF UrbsInv, Basics, Counted, Active, Pending, Waiting
<1>3. /\ received \in Nat /\ transferred \in Nat /\ DataInv(urbs, reapable, transferred, received)
      /\ Room /\ (action = "NORMAL" => InPlace)
  BY <1>1, <1>2 DEF Delivered
<1>4. h \in Waiting(urbs) /\ h \in 1..NumUrbs /\ h \in Outstanding(urbs) /\ \A i \in Waiting(urbs) : h =< i /\ i \in 1..NumUrbs
  <2>1. h \in Waiting(urbs) /\ h \in 1..NumUrbs /\ h \in Outstanding(urbs) /\ \A i \in Waiting(urbs) : h =< i
    BY <1>1, <1>2, HeadIsWaiting
  <2> QED
    BY <1>2, <2>1 DEF ListInv, Waiting
<1>5. PICK l : /\ Gives(full, urbs', l) /\ reapable' = reapable \o l /\ Range(l) \subseteq {h}
               /\ h \in Range(l) <=> Len(d) + 1 = urbs[h].len
  BY <1>2, <1>3, PacketGives
<1> HIDE DEF h
<1>6. /\ ListInv(full, reapable) /\ Outstanding(full) = Outstanding(urbs) /\ Waiting(full) = Waiting(urbs)
      /\ \A i, j \in 1..NumUrbs : Earlier(full, reapable, i, j) <=> Earlier(urbs, reapable, i, j)
      /\ full[h].data = Append(d, received + 1)
      /\ \A i \in 1..NumUrbs : /\ full[i].len = urbs[i].len /\ full[i].state = urbs[i].state /\ full[i].status = urbs[i].status
                               /\ i # h => full[i] = urbs[i]
  <2>1. full = [urbs EXCEPT ![h].data = Append(@, received + 1)]
    OBVIOUS
  <2>2. ListInv(urbs, reapable) /\ h \in Waiting(urbs) /\ received \in Nat
    BY <1>2, <1>3, <1>4
  <2> HIDE DEF full
  <2>3. ListInv(full, reapable) /\ Outstanding(full) = Outstanding(urbs) /\ Waiting(full) = Waiting(urbs)
    BY <2>1, <2>2, PacketList
  <2>5. full[h].data = Append(urbs[h].data, received + 1)
    BY <2>1, <2>2 DEF ListInv, Waiting, Urb
  <2>6. \A i \in 1..NumUrbs : /\ full[i].len = urbs[i].len /\ full[i].state = urbs[i].state /\ full[i].status = urbs[i].status
                              /\ i # h => full[i] = urbs[i]
    BY <2>1, <2>2, PacketList
  <2>4. \A i, j \in 1..NumUrbs : Earlier(full, reapable, i, j) <=> Earlier(urbs, reapable, i, j)
    <3>3. \A j \in 1..NumUrbs : full[j].state = urbs[j].state
      BY <2>6
    <3> QED
      BY <3>3 DEF Earlier
  <2> QED
    BY <2>3, <2>4, <2>5, <2>6
<1>7. d \in Seq(Nat) /\ Len(d) \in Nat /\ Len(full[h].data) = Len(d) + 1 /\ urbs[h].len = LenOf(h)
      /\ full[h].data[1] = IF d = <<>> THEN received + 1 ELSE d[1]
  <2>1. d \in Seq(Nat) /\ urbs[h].len = LenOf(h)
    BY <1>2, <1>4 DEF ListInv, Urb
  <2>2. Len(d) \in Nat /\ Len(Append(d, received + 1)) = Len(d) + 1
        /\ (\A k \in 1..Len(d) : Append(d, received + 1)[k] = d[k]) /\ Append(d, received + 1)[Len(d) + 1] = received + 1
    BY <1>3, <2>1, AppendProperties
  <2>3. d # <<>> => 1 \in 1..Len(d)
    BY <2>1, <2>2, EmptySeq
  <2>4. d = <<>> => Len(d) = 0
    OBVIOUS
  <2> QED
    BY <1>6, <2>1, <2>2, <2>3, <2>4
<1>8. DataInv(full, reapable, transferred, received + 1)
  BY <1>2, <1>3, <1>4, PacketData
<1> HIDE DEF full, d
<1>9. DataInv(urbs, reapable, transferred, received)'
  <2>1. DataInv(urbs', reapable \o l, transferred, received + 1)
    BY <1>3, <1>5, <1>6, <1>8, GivesData
  <2> QED
    BY <1>1, <1>5, <2>1, DataPrimed
<1>10. ListInv(urbs', reapable') /\ \A i : i \in Waiting(urbs') <=> i \in Waiting(urbs) /\ i \notin Range(l)
  <2>1. ListInv(urbs', reapable \o l) /\ \A i : i \in Waiting(urbs') <=> i \in Waiting(full) /\ i \notin Range(l)
    BY <1>5, <1>6, GivesList, GivesWaiting
  <2> QED
    BY <1>5, <1>6, <2>1
<1>11. \A i \in 1..NumUrbs : /\ urbs'[i].len = urbs[i].len /\ urbs'[i].data = full[i].data
                             /\ urbs'[i].state = "new" => urbs[i].state = "new"
  BY <1>4, <1>5, <1>6 DEF Gives
<1>12. /\ NumUrbs \in Nat \ {0} /\ shape.length \in Nat
       /\ \A i \in 1..NumUrbs : /\ Start(i) \in Nat /\ LenOf(i) \in Nat /\ Start(i) + LenOf(i) =< shape.length
                                /\ i < NumUrbs => Start(i + 1) = Start(i) + LenOf(i)
       /\ \A i, j \in 1..NumUrbs : i < j => Start(i) + LenOf(i) =< Start(j)
  BY <1>2, Splitting
<1>13. received + 1 =< Start(h) + Len(d) + 1 /\ Start(h) + Len(d) + 1 =< Start(h) + LenOf(h)
  <2>1. received =< Start(h) + Len(d)
    BY <1>3, <1>4 DEF Room, d
  <2>2. Len(d) + 1 =< LenOf(h)
    BY <1>1, <1>4, <1>7, <1>12
  <2> QED
    BY <1>3, <1>4, <1>7, <1>12, <2>1, <2>2
<1>13a. Start(h) \in Nat /\ LenOf(h) \in Nat /\ received + 1 =< Start(h) + LenOf(h)
  BY <1>3, <1>4, <1>7, <1>12, <1>13
<1>14a. next \in Nat /\ next =< NumUrbs + 1 /\ (phase = "submitting" => next \in 1..NumUrbs)
  BY <1>2, <1>12 DEF Counted, Active
<1>14. \A i \in Waiting(urbs) : i < next
  <2> SUFFICES ASSUME NEW i \in Waiting(urbs) PROVE i < next
    OBVIOUS
  <2>1. i \in 1..NumUrbs /\ urbs[i].state = "pending"
    BY <1>4 DEF Waiting
  <2>2. CASE phase = "submitting"
    <3>1. urbs[i].state \in IF i < next THEN {"pending", "reapable"} ELSE {"new"}
      BY <1>2, <2>1, <2>2 DEF Counted
    <3> QED
      BY <2>1, <3>1
  <2>3. CASE phase = "inflight"
    <3>1. ~(i >= next)
      BY <1>2, <2>1, <2>3 DEF Counted
    <3> QED
      BY <1>14a, <2>1, <3>1
  <2> QED
    BY <1>2, <2>2, <2>3 DEF Active
<1>15. Room'
  <2>1. received' =< shape.length
    BY <1>1, <1>3, <1>4, <1>7, <1>12, <1>13
  <2>2. \A i \in 1..NumUrbs : /\ Len(urbs'[i].data) =< urbs'[i].len
                              /\ urbs'[i].state = "new" => urbs'[i].data = <<>>
    <3> SUFFICES ASSUME NEW i \in 1..NumUrbs
                 PROVE  /\ Len(urbs'[i].data) =< urbs'[i].len
                        /\ urbs'[i].state = "new" => urbs'[i].data = <<>>
      OBVIOUS
    <3>1. CASE i = h
      <4>1. urbs[h].state # "new"
        BY <1>4 DEF Waiting
      <4>2. Len(d) + 1 =< urbs[h].len
        BY <1>1, <1>4, <1>7, <1>12
      <4> QED
        BY <1>4, <1>7, <1>11, <3>1, <4>1, <4>2
    <3>2. CASE i # h
      <4>1. urbs'[i].data = urbs[i].data
        BY <1>6, <1>11, <3>2
      <4> QED
        BY <1>3, <1>11, <4>1 DEF Room
    <3> QED
      BY <3>1, <3>2
  <2>3. ASSUME NEW i \in Waiting(urbs')
        PROVE  /\ received' =< Start(i) + Len(urbs'[i].data)
               /\ Len(urbs'[i].data) < urbs'[i].len \/ shape.length = 0
    <3>1. i \in Waiting(urbs) /\ i \notin Range(l) /\ i \in 1..NumUrbs
      BY <1>4, <1>10, <2>3
    <3>2. CASE i = h
      <4>1. Len(urbs'[h].data) = Len(d) + 1 /\ urbs'[h].len = LenOf(h)
        BY <1>4, <1>7, <1>11
      <4>2. Len(d) + 1 # LenOf(h)
        BY <1>5, <1>7, <3>1, <3>2
      <4> QED
        BY <1>1, <1>3, <1>4, <1>7, <1>12, <1>13, <3>2, <4>1, <4>2
    <3>3. CASE i # h
      <4>1. urbs'[i].data = urbs[i].data /\ urbs'[i].len = urbs[i].len
        BY <1>6, <1>11, <3>1, <3>3
      <4>2. h < i
        BY <1>4, <3>1, <3>3
      <4>3. Start(h) + LenOf(h) =< Start(i)
        BY <1>4, <1>12, <3>1, <4>2
      <4>4. Len(urbs[i].data) \in Nat
        BY <1>2, <3>1, LenProperties DEF ListInv, Urb
      <4>5. Start(i) \in Nat
        BY <1>12, <3>1
      <4>6. received + 1 =< Start(i) + Len(urbs[i].data)
        BY <1>3, <1>13a, <4>3, <4>4, <4>5
      <4> QED
        BY <1>1, <1>3, <3>1, <4>1, <4>6 DEF Room
    <3> QED
      BY <3>2, <3>3
  <2>4. phase = "submitting" => received' =< Start(next)
    <3> SUFFICES ASSUME phase = "submitting" PROVE received + 1 =< Start(next)
      BY <1>1
    <3>1. h < next /\ next \in 1..NumUrbs
      BY <1>4, <1>14, <1>14a
    <3>2. Start(h) + LenOf(h) =< Start(next) /\ Start(next) \in Nat
      BY <1>4, <1>12, <3>1
    <3> QED
      BY <1>3, <1>13a, <3>2
  <2>5. NumUrbs' = NumUrbs /\ \A i : Start(i)' = Start(i)
    BY <1>1, SameShape
  <2>6. \A i \in Waiting(urbs)' : /\ received' =< Start(i)' + Len(urbs'[i].data)
                                  /\ Len(urbs'[i].data) < urbs'[i].len \/ shape'.length = 0
    BY <1>1, <2>3, <2>5 DEF Waiting
  <2>7. phase' = "submitting" => received' =< Start(next)'
    BY <1>1, <2>4, <2>5 DEF Start
  <2> QED
    BY <1>1, <2>1, <2>2, <2>5, <2>6, <2>7 DEF Room
<1>16. ASSUME action = "NORMAL" PROVE InPlace'
  <2>1. LastWait(urbs, next) /\ FirstPlaces(urbs, reapable) /\ NextInPlace
    BY <1>1, <1>3, <1>16 DEF InPlace
  <2>2. received = Start(h) + Len(d) \/ BreakAhead(urbs, reapable)
    BY <1>4, <2>1 DEF NextInPlace, d
  <2>3. \A j \in 1..NumUrbs : Breaks(urbs[j]) => Breaks(full[j])
    <3>1. ~Breaks(urbs[h])
      BY <1>2, <1>4 DEF ListInv, Waiting, Breaks
    <3> QED
      BY <1>6, <3>1
  <2>4. BreakAhead(urbs, reapable) => BreakAhead(full, reapable) /\ BreakAhead(urbs', reapable')
    <3>1. BreakAhead(urbs, reapable) => BreakAhead(full, reapable)
      BY <1>2, <2>3, ListedIsUrb DEF BreakAhead
    <3>2. BreakAhead(full, reapable) => BreakAhead(urbs', reapable \o l)
      BY <1>5, <1>6, GivesPlaces
    <3> QED
      BY <1>5, <3>1, <3>2
  <2>5. FirstPlaces(full, reapable)
    <3>0. Outstanding(urbs) \subseteq 1..NumUrbs
      BY <1>2 DEF Outstanding, ListInv
    <3> SUFFICES ASSUME NEW i \in Outstanding(urbs), full[i].data # <<>>
                 PROVE  \/ full[i].data[1] = Start(i) + 1
                        \/ \E j \in Outstanding(urbs) : Earlier(urbs, reapable, j, i) /\ Breaks(full[j])
      BY <1>6, <3>0 DEF FirstPlaces
    <3>1. ASSUME urbs[i].data # <<>>, full[i].data[1] = urbs[i].data[1]
          PROVE  \/ full[i].data[1] = Start(i) + 1
                 \/ \E j \in Outstanding(urbs) : Earlier(urbs, reapable, j, i) /\ Breaks(full[j])
      BY <2>1, <2>3, <3>0, <3>1 DEF FirstPlaces
    <3>2. CASE i # h
      BY <1>6, <3>0, <3>1, <3>2
    <3>3. CASE i = h /\ d # <<>>
      BY <1>7, <3>1, <3>3 DEF d
    <3>4. CASE i = h /\ d = <<>>
      <4>1. full[i].data[1] = received + 1 /\ Len(d) = 0
        BY <1>7, <3>4
      <4>2. CASE received = Start(h) + Len(d)
        BY <1>4, <1>12, <3>4, <4>1, <4>2
      <4>3. CASE BreakAhead(urbs, reapable)
        <5>1. PICK j \in Range(reapable) : Breaks(urbs[j])
          BY <4>3 DEF BreakAhead
        <5>2. j \in 1..NumUrbs /\ j \in Outstanding(urbs)
          BY <1>2, ListedIsUrb DEF ListInv, Outstanding
        <5>3. Earlier(urbs, reapable, j, h)
          BY <1>2, <1>4, ListedIsEarlier
        <5> QED
          BY <2>3, <3>4, <5>1, <5>2, <5>3
      <4> QED
        BY <2>2, <4>2, <4>3
    <3> QED
      BY <3>2, <3>3, <3>4
  <2>6. FirstPlaces(urbs, reapable)'
    <3>1. FirstPlaces(urbs', reapable \o l)
      BY <1>5, <1>6, <2>5, GivesPlaces
    <3> QED
      BY <1>1, <1>5, <3>1, PlacesPrimed
  <2>7. LastWait(urbs, next)'
    <3>1. \A i \in Waiting(urbs') : \A j \in i..next - 1 : j \in Waiting(urbs')
      <4> SUFFICES ASSUME NEW i \in Waiting(urbs'), NEW j \in i..next - 1 PROVE j \in Waiting(urbs')
        OBVIOUS
      <4>1. i \in Waiting(urbs) /\ i \notin Range(l) /\ i \in 1..NumUrbs /\ h =< i
        BY <1>4, <1>10
      <4>2. j \in Waiting(urbs)
        BY <2>1, <4>1 DEF LastWait
      <4>3. j = h => i = h
        BY <1>4, <1>14a, <4>1
      <4> QED
        BY <1>5, <1>10, <4>1, <4>2, <4>3
    <3> QED
      BY <1>1, <3>1, PlacesPrimed DEF LastWait
  <2>8. CASE BreakAhead(urbs, reapable)
    <3>1. BreakAhead(urbs, reapable)'
      BY <1>1, <2>4, <2>8, PlacesPrimed
    <3> QED
      BY <2>6, <2>7, <3>1 DEF InPlace, NextInPlace
  <2>9. CASE received = Start(h) + Len(d)
    <3>1. ASSUME NEW i \in Waiting(urbs'), \A j \in Waiting(urbs') : i =< j
          PROVE  received + 1 = Start(i) + Len(urbs'[i].data)
      <4>1. i \in Waiting(urbs) /\ i \notin Range(l) /\ i \in 1..NumUrbs /\ h =< i
        BY <1>4, <1>10, <3>1
      <4>2. CASE i = h
        <5>1. Len(urbs'[h].data) = Len(d) + 1
          BY <1>4, <1>7, <1>11
        <5> QED
          BY <1>3, <1>7, <1>13a, <2>9, <4>2, <5>1
      <4>3. CASE i # h
        <5>1. h < i /\ h \notin Waiting(urbs')
          BY <1>4, <3>1, <4>1, <4>3
        <5>2. h \in Range(l) /\ Len(d) + 1 = LenOf(h)
          BY <1>4, <1>5, <1>7, <1>10, <5>1
        <5>3. h + 1 \in Waiting(urbs)
          <6>1. h + 1 \in h..next - 1
            BY <1>4, <1>14, <1>14a, <4>1, <5>1
          <6> QED
            BY <1>4, <2>1, <6>1 DEF LastWait
        <5>4. h + 1 \in Waiting(urbs')
          BY <1>4, <1>5, <1>10, <5>3
        <5>5. i = h + 1
          BY <1>4, <3>1, <4>1, <5>1, <5>4
        <5>6. urbs[i].data = <<>> /\ urbs'[i].data = <<>>
          <6>1. urbs[i].data = <<>>
            BY <1>3, <1>4, <4>1, <5>1 DEF DataInv
          <6> QED
            BY <1>6, <1>11, <4>1, <4>3, <6>1
        <5>7. Start(i) = Start(h) + LenOf(h)
          BY <1>4, <1>12, <4>1, <5>1, <5>5
        <5>8. Len(urbs'[i].data) = 0
          BY <5>6
        <5> QED
          BY <1>3, <1>4, <1>7, <1>12, <2>9, <4>1, <5>2, <5>7, <5>8
      <4> QED
        BY <4>2, <4>3
    <3>2. ASSUME phase = "submitting", Waiting(urbs') = {}
          PROVE  received + 1 = Start(next)
      <4>1. h \in Range(l) /\ Len(d) + 1 = LenOf(h)
        BY <1>4, <1>5, <1>7, <1>10, <3>2
      <4>2. next = h + 1
        <5>1. h < next /\ next \in 1..NumUrbs
          BY <1>4, <1>14, <1>14a, <3>2
        <5>2. ASSUME h + 1 < next PROVE FALSE
          <6>1. h + 1 \in h..next - 1
            BY <1>4, <5>1, <5>2
          <6>2. h + 1 \in Waiting(urbs)
            BY <1>4, <2>1, <6>1 DEF LastWait
          <6> QED
            BY <1>4, <1>5, <1>10, <3>2, <6>2
        <5> QED
          BY <1>4, <5>1, <5>2
      <4>3. Start(next) = Start(h) + LenOf(h)
        BY <1>4, <1>12, <1>14a, <3>2, <4>2
      <4> QED
        BY <1>3, <1>4, <1>7, <1>12, <2>9, <4>1, <4>3
    <3>3. NextInPlace'
      <4>1. Waiting(urbs)' = Waiting(urbs') /\ \A i : Start(i)' = Start(i)
        BY <1>1, PlacesPrimed
      <4>2. Start(next)' = Start(next)
        BY <1>1, <4>1 DEF Start
      <4> QED
        BY <1>1, <3>1, <3>2, <4>1, <4>2 DEF NextInPlace
    <3> QED
      BY <2>6, <2>7, <3>3 DEF InPlace
  <2> QED
    BY <2>2, <2>8, <2>9
<1>17. received' \in Nat /\ transferred' =< received' /\ received' =< shape'.length
  BY <1>1, <1>3, <1>15 DEF Room, DataInv
<1>18. /\ phase' \notin {"idle", "refused", "done"}
       /\ phase' = "submitting" \/ (shape'.type = "control" /\ Active') => transferred' = 0
       /\ buffer' \in [1..shape'.length -> 0..shape'.length] /\ \A k \in 1..transferred' : buffer'[k] = k
  BY <1>1, <1>2 DEF Delivered, Active
<1> QED
  BY <1>1, <1>3, <1>9, <1>15, <1>16, <1>17, <1>18 DEF Delivered

LEMMA SubmitDelivered ==
  ASSUME UrbsAssumption, UrbsInv, Delivered, Submit
  PROVE  Delivered'
<1>1. /\ phase = "idle" /\ phase' = "submitting" /\ next' = 1 /\ shape' = shape /\ received' = received
      /\ transferred' = transferred /\ buffer' = buffer /\ status' = status /\ reapable' = reapable
      /\ urbs' = [i \in 1..NumUrbs |-> [len |-> LenOf(i), state |-> "new", status |-> "none",
                    data |-> IF shape.type = "iso" THEN [k \in 1..LenOf(i) |-> Start(i) + k] ELSE <<>>]]
  BY DEF Submit, busVars
<1>2. shape \in Shapes /\ reapable = <<>> /\ received = 0 /\ transferred = 0
  BY <1>1 DEF UrbsInv, Basics, Counted, Active, Delivered
<1>3. NumUrbs \in Nat \ {0} /\ shape.length \in Nat /\ Start(1) = 0 /\ \A i \in 1..NumUrbs : LenOf(i) \in Nat
  BY <1>2, Splitting
<1>4. /\ NumUrbs' = NumUrbs /\ \A i : Start(i)' = Start(i)
  BY <1>1, SameShape
<1>5. Outstanding(urbs') = {} /\ Waiting(urbs') = {}
  BY <1>1 DEF Outstanding, Waiting
<1>6. ASSUME shape.type # "iso" PROVE Room' /\ InPlace' /\ DataInv(urbs, reapable, transferred, received)'
  <2>1. \A i \in 1..NumUrbs : urbs'[i].data = <<>> /\ urbs'[i].len = LenOf(i)
    BY <1>1, <1>6
  <2>2. \A i \in 1..NumUrbs : /\ Len(urbs'[i].data) =< urbs'[i].len
                              /\ urbs'[i].state = "new" => urbs'[i].data = <<>>
    <3>1. Len(<<>>) = 0
      OBVIOUS
    <3> QED
      BY <1>3, <2>1, <3>1
  <2>3. Waiting(urbs)' = {} /\ Outstanding(urbs)' = {}
    BY <1>5 DEF Waiting, Outstanding
  <2>4. Start(next)' = 0
    BY <1>1, <1>3, <1>4 DEF Start
  <2>5. Room'
    BY <1>1, <1>2, <1>3, <1>4, <2>2, <2>3, <2>4 DEF Room
  <2>6. InPlace'
    BY <1>1, <1>2, <2>3, <2>4 DEF InPlace, LastWait, FirstPlaces, NextInPlace
  <2>7. DataInv(urbs, reapable, transferred, received)'
    BY <1>1, <1>2, <2>3 DEF DataInv
  <2> QED
    BY <2>5, <2>6, <2>7
<1> QED
  BY <1>1, <1>2, <1>6 DEF Delivered, Active

LEMMA SubmitUrbDelivered ==
  ASSUME UrbsAssumption, UrbsInv, Delivered, SubmitUrb
  PROVE  Delivered'
<1>1. /\ phase = "submitting" /\ phase' \in {"submitting", "inflight"} /\ next' = next + 1 /\ shape' = shape
      /\ received' = received /\ transferred' = transferred /\ buffer' = buffer /\ status' = status
      /\ reapable' = reapable /\ gone' = gone /\ trouble' = trouble /\ action' = action
      /\ urbs' = [urbs EXCEPT ![next].state = "pending"]
      /\ phase' = "submitting" => next # NumUrbs
  BY DEF SubmitUrb, busVars
<1>2. /\ shape \in Shapes /\ Active /\ ListInv(urbs, reapable) /\ Counted /\ action = "NORMAL"
      /\ next \in 1..NumUrbs /\ \A i \in 1..NumUrbs : urbs[i].state \in IF i < next THEN {"pending", "reapable"} ELSE {"new"}
      /\ transferred = 0
  BY <1>1 DEF UrbsInv, Basics, Counted, Active, Delivered
<1>3. /\ NumUrbs \in Nat \ {0} /\ shape.length \in Nat
      /\ \A i \in 1..NumUrbs : /\ Start(i) \in Nat /\ LenOf(i) \in Nat
                               /\ i < NumUrbs => Start(i + 1) = Start(i) + LenOf(i)
      /\ shape.length # 0 => \A i \in 1..NumUrbs : LenOf(i) # 0
  BY <1>2, Splitting
<1>4. CASE shape.type = "iso"
  BY <1>1, <1>4 DEF Delivered, Active
<1>5. CASE shape.type # "iso"
  <2>1. DataInv(urbs, reapable, transferred, received) /\ Room /\ InPlace /\ received \in Nat
    BY <1>2, <1>5 DEF Delivered
  <2>2. urbs[next].state = "new" /\ urbs[next].data = <<>> /\ urbs[next].len = LenOf(next) /\ next \in Nat
    <3>1. ~(next < next)
      BY <1>2, <1>3
    <3>2. urbs[next].state = "new"
      BY <1>2, <3>1
    <3> QED
      BY <1>2, <1>3, <2>1, <3>2 DEF Room, ListInv
  <2>3. /\ DOMAIN urbs' = 1..NumUrbs /\ DOMAIN urbs = 1..NumUrbs
        /\ \A i \in 1..NumUrbs : /\ urbs'[i].len = urbs[i].len /\ urbs'[i].data = urbs[i].data /\ urbs'[i].status = urbs[i].status
                                 /\ urbs'[i].state = IF i = next THEN "pending" ELSE urbs[i].state
    BY <1>1, <1>2 DEF ListInv, Urb
  <2>4. /\ Waiting(urbs') = Waiting(urbs) \cup {next} /\ Outstanding(urbs') = Outstanding(urbs) \cup {next}
        /\ next \notin Outstanding(urbs) /\ Waiting(urbs) \subseteq Outstanding(urbs) /\ Outstanding(urbs) \subseteq 1..NumUrbs
    BY <1>2, <2>2, <2>3 DEF Waiting, Outstanding
  <2>5. \A i \in Waiting(urbs) : i < next
    BY <1>2, <2>4 DEF Waiting
  <2>6. \A i \in 1..NumUrbs, j \in Outstanding(urbs) : Earlier(urbs', reapable, i, j) <=> Earlier(urbs, reapable, i, j)
    BY <2>3, <2>4 DEF Earlier
  <2>7. \A j \in 1..NumUrbs : ~Earlier(urbs', reapable, next, j)
    <3>1. next \notin Range(reapable)
      BY <1>2, <2>2 DEF ListInv
    <3> QED
      BY <1>2, <3>1, LenProperties DEF Earlier, Range, ListInv
  <2>8. Places(urbs[next]) = {} /\ Len(urbs[next].data) = 0
    BY <2>2 DEF Places
  <2>9. \A i \in 1..NumUrbs : Places(urbs'[i]) = Places(urbs[i])
    BY <2>3 DEF Places
  <2>10. DataInv(urbs', reapable, transferred, received)
    <3>1. transferred =< received
      BY <2>1 DEF DataInv
    <3>2. \A i \in Outstanding(urbs') : \A k \in Places(urbs'[i]) :
            urbs'[i].data[k] = urbs'[i].data[1] + k - 1 /\ transferred < urbs'[i].data[k] /\ urbs'[i].data[k] =< received
      BY <2>1, <2>3, <2>4, <2>8, <2>9, <1>2 DEF DataInv
    <3>3. \A x \in transferred + 1..received : \E i \in Outstanding(urbs') : \E k \in Places(urbs'[i]) : urbs'[i].data[k] = x
      <4> SUFFICES ASSUME NEW x \in transferred + 1..received
                   PROVE  \E i \in Outstanding(urbs') : \E k \in Places(urbs'[i]) : urbs'[i].data[k] = x
        OBVIOUS
      <4>1. PICK i \in Outstanding(urbs) : \E k \in Places(urbs[i]) : urbs[i].data[k] = x
        BY <2>1 DEF DataInv
      <4> QED
        BY <2>3, <2>4, <2>9, <4>1
    <3>4. \A i, j \in Outstanding(urbs') : Earlier(urbs', reapable, i, j) =>
            \A k \in Places(urbs'[i]), m \in Places(urbs'[j]) : urbs'[i].data[k] < urbs'[j].data[m]
      <4> SUFFICES ASSUME NEW i \in Outstanding(urbs'), NEW j \in Outstanding(urbs'), Earlier(urbs', reapable, i, j),
                          NEW k \in Places(urbs'[i]), NEW m \in Places(urbs'[j])
                   PROVE  urbs'[i].data[k] < urbs'[j].data[m]
        OBVIOUS
      <4>1. i # next /\ j # next
        BY <1>2, <2>8, <2>9
      <4>2. i \in Outstanding(urbs) /\ j \in Outstanding(urbs) /\ i \in 1..NumUrbs /\ j \in 1..NumUrbs
        BY <2>4, <4>1
      <4>3. Earlier(urbs, reapable, i, j) /\ k \in Places(urbs[i]) /\ m \in Places(urbs[j])
        BY <2>6, <2>9, <4>2
      <4>4. urbs[i].data[k] < urbs[j].data[m]
        BY <2>1, <4>2, <4>3 DEF DataInv
      <4> QED
        BY <2>3, <4>2, <4>4
    <3>5. \A i, j \in Waiting(urbs') : i < j => urbs'[j].data = <<>>
      <4> SUFFICES ASSUME NEW i \in Waiting(urbs'), NEW j \in Waiting(urbs'), i < j PROVE urbs'[j].data = <<>>
        OBVIOUS
      <4>1. CASE j = next
        BY <1>2, <2>2, <2>3, <4>1
      <4>2. CASE j # next
        <5>1. j \in Waiting(urbs) /\ j < next /\ j \in 1..NumUrbs
          BY <2>4, <2>5, <4>2
        <5>2. i # next
          BY <1>3, <2>2, <5>1
        <5>3. i \in Waiting(urbs)
          BY <2>4, <5>2
        <5> QED
          BY <2>1, <2>3, <5>1, <5>3 DEF DataInv
      <4> QED
        BY <4>1, <4>2
    <3> QED
      BY <3>1, <3>2, <3>3, <3>4, <3>5 DEF DataInv
  <2>11. DataInv(urbs, reapable, transferred, received)'
    BY <1>1, <2>10, DataPrimed
  <2>12. NumUrbs' = NumUrbs /\ (\A i : Start(i)' = Start(i)) /\ Waiting(urbs)' = Waiting(urbs')
    BY <1>1, SameShape, PlacesPrimed
  <2>13. Room'
    <3>1. \A i \in 1..NumUrbs : /\ Len(urbs'[i].data) =< urbs'[i].len
                                /\ urbs'[i].state = "new" => urbs'[i].data = <<>>
      <4>1. "pending" # "new"
        OBVIOUS
      <4> QED
        BY <2>1, <2>3, <4>1 DEF Room
    <3>2. ASSUME NEW i \in Waiting(urbs')
          PROVE  /\ received =< Start(i) + Len(urbs'[i].data)
                 /\ Len(urbs'[i].data) < urbs'[i].len \/ shape.length = 0
      <4>1. CASE i = next
        <5>1. received =< Start(next) /\ Start(next) \in Nat
          BY <1>1, <1>2, <1>3, <2>1 DEF Room
        <5>2. Len(urbs'[i].data) = 0 /\ urbs'[i].len = LenOf(next)
          BY <1>2, <2>2, <2>3, <2>8, <4>1
        <5> QED
          BY <1>2, <1>3, <4>1, <5>1, <5>2
      <4>2. CASE i # next
        <5>1. i \in Waiting(urbs) /\ i \in 1..NumUrbs
          BY <2>4, <4>2
        <5> QED
          BY <2>1, <2>3, <5>1 DEF Room
      <4> QED
        BY <4>1, <4>2
    <3>3. ASSUME phase' = "submitting" PROVE received =< Start(next + 1)
      <4>1. next < NumUrbs
        BY <1>1, <1>2, <1>3, <3>3
      <4>2. Start(next + 1) = Start(next) + LenOf(next) /\ Start(next) \in Nat /\ LenOf(next) \in Nat
        BY <1>2, <1>3, <4>1
      <4>3. received =< Start(next)
        BY <1>1, <2>1 DEF Room
      <4> QED
        BY <2>1, <4>2, <4>3
    <3>4. phase' = "submitting" => received' =< Start(next)'
      BY <1>1, <2>12, <3>3 DEF Start
    <3>5. \A i \in Waiting(urbs)' : /\ received' =< Start(i)' + Len(urbs'[i].data)
                                    /\ Len(urbs'[i].data) < urbs'[i].len \/ shape'.length = 0
      BY <1>1, <2>12, <3>2
    <3>6. received' =< shape'.length
      BY <1>1, <2>1 DEF Room
    <3> QED
      BY <1>1, <2>12, <3>1, <3>4, <3>5, <3>6 DEF Room
  <2>14. LastWait(urbs, next)'
    <3>1. \A i \in Waiting(urbs') : \A j \in i..(next + 1) - 1 : j \in Waiting(urbs')
      <4> SUFFICES ASSUME NEW i \in Waiting(urbs'), NEW j \in i..(next + 1) - 1 PROVE j \in Waiting(urbs')
        OBVIOUS
      <4>1. i \in Nat /\ j \in Nat /\ i =< j /\ j =< next
        BY <1>3, <2>2, <2>4
      <4>2. CASE j = next
        BY <2>4, <4>2
      <4>3. CASE j # next
        <5>1. i # next /\ j \in i..next - 1
          BY <2>2, <4>1, <4>3
        <5> QED
          BY <2>1, <2>4, <5>1 DEF InPlace, LastWait
      <4> QED
        BY <4>2, <4>3
    <3> QED
      BY <1>1, <3>1, PlacesPrimed DEF LastWait
  <2>15. \A i \in 1..NumUrbs : Breaks(urbs'[i]) <=> Breaks(urbs[i])
    BY <2>3 DEF Breaks
  <2>16. FirstPlaces(urbs, reapable)'
    <3> SUFFICES ASSUME NEW i \in Outstanding(urbs'), urbs'[i].data # <<>>
                 PROVE  \/ urbs'[i].data[1] = Start(i) + 1
                        \/ \E j \in Outstanding(urbs') : Earlier(urbs', reapable, j, i) /\ Breaks(urbs'[j])
      BY <1>1, PlacesPrimed DEF FirstPlaces
    <3>1. i # next
      BY <1>2, <2>2, <2>3
    <3>2. i \in Outstanding(urbs) /\ i \in 1..NumUrbs
      BY <2>4, <3>1
    <3>3. \/ urbs[i].data[1] = Start(i) + 1
          \/ \E j \in Outstanding(urbs) : Earlier(urbs, reapable, j, i) /\ Breaks(urbs[j])
      BY <2>1, <2>3, <3>2 DEF InPlace, FirstPlaces
    <3> QED
      BY <2>3, <2>4, <2>6, <2>15, <3>2, <3>3
  <2>17. BreakAhead(urbs, reapable) => BreakAhead(urbs, reapable)'
    <3>1. BreakAhead(urbs, reapable) => BreakAhead(urbs', reapable)
      BY <1>2, <2>15, ListedIsUrb DEF BreakAhead
    <3> QED
      BY <1>1, <3>1, PlacesPrimed
  <2>18. ASSUME ~Stalled', ~gone' PROVE NextInPlace'
    <3>1. NextInPlace
      BY <1>1, <2>1, <2>18 DEF InPlace, Stalled
    <3>2. next \in Waiting(urbs)'
      BY <2>4, <2>12
    <3>3. ASSUME NEW i \in Waiting(urbs'), \A j \in Waiting(urbs') : i =< j
          PROVE  received = Start(i) + Len(urbs'[i].data) \/ BreakAhead(urbs, reapable)
      <4>1. CASE Waiting(urbs) = {}
        <5>1. i = next /\ Len(urbs'[i].data) = 0
          BY <1>2, <2>3, <2>4, <2>8, <4>1
        <5>2. received = Start(next) \/ BreakAhead(urbs, reapable)
          BY <1>1, <3>1, <4>1 DEF NextInPlace
        <5> QED
          BY <1>2, <1>3, <5>1, <5>2
      <4>2. CASE Waiting(urbs) # {}
        <5>1. PICK j \in Waiting(urbs) : TRUE
          BY <4>2
        <5>2. i # next
          BY <1>3, <2>2, <2>4, <2>5, <3>3, <5>1
        <5>3. i \in Waiting(urbs) /\ (\A m \in Waiting(urbs) : i =< m) /\ i \in 1..NumUrbs
          BY <2>4, <3>3, <5>2
        <5> QED
          BY <2>3, <3>1, <5>3 DEF NextInPlace
      <4> QED
        BY <4>1, <4>2
    <3> QED
      BY <1>1, <2>12, <2>17, <3>2, <3>3 DEF NextInPlace
  <2>19. InPlace'
    BY <2>14, <2>16, <2>18 DEF InPlace
  <2> QED
    BY <1>1, <1>2, <1>5, <2>11, <2>13, <2>19 DEF Delivered, Active
<1> QED
  BY <1>4, <1>5

LEMMA NothingUngiven ==
  ASSUME NEW us, NEW r, NEW t \in Nat, NEW n \in Nat, DataInv(us, r, t, n), Outstanding(us) = {}
  PROVE  t = n
<1>1. t =< n /\ \A x \in t + 1..n : FALSE
  BY DEF DataInv
<1>2. t # n => t + 1 \in t + 1..n
  BY <1>1
<1> QED
  BY <1>1, <1>2

\* The data of the URB reaped next is the next to be given to the transfer.
LEMMA ReapData ==
  ASSUME UrbsAssumption, UrbsInv, Delivered, Reap, shape.type # "iso"
  PROVE  LET d == urbs[Head(reapable)].data
         IN  /\ d \in Seq(Nat) /\ Len(d) \in Nat /\ transferred + Len(d) =< received
             /\ \A k \in 1..Len(d) : d[k] = transferred + k
             /\ DataInv(urbs', reapable', transferred + Len(d), received)
             /\ phase' = "done" => transferred + Len(d) = received
             /\ Room'
<1> DEFINE h == Head(reapable)
           d == urbs[h].data
           vs == [urbs EXCEPT ![h].state = "reaped"]
<1>1. /\ shape \in Shapes /\ ListInv(urbs, reapable) /\ phase = "inflight" /\ Active
      /\ shape' = shape /\ received' = received /\ next' = next
  BY DEF UrbsInv, Basics, Reap, Active
<1>2. DataInv(urbs, reapable, transferred, received) /\ Room /\ received \in Nat /\ transferred \in Nat
  BY <1>1 DEF Delivered
<1>3. /\ reapable # <<>> /\ Takes(urbs, vs, reapable)
      /\ \E l : Gives(vs, urbs', l) /\ reapable' = Tail(reapable) \o l
  BY <1>1, ReapMoves
<1>4. PICK l : Gives(vs, urbs', l) /\ reapable' = Tail(reapable) \o l
  BY <1>3
<1> HIDE DEF vs
<1>5. ListInv(vs, Tail(reapable))
  BY <1>1, <1>3, TakesList
<1>6. /\ d \in Seq(Nat) /\ transferred + Len(d) =< received
      /\ \A k \in 1..Len(d) : d[k] = transferred + k
      /\ DataInv(vs, Tail(reapable), transferred + Len(d), received)
  BY <1>1, <1>2, <1>3, TakesData
<1>7. Len(d) \in Nat /\ transferred + Len(d) \in Nat
  BY <1>2, <1>6, LenProperties
<1> HIDE DEF d
<1>8. DataInv(urbs', reapable', transferred + Len(d), received)
  <2> DEFINE t == Tail(reapable)
             n == transferred + Len(d)
  <2>1. ListInv(vs, t) /\ Gives(vs, urbs', l) /\ DataInv(vs, t, n, received) /\ n \in Nat /\ received \in Nat
    BY <1>2, <1>4, <1>5, <1>6, <1>7
  <2> HIDE DEF t, n
  <2>2. DataInv(urbs', t \o l, n, received)
    BY <2>1, GivesData
  <2> QED
    BY <1>4, <2>2 DEF t, n
<1>9. phase' = "done" => transferred + Len(d) = received
  <2>1. phase' = "done" => Outstanding(urbs') = {}
    BY ReapUrbs
  <2> QED
    BY <1>2, <1>7, <1>8, <2>1, NothingUngiven
<1>10. Room'
  <2>1. ListInv(urbs', reapable')
    <3> DEFINE t == Tail(reapable)
    <3>1. ListInv(vs, t) /\ Gives(vs, urbs', l)
      BY <1>4, <1>5
    <3> HIDE DEF t
    <3>2. ListInv(urbs', t \o l)
      BY <3>1, GivesList
    <3> QED
      BY <1>4, <3>2 DEF t
  <2>2. Settles(urbs, vs) /\ Settles(vs, urbs')
    BY <1>3, <1>4, <1>5, TakesSettles, GivesSettles
  <2>3. Settles(urbs, urbs')
    BY <2>2 DEF Settles
  <2>4. phase' # "submitting"
    <3>1. phase' \in {"inflight", "done"}
      BY <1>1 DEF Reap, ReapBulk, ReapControl, ReapIso, Done
    <3> QED
      BY <3>1
  <2> QED
    BY <1>1, <1>2, <2>1, <2>3, <2>4, RoomKept
<1> QED
  BY <1>6, <1>7, <1>8, <1>9, <1>10 DEF d

\* A buffer of L packets that has the first t of them, and the packets that follow those.
Filled(b, L, t) == b \in [1..L -> 0..L] /\ \A k \in 1..t : b[k] = k
Follows(d, t) == d \in Seq(Nat) /\ \A k \in 1..Len(d) : d[k] = t + k

\* The data is written where the transfer goes on.
LEMMA WrittenInPlace ==
  ASSUME NEW L \in Nat, NEW t \in Nat, NEW p \in Nat, NEW d, Follows(d, t), t + Len(d) =< L,
         NEW b, Filled(b, L, t), d = <<>> \/ p = t
  PROVE  Filled(Written(b, p, d), L, t + Len(d))
<1>0. /\ d \in Seq(Nat) /\ b \in [1..L -> 0..L] /\ (\A k \in 1..t : b[k] = k)
      /\ \A k \in 1..Len(d) : d[k] = t + k
  BY DEF Filled, Follows
<1> DEFINE w == Written(b, p, d)
<1>1. Len(d) \in Nat /\ DOMAIN d = 1..Len(d) /\ (d = <<>> => Len(d) = 0)
  BY <1>0, LenProperties
<1>2. w = [k \in 1..L |-> IF k - p \in 1..Len(d) THEN d[k - p] ELSE b[k]]
  BY <1>0, <1>1 DEF Written
<1>3. CASE Len(d) = 0
  <2>1. \A k \in 1..L : k - p \notin 1..Len(d)
    BY <1>3
  <2>2. \A k \in 1..L : w[k] = b[k]
    BY <1>2, <2>1
  <2>3. w = b
    <3>1. b = [k \in 1..L |-> b[k]] /\ w = [k \in 1..L |-> w[k]]
      BY <1>0, <1>2
    <3> HIDE DEF w
    <3> QED
      BY <2>2, <3>1
  <2>4. t + Len(d) = t
    BY <1>3
  <2> QED
    BY <2>3, <2>4
<1>4. CASE Len(d) # 0
  <2>1. p = t
    BY <1>1, <1>4
  <2>2. \A k \in 1..L : k - t \in 1..Len(d) => w[k] = k
    <3> SUFFICES ASSUME NEW k \in 1..L, k - t \in 1..Len(d) PROVE w[k] = k
      OBVIOUS
    <3>1. t + (k - t) = k
      OBVIOUS
    <3>2. \A m \in 1..Len(d) : t + m = k => d[m] = k
      BY <1>0
    <3>3. d[k - t] = k
      BY <3>1, <3>2
    <3> QED
      BY <1>2, <2>1, <3>3
  <2>3. \A k \in 1..L : k - t \notin 1..Len(d) => w[k] = b[k]
    BY <1>2, <2>1
  <2>4. \A k \in 1..L : w[k] \in 0..L
    BY <1>0, <2>2, <2>3
  <2>5. \A k \in 1..t + Len(d) : k \in 1..L /\ (k \in 1..t \/ k - t \in 1..Len(d))
    BY <1>1
  <2>6. \A k \in 1..t : k \in 1..L /\ k - t \notin 1..Len(d)
    BY <1>1
  <2>7. \A k \in 1..t + Len(d) : w[k] = k
    BY <1>0, <2>2, <2>3, <2>5, <2>6
  <2>8. w \in [1..L -> 0..L]
    <3>1. w = [k \in 1..L |-> w[k]]
      BY <1>2
    <3> HIDE DEF w
    <3> QED
      BY <2>4, <3>1
  <2> QED
    BY <2>7, <2>8 DEF Filled
<1> QED
  BY <1>3, <1>4

LEMMA ReapControlDelivered ==
  ASSUME UrbsAssumption, UrbsInv, Delivered, Reap, ReapControl
  PROVE  Delivered'
<1> DEFINE d == urbs[1].data
<1>1. /\ shape \in Shapes /\ ListInv(urbs, reapable) /\ phase = "inflight" /\ Active /\ shape.type = "control"
      /\ shape' = shape /\ received' = received /\ phase' = "done"
      /\ buffer' = Written(buffer, 0, d) /\ transferred' = Len(d)
  BY DEF UrbsInv, Basics, Reap, ReapControl, Active, Done
<1>2. /\ received \in Nat /\ transferred = 0 /\ received =< shape.length
      /\ buffer \in [1..shape.length -> 0..shape.length] /\ \A k \in 1..transferred : buffer[k] = k
  BY <1>1 DEF Delivered
<1>3. Head(reapable) = 1
  <2>1. NumUrbs = 1 /\ reapable # <<>>
    BY <1>1, ControlIsOne DEF Reap, CanReap
  <2>2. Head(reapable) \in 1..NumUrbs
    BY <1>1, <2>1, HeadTailProperties DEF ListInv
  <2> QED
    BY <2>1, <2>2
<1>4. /\ d \in Seq(Nat) /\ Len(d) \in Nat /\ transferred + Len(d) =< received
      /\ \A k \in 1..Len(d) : d[k] = transferred + k
      /\ phase' = "done" => transferred + Len(d) = received
  BY <1>1, <1>3, ReapData
<1> HIDE DEF d
<1>5. shape.length \in Nat
  BY <1>1, Splitting
<1>6. transferred' = received /\ transferred + Len(d) = transferred' /\ 0 \in Nat
  BY <1>1, <1>2, <1>4
<1>7. Filled(buffer', shape.length, transferred')
  <2>1. transferred + Len(d) =< shape.length /\ transferred \in Nat /\ 0 = transferred
    BY <1>2, <1>6
  <2>2. Filled(buffer, shape.length, transferred) /\ Follows(d, transferred)
    BY <1>2, <1>4 DEF Filled, Follows
  <2>3. Filled(Written(buffer, 0, d), shape.length, transferred + Len(d))
    BY <1>5, <1>6, <2>1, <2>2, WrittenInPlace
  <2> QED
    BY <1>1, <1>6, <2>3
<1> QED
  BY <1>1, <1>2, <1>6, <1>7 DEF Delivered, Active, Filled

\* The URB reaped next continues where the transfer is, as long as none before it broke the transfer.
LEMMA HeadInPlace ==
  ASSUME UrbsAssumption, UrbsInv, Delivered, Reap, shape.type # "iso", action = "NORMAL",
         urbs[Head(reapable)].data # <<>>
  PROVE  Start(Head(reapable)) = transferred
<1> DEFINE h == Head(reapable)
           d == urbs[h].data
           vs == [urbs EXCEPT ![h].state = "reaped"]
<1>1. shape \in Shapes /\ ListInv(urbs, reapable) /\ Active
  BY DEF UrbsInv, Basics, Reap, Active
<1>2. FirstPlaces(urbs, reapable) /\ transferred \in Nat
  BY <1>1 DEF Delivered, InPlace
<1>3. reapable # <<>> /\ Takes(urbs, vs, reapable)
  BY <1>1, ReapMoves
<1> HIDE DEF vs
<1>4. h \in Outstanding(urbs) /\ \A j \in Outstanding(urbs) : ~Earlier(urbs, reapable, j, h)
  BY <1>1, <1>3, TakesList
<1>5. d[1] = Start(h) + 1
  BY <1>2, <1>4 DEF FirstPlaces
<1>6. d \in Seq(Nat) /\ Len(d) \in Nat /\ \A k \in 1..Len(d) : d[k] = transferred + k
  BY ReapData
<1>7. d[1] = transferred + 1
  <2> HIDE DEF d
  <2>1. 1 \in 1..Len(d)
    BY <1>6, EmptySeq DEF d
  <2> QED
    BY <1>6, <2>1
<1>8. Start(h) \in Nat
  <2>1. h \in 1..NumUrbs
    BY <1>1, <1>4 DEF Outstanding, ListInv
  <2> QED
    BY <1>1, <2>1, Splitting
<1> QED
  BY <1>2, <1>5, <1>7, <1>8

LEMMA ReapInPlace ==
  ASSUME UrbsAssumption, UrbsInv, Delivered, Reap, ReapBulk, phase' # "done", action' = "NORMAL"
  PROVE  InPlace'
<1> DEFINE h == Head(reapable)
           u == urbs[h]
           all == retired + 1 = NumUrbs
           R == RestDiscarded(h, u, all)
           vs == [urbs EXCEPT ![h].state = "reaped"]
<1>1. /\ shape \in Shapes /\ ListInv(urbs, reapable) /\ phase = "inflight" /\ Active /\ Counted
      /\ shape.type \in {"bulk", "interrupt"}
      /\ shape' = shape /\ received' = received /\ next' = next /\ gone' = gone /\ trouble' = trouble
      /\ action' = ActionAfter(u, all) /\ ~BulkCompletes(u, all) /\ phase' = phase
  BY DEF UrbsInv, Basics, Reap, ReapBulk, Active, Done
<1>2. /\ action = "NORMAL" /\ ~all /\ u.status # "proto"
      /\ ~(u.status \in {"ok", "short", "cancelled"} /\ Len(u.data) < u.len)
  BY <1>1 DEF ActionAfter, BulkCompletes
<1>3. ~Breaks(u)
  BY <1>2 DEF Breaks
<1>4. InPlace /\ next = NumUrbs + 1
  BY <1>1, <1>2 DEF Delivered, Counted
<1>5. /\ reapable # <<>> /\ Takes(urbs, vs, reapable)
      /\ \E l : /\ Gives(vs, urbs', l) /\ reapable' = Tail(reapable) \o l
                /\ Range(l) = IF gone THEN {} ELSE Waiting(urbs) \cap R
  BY <1>1, ReapMoves
<1>6. PICK l : /\ Gives(vs, urbs', l) /\ reapable' = Tail(reapable) \o l
               /\ Range(l) = IF gone THEN {} ELSE Waiting(urbs) \cap R
  BY <1>5
<1> HIDE DEF vs
<1>7. /\ ListInv(vs, Tail(reapable)) /\ Waiting(vs) = Waiting(urbs) /\ h \in 1..NumUrbs /\ u.state = "reapable"
  <2>1. ListInv(vs, Tail(reapable)) /\ Waiting(vs) = Waiting(urbs) /\ h \in Outstanding(urbs) /\ u.state = "reapable"
    BY <1>1, <1>5, TakesList
  <2> QED
    BY <1>1, <2>1 DEF Outstanding, ListInv
<1>8. \A i : i \in Waiting(urbs') <=> i \in Waiting(urbs) /\ i \notin Range(l)
  <2> DEFINE t == Tail(reapable)
  <2>1. ListInv(vs, t) /\ Gives(vs, urbs', l)
    BY <1>6, <1>7
  <2> HIDE DEF t
  <2>2. \A i : i \in Waiting(urbs') <=> i \in Waiting(vs) /\ i \notin Range(l)
    BY <2>1, GivesWaiting
  <2> QED
    BY <1>7, <2>2
<1>9. FirstPlaces(urbs', reapable') /\ (BreakAhead(urbs, reapable) => BreakAhead(urbs', reapable'))
  <2> DEFINE t == Tail(reapable)
  <2>1. FirstPlaces(vs, t) /\ (BreakAhead(urbs, reapable) => BreakAhead(vs, t))
    BY <1>1, <1>3, <1>4, <1>5, TakesPlaces DEF InPlace
  <2>2. ListInv(vs, t) /\ Gives(vs, urbs', l)
    BY <1>6, <1>7
  <2> HIDE DEF t
  <2>3. FirstPlaces(urbs', t \o l) /\ (BreakAhead(vs, t) => BreakAhead(urbs', t \o l))
    BY <2>1, <2>2, GivesPlaces
  <2> QED
    BY <1>6, <2>1, <2>3 DEF t
<1>10. \A i \in Waiting(urbs) : h < i /\ i \in h + 1..NumUrbs
  <2> SUFFICES ASSUME NEW i \in Waiting(urbs) PROVE h < i /\ i \in h + 1..NumUrbs
    OBVIOUS
  <2>1. i \in 1..NumUrbs /\ NumUrbs \in Nat
    BY <1>1, Splitting DEF Waiting, ListInv
  <2>2. h \notin Waiting(urbs)
    BY <1>7 DEF Waiting
  <2>3. ~(i =< h)
    <3>1. i =< h => h \in i..next - 1
      BY <1>4, <1>7, <2>1
    <3> QED
      BY <1>4, <2>2, <3>1 DEF InPlace, LastWait
  <2> QED
    BY <1>7, <2>1, <2>3
<1>11. Waiting(urbs') = {} \/ Waiting(urbs') = Waiting(urbs)
  <2>1. R = {} \/ R = h + 1..NumUrbs
    BY DEF RestDiscarded
  <2>2. CASE gone \/ R = {}
    BY <1>6, <1>8, <2>2
  <2>3. CASE ~gone /\ R = h + 1..NumUrbs
    BY <1>6, <1>8, <1>10, <2>3
  <2> QED
    BY <2>1, <2>2, <2>3
<1>12. LastWait(urbs', next')
  BY <1>1, <1>4, <1>11 DEF LastWait, InPlace
<1>13. ASSUME ~Stalled', ~gone' PROVE NextInPlace'
  <2>1. NextInPlace
    BY <1>1, <1>4, <1>13 DEF InPlace, Stalled
  <2>2. /\ (\A i : Start(i)' = Start(i)) /\ Waiting(urbs)' = Waiting(urbs') /\ phase' # "submitting"
        /\ BreakAhead(urbs, reapable) => BreakAhead(urbs, reapable)'
    BY <1>1, <1>9, PlacesPrimed
  <2>3. CASE Waiting(urbs') = {}
    BY <2>2, <2>3 DEF NextInPlace
  <2>4. CASE Waiting(urbs') = Waiting(urbs)
    <3>1. \A i \in Waiting(urbs) : urbs'[i].data = urbs[i].data
      <4>1. Waiting(urbs) \subseteq 1..NumUrbs
        BY <1>1 DEF Waiting, ListInv
      <4> QED
        BY <1>5, <1>6, <4>1 DEF Takes, Gives
    <3> QED
      BY <1>1, <2>1, <2>2, <2>4, <3>1 DEF NextInPlace
  <2> QED
    BY <1>11, <2>3, <2>4
<1> QED
  BY <1>1, <1>9, <1>12, <1>13, PlacesPrimed DEF InPlace

LEMMA ReapDelivered ==
  ASSUME UrbsAssumption, UrbsInv, Delivered, Reap
  PROVE  Delivered'
<1>1. CASE ReapControl
  BY <1>1, ReapControlDelivered
<1>2. CASE ReapIso
  <2>1. /\ phase = "inflight" /\ phase' \in {"inflight", "done"} /\ shape.type = "iso" /\ shape' = shape
        /\ received' = received /\ transferred' = transferred
    BY <1>2 DEF Reap, ReapIso, Done
  <2> QED
    BY <2>1 DEF Delivered, Active
<1>3. CASE ReapBulk
  <2> DEFINE h == Head(reapable)
             d == urbs[h].data
             n == transferred + Len(d)
             p == PlaceOf(h)
  <2>1. /\ shape \in Shapes /\ phase = "inflight" /\ Active /\ shape.type \in {"bulk", "interrupt"}
        /\ shape' = shape /\ received' = received /\ next' = next /\ phase' \in {"inflight", "done"}
        /\ buffer' = Written(buffer, p, d) /\ transferred' = n
    BY <1>3 DEF UrbsInv, Basics, Reap, ReapBulk, Active, Done
  <2>2. /\ d \in Seq(Nat) /\ Len(d) \in Nat /\ n =< received
        /\ (\A k \in 1..Len(d) : d[k] = transferred + k)
        /\ DataInv(urbs', reapable', n, received)
        /\ (phase' = "done" => n = received) /\ Room'
    BY <2>1, ReapData
  <2>3. /\ received \in Nat /\ transferred \in Nat /\ received =< shape.length
        /\ Filled(buffer, shape.length, transferred) /\ shape.length \in Nat
    BY <2>1, Splitting DEF Delivered, Filled
  <2>4. h \in 1..NumUrbs
    BY <2>1, HeadTailProperties DEF Reap, CanReap, UrbsInv, ListInv
  <2>5. p \in Nat /\ (d = <<>> \/ p = transferred)
    <3>1. Start(h) \in Nat
      BY <2>1, <2>4, Splitting
    <3>2. action = "NORMAL" /\ d # <<>> => Start(h) = transferred
      BY <2>1, HeadInPlace
    <3> QED
      BY <2>3, <3>1, <3>2 DEF PlaceOf
  <2> HIDE DEF p, d
  <2>6. Filled(buffer', shape.length, transferred')
    <3>1. Follows(d, transferred) /\ transferred + Len(d) =< shape.length
      BY <2>2, <2>3 DEF Follows
    <3>2. Filled(Written(buffer, p, d), shape.length, transferred + Len(d))
      BY <2>2, <2>3, <2>5, <3>1, WrittenInPlace
    <3> QED
      BY <2>1, <3>2
  <2>7. DataInv(urbs, reapable, transferred, received)'
    BY <2>1, <2>2, DataPrimed
  <2>8. phase' # "done" /\ action' = "NORMAL" => InPlace'
    BY <1>3, ReapInPlace
  <2>9. n \in Nat
    BY <2>2, <2>3
  <2> QED
    BY <2>1, <2>2, <2>3, <2>6, <2>7, <2>8, <2>9 DEF Delivered, Active, Filled
<1> QED
  BY <1>1, <1>2, <1>3 DEF Reap

LEMMA DeliveredInit ==
  ASSUME UrbsAssumption, Init
  PROVE  Delivered
<1>1. /\ shape \in Shapes /\ phase = "idle" /\ received = 0 /\ transferred = 0
      /\ buffer = [k \in 1..shape.length |-> 0]
  BY DEF Init
<1>2. shape.length \in Nat
  BY <1>1, Splitting
<1>3. buffer \in [1..shape.length -> 0..shape.length]
  BY <1>1, <1>2
<1> QED
  BY <1>1, <1>2, <1>3 DEF Delivered, Active

LEMMA DeliveredStep ==
  ASSUME UrbsAssumption, UrbsInv, Delivered, trouble \in Seq(Troubles), [Next]_vars
  PROVE  Delivered'
<1>1. ASSUME FirstUrbFails PROVE Delivered'
  <2>1. /\ phase = "submitting" /\ next = 1 /\ phase' = "refused" /\ shape' = shape /\ received' = received
        /\ transferred' = transferred /\ buffer' = buffer
    BY <1>1 DEF FirstUrbFails
  <2>2. Start(1) = 0
    BY Splitting DEF UrbsInv, Basics
  <2>3. received' = 0
    BY <2>1, <2>2 DEF Delivered, Active, Room
  <2> QED
    BY <2>1, <2>3 DEF Delivered, Active
<1>2. ASSUME SubmitRefused PROVE Delivered'
  <2>1. /\ phase = "idle" /\ phase' = "refused" /\ shape' = shape /\ received' = received
        /\ transferred' = transferred /\ buffer' = buffer
    BY <1>2 DEF SubmitRefused
  <2> QED
    BY <2>1 DEF Delivered, Active
<1>3. ASSUME Disconnect PROVE Delivered'
  <2>1. /\ phase = "inflight" /\ phase' = "done" /\ status' = "NO_DEVICE" /\ shape' = shape /\ received' = received
        /\ transferred' = transferred /\ buffer' = buffer
    BY <1>3 DEF Disconnect, Done, busVars
  <2> QED
    BY <2>1 DEF Delivered, Active
<1>4. ASSUME UNCHANGED vars PROVE Delivered'
  <2>1. /\ phase' = phase /\ status' = status /\ shape' = shape /\ received' = received /\ transferred' = transferred
        /\ buffer' = buffer /\ urbs' = urbs /\ reapable' = reapable /\ next' = next /\ gone' = gone /\ trouble' = trouble
        /\ action' = action
    BY <1>4 DEF vars, codeVars, busVars
  <2>2. NumUrbs' = NumUrbs /\ (\A i : Start(i)' = Start(i)) /\ Waiting(urbs)' = Waiting(urbs)
    BY <2>1, SameShape DEF Waiting
  <2>3. Room => Room'
    BY <2>1, <2>2 DEF Room, Start
  <2>4. DataInv(urbs, reapable, transferred, received) => DataInv(urbs, reapable, transferred, received)'
    BY <2>1, DataPrimed
  <2>5. InPlace => InPlace'
    <3>1. LastWait(urbs, next) => LastWait(urbs, next)'
      BY <2>1, PlacesPrimed
    <3>2. FirstPlaces(urbs, reapable) => FirstPlaces(urbs, reapable)'
      BY <2>1, PlacesPrimed
    <3>3. BreakAhead(urbs, reapable) => BreakAhead(urbs, reapable)'
      BY <2>1, PlacesPrimed
    <3>4. NextInPlace => NextInPlace'
      BY <2>1, <2>2, <3>3 DEF NextInPlace, Start
    <3> QED
      BY <2>1, <3>1, <3>2, <3>4 DEF InPlace, Stalled
  <2> QED
    BY <2>1, <2>3, <2>4, <2>5 DEF Delivered, Active
<1> QED
  BY <1>1, <1>2, <1>3, <1>4, SubmitDelivered, SubmitUrbDelivered, LaterUrbFailsDelivered, ReapDelivered, CancelDelivered,
     PacketDelivered, ShortPacketDelivered, IsoDoneDelivered, UnplugDelivered, BusErrorDelivered
  DEF Next, Submission, Bus, Terminated

-----------------------------------------------------------------------------
\* --- types and statuses ------------------------------------------------------

ReapStatuses == {"COMPLETED", "ERROR", "STALL", "OVERFLOW", "NO_DEVICE"}

Typed ==
  /\ trouble \in Seq(Troubles) /\ reapStatus \in ReapStatuses
  /\ buffer \in [1..shape.length -> Nat]
  /\ status = "none" <=> phase # "done"

LEMMA ReapTyped ==
  ASSUME UrbsAssumption, UrbsInv, Typed, Reap
  PROVE  Typed'
<1> DEFINE h == Head(reapable)
           u == urbs[h]
           all == retired + 1 = NumUrbs
<1>1. /\ shape \in Shapes /\ ListInv(urbs, reapable) /\ phase = "inflight" /\ status = "none" /\ shape' = shape
      /\ trouble' = trouble /\ reapable # <<>>
  BY DEF UrbsInv, Basics, Active, Reap, CanReap, Typed
<1>2. h \in 1..NumUrbs /\ u.data \in Seq(Nat) /\ shape.length \in Nat
  <2>1. h \in 1..NumUrbs
    BY <1>1, HeadTailProperties DEF ListInv
  <2> QED
    BY <1>1, <2>1, Splitting DEF ListInv, Urb
<1>3. \A p : \A d \in Seq(Nat) : Written(buffer, p, d) \in [1..shape.length -> Nat]
  <2> SUFFICES ASSUME NEW p, NEW d \in Seq(Nat) PROVE Written(buffer, p, d) \in [1..shape.length -> Nat]
    OBVIOUS
  <2>1. \A k \in DOMAIN d : d[k] \in Nat
    BY LenProperties, ElementOfSeq
  <2> QED
    BY <2>1 DEF Written, Typed
<1>4. \A s : StatusFor(s) \in ReapStatuses
  BY DEF StatusFor, ReapStatuses
<1>5. ReapStatusAfter(u, all) \in ReapStatuses
  BY <1>4 DEF ReapStatusAfter, ReapStatuses, Typed
<1>6. \A s \in ReapStatuses : \A n : Final(s, n) \in ReapStatuses
  BY DEF Final, ReapStatuses
<1>7. "none" \notin ReapStatuses /\ "CANCELLED" # "none" /\ "ERROR" \in ReapStatuses
  BY DEF ReapStatuses
<1>8. CASE ReapBulk
  <2>1. /\ buffer' = Written(buffer, PlaceOf(h), u.data) /\ reapStatus' = ReapStatusAfter(u, all)
        /\ \/ phase' = "done" /\ status' = IF action = "CANCELLED" THEN "CANCELLED"
                                           ELSE Final(ReapStatusAfter(u, all), transferred + Len(u.data))
           \/ phase' = phase /\ status' = status
    BY <1>8 DEF ReapBulk, Done
  <2>2. buffer' \in [1..shape.length -> Nat] /\ reapStatus' \in ReapStatuses
    BY <1>2, <1>3, <1>5, <2>1
  <2>3. status' = "none" <=> phase' # "done"
    BY <1>1, <1>5, <1>6, <1>7, <2>1
  <2> QED
    BY <1>1, <2>2, <2>3 DEF Typed
<1>9. CASE ReapControl
  <2>1. /\ buffer' = Written(buffer, 0, urbs[1].data) /\ reapStatus' = reapStatus /\ phase' = "done"
        /\ status' = IF action = "CANCELLED" THEN "CANCELLED" ELSE Final(StatusFor(urbs[1].status), Len(urbs[1].data))
        /\ shape.type = "control"
    BY <1>9 DEF ReapControl, Done
  <2>2. h = 1
    BY <1>1, <1>2, <2>1, ControlIsOne
  <2>3. buffer' \in [1..shape.length -> Nat] /\ status' # "none"
    BY <1>2, <1>3, <1>4, <1>6, <1>7, <2>1, <2>2
  <2> QED
    BY <1>1, <2>1, <2>3 DEF Typed
<1>10. CASE ReapIso
  <2>1. /\ buffer' = Written(buffer, offset, u.data) /\ reapStatus' = reapStatus
        /\ \/ phase' = "done" /\ status' \in {"CANCELLED", "ERROR", StatusFor(u.status)}
           \/ phase' = phase /\ status' = status
    BY <1>10 DEF ReapIso, Done
  <2>2. buffer' \in [1..shape.length -> Nat]
    BY <1>2, <1>3, <2>1
  <2>3. status' = "none" <=> phase' # "done"
    BY <1>1, <1>4, <1>7, <2>1
  <2> QED
    BY <1>1, <2>1, <2>2, <2>3 DEF Typed
<1> QED
  BY <1>8, <1>9, <1>10 DEF Reap

LEMMA TypedStep ==
  ASSUME UrbsAssumption, UrbsInv, Typed, [Next]_vars
  PROVE  Typed'
<1>1. CASE Submit
  BY <1>1 DEF Submit, busVars, Typed, ReapStatuses
<1>2. CASE SubmitUrb
  BY <1>2 DEF SubmitUrb, busVars, Typed
<1>3. CASE FirstUrbFails
  BY <1>3 DEF FirstUrbFails, Typed
<1>4. CASE LaterUrbFails
  <2>1. trouble' = trouble \/ trouble' = Append(trouble, "submit")
    BY <1>4 DEF LaterUrbFails
  <2>2. trouble' \in Seq(Troubles)
    BY <2>1, TroubleAppended DEF Typed, Troubles
  <2> QED
    BY <1>4, <2>2 DEF LaterUrbFails, Typed
<1>5. CASE SubmitRefused
  BY <1>5 DEF SubmitRefused, Typed
<1>6. CASE Reap
  BY <1>6, ReapTyped
<1>7. CASE Disconnect
  BY <1>7 DEF Disconnect, Done, busVars, Typed
<1>8. CASE Cancel
  BY <1>8 DEF Cancel, busVars, Typed
<1>9. CASE Packet \/ IsoDone \/ Unplug
  BY <1>9 DEF Packet, IsoDone, Unplug, Kernel, busVars, Typed
<1>10. CASE ShortPacket
  <2>1. trouble' = Append(trouble, "short")
    BY <1>10 DEF ShortPacket
  <2>2. trouble' \in Seq(Troubles)
    BY <2>1, TroubleAppended DEF Typed, Troubles
  <2> QED
    BY <1>10, <2>2 DEF ShortPacket, Kernel, Typed
<1>11. ASSUME NEW s \in {"stall", "proto", "overflow"}, BusError(s) PROVE Typed'
  <2>1. trouble' = trouble \/ trouble' = Append(trouble, s)
    BY <1>11 DEF BusError
  <2>2. trouble' \in Seq(Troubles)
    BY <2>1, TroubleAppended DEF Typed, Troubles
  <2> QED
    BY <1>11, <2>2 DEF BusError, Kernel, Typed
<1>12. CASE UNCHANGED vars
  BY <1>12 DEF vars, codeVars, busVars, Typed
<1> QED
  BY <1>1, <1>2, <1>3, <1>4, <1>5, <1>6, <1>7, <1>8, <1>9, <1>10, <1>11, <1>12
  DEF Next, Submission, Bus, Terminated

DeliveryInv == UrbsInv /\ Delivered /\ Typed

LEMMA DeliveryInvInit ==
  ASSUME UrbsAssumption, Init
  PROVE  DeliveryInv
<1>1. Typed
  <2>1. /\ trouble = <<>> /\ reapStatus = "COMPLETED" /\ status = "none" /\ phase = "idle"
        /\ buffer = [k \in 1..shape.length |-> 0]
    BY DEF Init
  <2> QED
    BY <2>1, EmptySeq DEF Typed, ReapStatuses
<1> QED
  BY <1>1, UrbsInvInit, DeliveredInit DEF DeliveryInv

LEMMA DeliveryInvStep ==
  ASSUME UrbsAssumption, DeliveryInv, [Next]_vars
  PROVE  DeliveryInv'
<1>1. received \in Nat /\ trouble \in Seq(Troubles)
  BY DEF DeliveryInv, Delivered, Typed
<1> QED
  BY <1>1, UrbsInvStep, DeliveredStep, TypedStep DEF DeliveryInv

-----------------------------------------------------------------------------
\* --- what the owner sees --------------------------------------------------------

\* The first n packets.
Count(n) == [k \in 1..n |-> k]

LEMMA Counting ==
  ASSUME NEW n \in Nat
  PROVE  /\ Count(n) \in Seq(Nat) /\ Len(Count(n)) = n /\ \A k \in 1..n : Count(n)[k] = k
         /\ Append(Count(n), Len(Count(n)) + 1) = Count(n + 1)
         /\ n = 0 => Count(n) = <<>>
<1>1. \A m \in Nat : Count(m) \in Seq(Nat) /\ Len(Count(m)) = m /\ \A k \in 1..m : Count(m)[k] = k
  BY DEF Count
<1>2. Append(Count(n), n + 1) = Count(n + 1)
  <2> DEFINE a == Append(Count(n), n + 1)
             c == Count(n + 1)
  <2>1. /\ a \in Seq(Nat) /\ Len(a) = n + 1 /\ a[n + 1] = n + 1
        /\ \A k \in 1..n : a[k] = k
    BY <1>1, AppendProperties
  <2>2. c \in Seq(Nat) /\ Len(c) = n + 1 /\ \A k \in 1..n + 1 : c[k] = k
    BY <1>1
  <2> HIDE DEF a, c
  <2>3. \A k \in 1..n + 1 : a[k] = c[k]
    <3>1. \A k \in 1..n + 1 : k \in 1..n \/ k = n + 1
      OBVIOUS
    <3> QED
      BY <2>1, <2>2, <3>1
  <2>4. a = c
    BY <2>1, <2>2, <2>3, SeqEqual
  <2> QED
    BY <2>4 DEF a, c
<1>3. n = 0 => Count(n) = <<>>
  BY <1>1, EmptySeq
<1> QED
  BY <1>1, <1>2, <1>3

LEMMA GivenIsCounted ==
  ASSUME NEW n \in Nat, NEW b, \A k \in 1..n : b[k] = k
  PROVE  SubSeq(b, 1, n) = Count(n)
<1> DEFINE s == SubSeq(b, 1, n)
           c == Count(n)
<1>1. s \in Seq(Nat) /\ Len(s) = n /\ \A k \in 1..n : s[k] = k
  <2>1. \A i \in 1..n : b[i] \in Nat
    OBVIOUS
  <2>2. /\ s \in Seq(Nat) /\ Len(s) = IF 1 =< n THEN n - 1 + 1 ELSE 0
        /\ \A i \in 1..n - 1 + 1 : s[i] = b[1 + i - 1]
    BY <2>1, SubSeqProperties
  <2> HIDE DEF s
  <2>3. Len(s) = n
    BY <2>2
  <2>4. \A i \in 1..n : s[i] = b[i]
    <3>1. \A i \in 1..n : i \in 1..n - 1 + 1 /\ 1 + i - 1 = i
      OBVIOUS
    <3> QED
      BY <2>2, <3>1
  <2> QED
    BY <2>2, <2>3, <2>4
<1>2. c \in Seq(Nat) /\ Len(c) = n /\ \A k \in 1..n : c[k] = k
  BY Counting
<1> HIDE DEF s, c
<1>3. s = c
  BY <1>1, <1>2, SeqEqual
<1> QED
  BY <1>3 DEF s, c

\* The state of the transfer as its owner sees it.
Seen == IF phase = "submitting" THEN "inflight" ELSE phase

LEMMA TransferInit ==
  ASSUME UrbsAssumption, Init
  PROVE  Transfer!Init
<1>1. phase = "idle" /\ received = 0 /\ status = "none"
  BY DEF Init
<1>2. Count(received) = <<>>
  BY <1>1, Counting
<1>3. [k \in 1..received |-> k] = <<>>
  BY <1>2 DEF Count
<1> QED
  BY <1>1, <1>3 DEF Transfer!Init

\* A step that keeps what the owner sees.
LEMMA OwnerSeesNothing ==
  ASSUME Seen' = Seen, phase # "done", phase' # "done", received' = received, status' = status
  PROVE  UNCHANGED Transfer!vars
BY DEF Transfer!vars, Seen

\* A transfer that is over has given everything it received, or the device is gone.
LEMMA OwnerSeesTheEnd ==
  ASSUME UrbsAssumption, DeliveryInv, DeliveryInv', phase = "inflight", phase' = "done", received' = received
  PROVE  Transfer!End
<1>1. /\ status' # "none" /\ received \in Nat /\ shape'.type = shape'.type
  BY DEF DeliveryInv, Delivered, Typed
<1>2. CASE status' # "NO_DEVICE" \/ transferred' = received'
  <2>1. transferred' = received'
    BY <1>2 DEF DeliveryInv, Delivered
  <2>2. \A k \in 1..transferred' : buffer'[k] = k
    <3>1. shape'.type = "iso" => received' = 0
      BY DEF DeliveryInv, Delivered
    <3>2. shape'.type # "iso" => \A k \in 1..transferred' : buffer'[k] = k
      BY DEF DeliveryInv, Delivered
    <3> QED
      BY <2>1, <3>1, <3>2
  <2>3. transferred' \in Nat /\ transferred' = received
    BY <1>1, <2>1
  <2>4. SubSeq(buffer', 1, transferred') = Count(received)
    BY <2>2, <2>3, GivenIsCounted
  <2>5. SubSeq(buffer', 1, transferred') = [k \in 1..received |-> k]
    BY <2>4 DEF Count
  <2> QED
    BY <1>1, <1>2, <2>5 DEF Transfer!End
<1>3. CASE ~(status' # "NO_DEVICE" \/ transferred' = received')
  BY <1>1, <1>3 DEF Transfer!End
<1> QED
  BY <1>2, <1>3

LEMMA TransferStep ==
  ASSUME UrbsAssumption, DeliveryInv, DeliveryInv', [Next]_vars
  PROVE  [Transfer!Next]_(Transfer!vars)
<1> SUFFICES Transfer!Next \/ UNCHANGED Transfer!vars
  BY DEF Transfer!vars
<1>1. CASE Submit
  BY <1>1 DEF Submit, busVars, Transfer!Next, Transfer!Begin
<1>2. CASE SubmitUrb
  <2>1. phase' \in {"submitting", "inflight"} /\ phase = "submitting" /\ received' = received /\ status' = status
    BY <1>2 DEF SubmitUrb, busVars
  <2> QED
    BY <2>1, OwnerSeesNothing DEF Seen
<1>3. CASE FirstUrbFails \/ SubmitRefused
  <2>1. phase \in {"idle", "submitting"} /\ phase' = "refused" /\ received' = received /\ status' = status
    BY <1>3 DEF FirstUrbFails, SubmitRefused
  <2>2. received = 0
    BY <2>1 DEF DeliveryInv, Delivered
  <2>3. [k \in 1..received |-> k] = <<>>
    BY <2>2, Counting DEF Count
  <2>4. Transfer!Refuse
    BY <2>1, <2>3 DEF Transfer!Refuse
  <2> QED
    BY <2>4 DEF Transfer!Next
<1>4. CASE LaterUrbFails
  <2>1. phase' = "inflight" /\ phase = "submitting" /\ received' = received /\ status' = status
    BY <1>4 DEF LaterUrbFails
  <2> QED
    BY <2>1, OwnerSeesNothing DEF Seen
<1>5. CASE Reap
  <2>1. phase = "inflight" /\ phase' \in {"inflight", "done"} /\ received' = received
        /\ (phase' = "inflight" => status' = status)
    BY <1>5 DEF Reap, ReapBulk, ReapControl, ReapIso, Done
  <2>2. CASE phase' = "done"
    BY <2>1, <2>2, OwnerSeesTheEnd DEF Transfer!Next
  <2>3. CASE phase' = "inflight"
    BY <2>1, <2>3, OwnerSeesNothing DEF Seen
  <2> QED
    BY <2>1, <2>2, <2>3
<1>6. CASE Disconnect
  <2>1. phase = "inflight" /\ phase' = "done" /\ received' = received
    BY <1>6 DEF Disconnect, Done, busVars
  <2> QED
    BY <2>1, OwnerSeesTheEnd DEF Transfer!Next
<1>7. CASE Cancel
  <2>1. phase = "inflight" /\ phase' = phase /\ received' = received /\ status' = status
    BY <1>7 DEF Cancel, busVars
  <2> QED
    BY <2>1, OwnerSeesNothing DEF Seen
<1>8. Pending # {} => phase \in {"submitting", "inflight"}
  BY DEF DeliveryInv, UrbsInv, Counted, Active, Pending, Waiting
<1>9. CASE Packet
  <2>1. phase' = phase /\ received' = received + 1 /\ status' = status /\ phase \in {"submitting", "inflight"}
    BY <1>8, <1>9 DEF Packet, Kernel
  <2>2. received \in Nat
    BY DEF DeliveryInv, Delivered
  <2>3. Append(Count(received), Len(Count(received)) + 1) = Count(received + 1)
    BY <2>2, Counting
  <2>4. Transfer!Receive
    BY <2>1, <2>3 DEF Transfer!Receive, Count
  <2> QED
    BY <2>4 DEF Transfer!Next
<1>10. CASE ShortPacket \/ IsoDone \/ Unplug \/ \E s \in {"stall", "proto", "overflow"} : BusError(s)
  <2>1. phase' = phase /\ received' = received /\ status' = status /\ phase \in {"submitting", "inflight"}
    BY <1>8, <1>10 DEF ShortPacket, IsoDone, Unplug, BusError, Kernel, busVars
  <2> QED
    BY <2>1, OwnerSeesNothing DEF Seen
<1>11. CASE UNCHANGED vars
  BY <1>11 DEF vars, codeVars, busVars, Transfer!vars
<1> QED
  BY <1>1, <1>2, <1>3, <1>4, <1>5, <1>6, <1>7, <1>9, <1>10, <1>11 DEF Next, Submission, Bus, Terminated

-----------------------------------------------------------------------------
\* --- cancellation --------------------------------------------------------------

\* Once everything is submitted the kernel only gets rid of URBs.
LEMMA KernelTakesNoMore ==
  ASSUME UrbsAssumption, UrbsInv, received \in Nat, [Next]_vars, phase \notin {"idle", "submitting"}
  PROVE  \A i : i \in Waiting(urbs') => i \in Waiting(urbs)
<1>1. shape \in Shapes /\ (Active => ListInv(urbs, reapable)) /\ (Pending # {} => Active)
  BY DEF UrbsInv, Basics, Counted, Active, Waiting, Pending
<1>2. ASSUME Active, NEW l, Given(l) PROVE \A i : i \in Waiting(urbs') => i \in Waiting(urbs)
  BY <1>1, <1>2, GivesWaiting DEF Given
<1>3. CASE Reap
  <2> DEFINE vs == [urbs EXCEPT ![Head(reapable)].state = "reaped"]
             t == Tail(reapable)
  <2>1. ListInv(urbs, reapable)
    BY <1>1, <1>3 DEF Reap, Active
  <2>2. reapable # <<>> /\ Takes(urbs, vs, reapable) /\ \E l : Gives(vs, urbs', l)
    BY <1>1, <1>3, <2>1, ReapMoves
  <2> HIDE DEF vs
  <2>3. ListInv(vs, t) /\ Waiting(vs) = Waiting(urbs)
    BY <2>1, <2>2, TakesList
  <2>4. PICK l : Gives(vs, urbs', l)
    BY <2>2
  <2> HIDE DEF t
  <2>5. \A i : i \in Waiting(urbs') <=> i \in Waiting(vs) /\ i \notin Range(l)
    BY <2>3, <2>4, GivesWaiting
  <2> QED
    BY <2>3, <2>5
<1>4. CASE Disconnect
  BY <1>4 DEF Disconnect, Waiting
<1>5. CASE Cancel
  <2>1. Active
    BY <1>5 DEF Cancel, Active
  <2>2. \E l : Given(l)
    BY <1>1, <1>5, <2>1, CancelGives
  <2> QED
    BY <1>2, <2>1, <2>2
<1>6. CASE IsoDone
  <2>1. Active
    BY <1>1, <1>6 DEF IsoDone
  <2> QED
    BY <1>1, <1>2, <1>6, <2>1, IsoDoneGives
<1>7. CASE ShortPacket
  <2>1. Active
    BY <1>1, <1>7 DEF ShortPacket
  <2>2. \E l : Given(l)
    BY <1>1, <1>7, <2>1, ShortPacketGives
  <2> QED
    BY <1>2, <2>1, <2>2
<1>8. ASSUME NEW s \in {"stall", "proto", "overflow"}, BusError(s) PROVE \A i : i \in Waiting(urbs') => i \in Waiting(urbs)
  <2>1. Active
    BY <1>1, <1>8 DEF BusError
  <2>2. \E l : Given(l)
    BY <1>1, <1>8, <2>1, BusErrorGives
  <2> QED
    BY <1>2, <2>1, <2>2
<1>9. CASE Unplug
  <2>1. Active
    BY <1>9 DEF Unplug, Active
  <2>2. \E l : Given(l)
    BY <1>1, <1>9, <2>1, UnplugGives
  <2> QED
    BY <1>2, <2>1, <2>2
<1>10. CASE Packet
  <2> DEFINE full == [urbs EXCEPT ![HeadUrb].data = Append(@, received + 1)]
  <2>1. Active /\ ListInv(urbs, reapable)
    BY <1>1, <1>10 DEF Packet
  <2>2. HeadUrb \in Waiting(urbs) /\ ListInv(full, reapable) /\ \E l : Gives(full, urbs', l)
    BY <1>1, <1>10, <2>1, PacketGives
  <2>3. Waiting(full) = Waiting(urbs)
    BY <2>1, <2>2, PacketList
  <2>4. PICK l : Gives(full, urbs', l)
    BY <2>2
  <2> HIDE DEF full
  <2>5. \A i : i \in Waiting(urbs') <=> i \in Waiting(full) /\ i \notin Range(l)
    BY <2>2, <2>4, GivesWaiting
  <2> QED
    BY <2>3, <2>5
<1>11. CASE UNCHANGED vars
  BY <1>11 DEF vars, codeVars
<1>12. ~Submission /\ ~SubmitRefused
  BY DEF Submission, Submit, SubmitUrb, FirstUrbFails, LaterUrbFails, SubmitRefused
<1> QED
  BY <1>3, <1>4, <1>5, <1>6, <1>7, <1>8, <1>9, <1>10, <1>11, <1>12 DEF Next, Bus, Terminated

\* A cancellation that says so has marked the transfer, and nothing else does; after
\* an error the last URB is gone, so a cancellation does not say so.
CancelInv ==
  /\ cancel = "OK" <=> action = "CANCELLED"
  /\ phase \notin {"inflight", "done"} => cancel = "none"
  /\ action = "ERROR" => NumUrbs \notin Waiting(urbs)
  /\ phase = "done" /\ ~gone => (action = "CANCELLED" <=> status = "CANCELLED")

LEMMA ReapCancelInv ==
  ASSUME UrbsAssumption, DeliveryInv, CancelInv, Reap
  PROVE  CancelInv'
<1> DEFINE h == Head(reapable)
           u == urbs[h]
           all == retired + 1 = NumUrbs
<1>1. /\ shape \in Shapes /\ ListInv(urbs, reapable) /\ phase = "inflight" /\ reapable # <<>>
      /\ shape' = shape /\ cancel' = cancel /\ gone' = gone /\ phase' \in {"inflight", "done"}
      /\ UrbsInv /\ received \in Nat /\ reapStatus \in ReapStatuses /\ Reap
      /\ UrbsInv'
  <2>1. UrbsInv'
    BY ReapUrbs DEF DeliveryInv
  <2> QED
    BY <2>1 DEF DeliveryInv, Delivered, Typed, UrbsInv, Basics, Active, Reap, CanReap, ReapBulk, ReapControl, ReapIso, Done
<1>2. \A s \in ReapStatuses : \A n : Final(s, n) # "CANCELLED"
  BY DEF Final, ReapStatuses
<1>3. \A s : StatusFor(s) \in ReapStatuses
  BY DEF StatusFor, ReapStatuses
<1>4. ReapStatusAfter(u, all) \in ReapStatuses
  BY <1>1, <1>3 DEF ReapStatusAfter, ReapStatuses
<1>5. "CANCELLED" \notin ReapStatuses
  BY DEF ReapStatuses
<1>6. /\ action' = "CANCELLED" <=> action = "CANCELLED"
      /\ phase' = "done" => (status' = "CANCELLED" <=> action = "CANCELLED")
  <2>1. CASE ReapBulk
    <3>1. /\ action' = ActionAfter(u, all)
          /\ phase' = "done" => status' = IF action = "CANCELLED" THEN "CANCELLED"
                                           ELSE Final(ReapStatusAfter(u, all), transferred + Len(u.data))
      BY <1>1, <2>1 DEF ReapBulk, Done
    <3> QED
      BY <1>2, <1>4, <3>1 DEF ActionAfter
  <2>2. CASE ReapControl
    <3>1. action' = action /\ status' = IF action = "CANCELLED" THEN "CANCELLED"
                                        ELSE Final(StatusFor(urbs[1].status), Len(urbs[1].data))
      BY <2>2 DEF ReapControl, Done
    <3> QED
      BY <1>2, <1>3, <3>1
  <2>3. CASE ReapIso
    <3>1. /\ action' = action
          /\ phase' = "done" => status' = CASE action = "CANCELLED" -> "CANCELLED"
                                            [] action \notin {"NORMAL", "CANCELLED"} -> "ERROR"
                                            [] OTHER -> IF shape.shortNotOk THEN "ERROR" ELSE StatusFor(u.status)
      BY <1>1, <2>3 DEF ReapIso, Done
    <3>2. action # "CANCELLED" /\ phase' = "done" => status' \in {"ERROR", StatusFor(u.status)}
      BY <3>1
    <3> QED
      BY <1>3, <1>5, <3>1, <3>2
  <2> QED
    BY <1>1, <2>1, <2>2, <2>3 DEF Reap
<1>7. NumUrbs' = NumUrbs /\ Waiting(urbs)' = Waiting(urbs')
  BY <1>1, SameShape DEF Waiting
<1>8. ASSUME action' = "ERROR" PROVE NumUrbs \notin Waiting(urbs')
  <2>1. CASE action = "ERROR"
    <3>1. [Next]_vars
      BY DEF Next
    <3>2. \A i : i \in Waiting(urbs') => i \in Waiting(urbs)
      BY <1>1, <3>1, KernelTakesNoMore
    <3> QED
      BY <2>1, <3>2 DEF CancelInv
  <2>2. CASE action # "ERROR"
    <3>1. ReapBulk /\ action' = ActionAfter(u, all)
      BY <1>1, <1>8, <2>2 DEF Reap, ReapBulk, ReapControl, ReapIso
    <3>2. action = "NORMAL" /\ u.status = "proto"
      BY <1>8, <2>2, <3>1 DEF ActionAfter
    <3>3. CASE phase' = "done"
      BY <1>1, <1>7, <3>3 DEF UrbsInv, Counted, Active
    <3>4. CASE phase' # "done"
      <4>1. ~BulkCompletes(u, all) /\ shape.type \in {"bulk", "interrupt"}
        BY <3>1, <3>4 DEF ReapBulk, Done
      <4>2. RestDiscarded(h, u, all) = h + 1..NumUrbs
        BY <3>2, <4>1 DEF RestDiscarded, Failed
      <4> DEFINE vs == [urbs EXCEPT ![h].state = "reaped"]
                 t == Tail(reapable)
      <4>3. /\ Takes(urbs, vs, reapable)
            /\ \E l : /\ Gives(vs, urbs', l)
                      /\ Range(l) = IF gone THEN {} ELSE Waiting(urbs) \cap (h + 1..NumUrbs)
        BY <1>1, <4>1, <4>2, ReapMoves
      <4>4. PICK l : /\ Gives(vs, urbs', l)
                     /\ Range(l) = IF gone THEN {} ELSE Waiting(urbs) \cap (h + 1..NumUrbs)
        BY <4>3
      <4> HIDE DEF vs
      <4>5. ListInv(vs, t) /\ Waiting(vs) = Waiting(urbs) /\ u.state = "reapable" /\ h \in Outstanding(urbs)
        BY <1>1, <4>3, TakesList
      <4> HIDE DEF t
      <4>6. \A i : i \in Waiting(urbs') <=> i \in Waiting(urbs) /\ i \notin Range(l)
        BY <4>4, <4>5, GivesWaiting
      <4>7. h \in 1..NumUrbs /\ NumUrbs \in Nat /\ h \notin Waiting(urbs)
        BY <1>1, <4>5, Splitting DEF Outstanding, ListInv, Waiting
      <4>8. gone => Waiting(urbs) = {}
        BY <1>1 DEF UrbsInv, Counted
      <4> QED
        BY <4>4, <4>6, <4>7, <4>8
    <3> QED
      BY <3>3, <3>4
  <2> QED
    BY <2>1, <2>2
<1> QED
  BY <1>1, <1>6, <1>7, <1>8 DEF CancelInv

LEMMA CancelInvStep ==
  ASSUME UrbsAssumption, DeliveryInv, CancelInv, [Next]_vars
  PROVE  CancelInv'
<1>1. /\ shape \in Shapes /\ (Pending # {} => phase \in {"submitting", "inflight"}) /\ received \in Nat /\ UrbsInv
      /\ (phase = "submitting" => action = "NORMAL")
      /\ (phase # "done" => status = "none")
  BY DEF DeliveryInv, UrbsInv, Basics, Delivered, Counted, Active, Waiting, Pending, Typed
<1>2. CASE Submit
  BY <1>2 DEF Submit, CancelInv
<1>3. CASE SubmitUrb
  BY <1>1, <1>3 DEF SubmitUrb, CancelInv
<1>4. CASE FirstUrbFails
  BY <1>1, <1>4 DEF FirstUrbFails, CancelInv
<1>5. CASE LaterUrbFails
  BY <1>5 DEF LaterUrbFails, CancelInv
<1>6. CASE SubmitRefused
  <2>1. shape' = shape /\ urbs' = urbs
    BY <1>6 DEF SubmitRefused
  <2>2. NumUrbs' = NumUrbs /\ Waiting(urbs)' = Waiting(urbs)
    BY <2>1, SameShape DEF Waiting
  <2> QED
    BY <1>6, <2>2 DEF SubmitRefused, CancelInv
<1>7. CASE Reap
  BY <1>7, ReapCancelInv
<1>8. CASE Disconnect
  <2>1. urbs' = <<>>
    BY <1>8 DEF Disconnect
  <2>2. Waiting(urbs)' = {}
    BY <2>1 DEF Waiting
  <2> QED
    BY <1>8, <2>2 DEF Disconnect, Done, busVars, CancelInv
<1>9. ASSUME shape' = shape, phase \notin {"idle", "submitting"} PROVE NumUrbs \notin Waiting(urbs) => (NumUrbs \notin Waiting(urbs))'
  <2>1. \A i : i \in Waiting(urbs') => i \in Waiting(urbs)
    BY <1>1, <1>9, KernelTakesNoMore
  <2>2. NumUrbs' = NumUrbs /\ Waiting(urbs)' = Waiting(urbs')
    BY <1>9, SameShape DEF Waiting
  <2> QED
    BY <2>1, <2>2
<1>10. CASE Cancel
  <2>1. /\ phase = "inflight" /\ phase' = phase /\ cancel = "none" /\ shape' = shape
        /\ cancel' = DiscardResult(1..NumUrbs, NumUrbs)
        /\ action' = IF cancel' = "OK" /\ ~(shape.type = "bulk" /\ action = "ERROR") THEN "CANCELLED" ELSE action
    BY <1>10 DEF Cancel
  <2>2. cancel' = "OK" => NumUrbs \in Waiting(urbs)
    BY <2>1 DEF DiscardResult, Pending, Waiting
  <2>3. cancel' = "OK" <=> action' = "CANCELLED"
    BY <2>1, <2>2 DEF CancelInv
  <2> QED
    BY <1>9, <2>1, <2>3 DEF CancelInv
<1>11. CASE Bus
  <2>1. /\ phase' = phase /\ phase \in {"submitting", "inflight"} /\ shape' = shape /\ cancel' = cancel /\ action' = action
    BY <1>1, <1>11 DEF Bus, Packet, ShortPacket, IsoDone, Unplug, BusError, Kernel
  <2> QED
    BY <1>1, <1>9, <2>1 DEF CancelInv
<1>12. CASE UNCHANGED vars
  <2>1. shape' = shape /\ urbs' = urbs
    BY <1>12 DEF vars, codeVars
  <2>2. NumUrbs' = NumUrbs /\ Waiting(urbs)' = Waiting(urbs)
    BY <2>1, SameShape DEF Waiting
  <2> QED
    BY <1>12, <2>2 DEF vars, codeVars, busVars, CancelInv
<1> QED
  BY <1>2, <1>3, <1>4, <1>5, <1>6, <1>7, <1>8, <1>10, <1>11, <1>12 DEF Next, Submission, Terminated

-----------------------------------------------------------------------------
\* --- what happened first ------------------------------------------------------------

\* What a URB tells of the transfer: how it failed, or that it ended it early.
Tells(u) == IF u.status \in {"proto", "stall", "overflow", "cancelled"} THEN u.status
            ELSE IF u.status \in {"ok", "short"} /\ Len(u.data) < u.len THEN "short" ELSE "none"

\* The first of the outstanding URBs that tell something tells what happened first.
FirstTells(us, r, t) ==
  \A i \in Outstanding(us) : Tells(us[i]) # "none" =>
    t # <<>> /\ (Head(t) = Tells(us[i]) \/ \E j \in Outstanding(us) : Earlier(us, r, j, i) /\ Tells(us[j]) # "none")
ToldAhead(us, r) == \E j \in Range(r) : Tells(us[j]) # "none"

LEMMA WaitingTellsNothing ==
  ASSUME NEW us, NEW r, ListInv(us, r), NEW i \in Waiting(us)
  PROVE  Tells(us[i]) = "none"
BY DEF ListInv, Waiting, Tells

LEMMA GivesTells ==
  ASSUME NEW us, NEW vs, NEW r, NEW l, ListInv(us, r), Gives(us, vs, l),
         NEW t, NEW u, t # <<>> => u # <<>> /\ Head(u) = Head(t),
         FirstTells(us, r, t),
         \A i \in Range(l) : Tells(vs[i]) # "none" =>
           u # <<>> /\ (Head(u) = Tells(vs[i]) \/ \E j \in Outstanding(vs) : Earlier(vs, r \o l, j, i) /\ Tells(vs[j]) # "none")
  PROVE  FirstTells(vs, r \o l, u)
<1>1. Outstanding(vs) = Outstanding(us) /\ Outstanding(us) \subseteq 1..NumUrbs
  <2>1. Outstanding(vs) = Outstanding(us)
    BY GivesList, Zenon
  <2> QED
    BY <2>1 DEF Outstanding, ListInv
<1>2. OrderKept(us, r, vs, r \o l)
  BY GivesList
<1>3. \A j \in 1..NumUrbs : Tells(us[j]) # "none" => vs[j] = us[j]
  <2>1. \A j \in 1..NumUrbs : j \in Range(l) => Tells(us[j]) = "none"
    BY GivenWaits, WaitingTellsNothing
  <2> QED
    BY <2>1 DEF Gives
<1>4. \A i \in 1..NumUrbs : i \notin Range(l) => vs[i] = us[i]
  BY DEF Gives
<1> SUFFICES ASSUME NEW i \in Outstanding(us), Tells(vs[i]) # "none"
             PROVE  u # <<>> /\ (Head(u) = Tells(vs[i]) \/ \E j \in Outstanding(us) : Earlier(vs, r \o l, j, i) /\ Tells(vs[j]) # "none")
  BY <1>1 DEF FirstTells
<1>5. CASE i \in Range(l)
  BY <1>1, <1>5
<1>6. CASE i \notin Range(l)
  <2>1. vs[i] = us[i]
    BY <1>1, <1>4, <1>6
  <2>2. t # <<>> /\ (Head(t) = Tells(us[i]) \/ \E j \in Outstanding(us) : Earlier(us, r, j, i) /\ Tells(us[j]) # "none")
    BY <2>1 DEF FirstTells
  <2>3. CASE Head(t) = Tells(us[i])
    BY <2>1, <2>2, <2>3
  <2>4. ASSUME NEW j \in Outstanding(us), Earlier(us, r, j, i), Tells(us[j]) # "none"
        PROVE  Earlier(vs, r \o l, j, i) /\ Tells(vs[j]) # "none"
    BY <1>1, <1>2, <1>3, <2>4 DEF OrderKept
  <2> QED
    BY <2>2, <2>3, <2>4
<1> QED
  BY <1>5, <1>6

LEMMA GivesRange ==
  ASSUME NEW us, NEW vs, NEW r, NEW l, ListInv(us, r), Gives(us, vs, l)
  PROVE  \A j : j \in Range(r \o l) <=> j \in Range(r) \/ j \in Range(l)
<1>1. ListInv(vs, r \o l)
  BY GivesList
<1>2. \A j : (j \in Range(r) => j \in 1..NumUrbs) /\ (j \in Range(r \o l) => j \in 1..NumUrbs)
  BY <1>1, ListedIsUrb
<1>3. \A j : j \in Range(l) => j \in 1..NumUrbs
  BY GivenWaits DEF Waiting, ListInv
<1> QED
  BY <1>1, <1>2, <1>3 DEF ListInv, Gives

LEMMA GivesTold ==
  ASSUME NEW us, NEW vs, NEW r, NEW l, ListInv(us, r), Gives(us, vs, l), ToldAhead(us, r)
  PROVE  ToldAhead(vs, r \o l)
<1>1. PICK j \in Range(r) : Tells(us[j]) # "none"
  BY DEF ToldAhead
<1>2. j \in 1..NumUrbs /\ us[j].state = "reapable"
  BY ListedIsUrb DEF ListInv
<1>3. j \notin Range(l)
  BY <1>1, GivenWaits, WaitingTellsNothing
<1>4. vs[j] = us[j]
  BY <1>2, <1>3 DEF Gives
<1>5. ListInv(vs, r \o l)
  BY GivesList
<1>6. j \in Range(r \o l)
  BY <1>2, <1>4, <1>5 DEF ListInv
<1> QED
  BY <1>1, <1>4, <1>6 DEF ToldAhead

LEMMA TakesTells ==
  ASSUME NEW us, NEW vs, NEW r, r # <<>>, ListInv(us, r), Takes(us, vs, r), NEW t,
         Tells(us[Head(r)]) = "none"
  PROVE  /\ FirstTells(us, r, t) => FirstTells(vs, Tail(r), t)
         /\ ToldAhead(us, r) => ToldAhead(vs, Tail(r))
<1> DEFINE h == Head(r)
<1>1. /\ h \in Range(r) /\ Range(Tail(r)) = Range(r) \ {h}
      /\ Outstanding(vs) = Outstanding(us) \ {h}
      /\ \A i, j \in Outstanding(vs) : Earlier(us, r, i, j) <=> Earlier(vs, Tail(r), i, j)
  BY TakesList
<1>2. \A i \in 1..NumUrbs : Tells(vs[i]) = Tells(us[i])
  BY DEF Takes, Tells
<1>3. Outstanding(us) \subseteq 1..NumUrbs
  BY DEF Outstanding, ListInv
<1>3a. Tells(us[h]) = "none"
  OBVIOUS
<1> HIDE DEF h
<1>4. FirstTells(us, r, t) => FirstTells(vs, Tail(r), t)
  <2> SUFFICES ASSUME FirstTells(us, r, t), NEW i \in Outstanding(vs), Tells(vs[i]) # "none"
               PROVE  t # <<>> /\ (Head(t) = Tells(vs[i]) \/ \E j \in Outstanding(vs) : Earlier(vs, Tail(r), j, i) /\ Tells(vs[j]) # "none")
    BY DEF FirstTells
  <2>1. i \in Outstanding(us) /\ i \in 1..NumUrbs /\ Tells(us[i]) = Tells(vs[i])
    BY <1>1, <1>2, <1>3
  <2>2. t # <<>> /\ (Head(t) = Tells(us[i]) \/ \E j \in Outstanding(us) : Earlier(us, r, j, i) /\ Tells(us[j]) # "none")
    BY <2>1 DEF FirstTells
  <2>3. ASSUME NEW j \in Outstanding(us), Earlier(us, r, j, i), Tells(us[j]) # "none"
        PROVE  j \in Outstanding(vs) /\ Earlier(vs, Tail(r), j, i) /\ Tells(vs[j]) # "none"
    BY <1>1, <1>2, <1>3, <1>3a, <2>3
  <2> QED
    BY <2>1, <2>2, <2>3
<1>5. ToldAhead(us, r) => ToldAhead(vs, Tail(r))
  <2> SUFFICES ASSUME NEW j \in Range(r), Tells(us[j]) # "none" PROVE ToldAhead(vs, Tail(r))
    BY DEF ToldAhead
  <2>1. j \in 1..NumUrbs /\ j # h
    BY <1>3a, ListedIsUrb
  <2>2. j \in Range(Tail(r)) /\ Tells(vs[j]) # "none"
    BY <1>1, <1>2, <2>1
  <2> QED
    BY <2>2 DEF ToldAhead
<1> QED
  BY <1>4, <1>5

\* As long as nothing but complete URBs was reaped: the URBs tell what happened, and
\* where nothing happened everything arrived once the kernel has no URB.
FirstTold ==
  /\ FirstTells(urbs, reapable, trouble)
  /\ trouble # <<>> => ToldAhead(urbs, reapable) \/ (shape.length = 0 /\ First("short"))
  /\ trouble = <<>> /\ phase = "inflight" /\ Waiting(urbs) = {} /\ (\A j \in Range(reapable) : urbs[j].status # "nodev") =>
       received = shape.length

Quiet ==
  /\ phase = "idle" => trouble = <<>>
  /\ phase = "submitting" => reapStatus = "COMPLETED"
  /\ shape.length = 0 /\ Active /\ urbs[1].state \in {"new", "pending"} => trouble = <<>>

StatusTold ==
  /\ reapStatus = "STALL" => First("stall")
  /\ reapStatus = "OVERFLOW" => First("overflow")
  /\ reapStatus = "NO_DEVICE" => gone
  /\ Active /\ reapStatus = "ERROR" => First("proto")

ActionTold ==
  /\ action = "SUBMIT_FAILED" => Contains(trouble, "submit") \/ gone
  /\ action = "ERROR" => reapStatus # "COMPLETED"
  /\ Active /\ action = "COMPLETED_EARLY" /\ reapStatus = "COMPLETED" => First("short") \/ EndedInSubmission

ByType ==
  /\ Active => \A i \in Outstanding(urbs) : urbs[i].status = "nodev" => gone
  /\ shape.type = "iso" =>
       /\ action \notin {"ERROR", "COMPLETED_EARLY"} /\ (action = "NORMAL" => trouble = <<>>)
       /\ Active => \A i \in Outstanding(urbs) : urbs[i].status \in {"none", "ok", "nodev", "cancelled"}
  /\ shape.type = "control" => action \in {"NORMAL", "CANCELLED"} /\ reapStatus = "COMPLETED"

Undisturbed == shape.type # "iso" /\ Active /\ action = "NORMAL" /\ reapStatus = "COMPLETED"

TroubleInv == Quiet /\ StatusTold /\ ActionTold /\ ByType /\ (Undisturbed => FirstTold) /\ StatusIsTrue

LEMMA NewStays ==
  ASSUME NEW us, NEW vs, NEW r, NEW l, ListInv(us, r), Gives(us, vs, l), NEW i \in 1..NumUrbs
  PROVE  vs[i].state \in {"new", "pending"} <=> us[i].state \in {"new", "pending"} /\ i \notin Range(l)
<1>1. i \in Range(l) => us[i].state = "pending"
  BY GivenWaits DEF Waiting
<1> QED
  BY <1>1 DEF Gives

\* What happened first stays what happened first.
LEMMA TroubleGrows ==
  ASSUME trouble \in Seq(Troubles), trouble' = trouble \/ \E s \in Troubles : trouble' = Append(trouble, s)
  PROVE  /\ trouble # <<>> => trouble' # <<>> /\ Head(trouble') = Head(trouble)
         /\ \A s : First(s) => First(s)'
         /\ Contains(trouble, "submit") => Contains(trouble', "submit")
<1>1. CASE trouble' = trouble
  BY <1>1 DEF First
<1>2. ASSUME NEW s \in Troubles, trouble' = Append(trouble, s)
      PROVE  /\ trouble # <<>> => trouble' # <<>> /\ Head(trouble') = Head(trouble)
             /\ Contains(trouble, "submit") => Contains(trouble', "submit")
  BY <1>2, TroubleAppended
<1> QED
  BY <1>1, <1>2 DEF First

\* A step that only hands back URBs of a transfer in flight keeps what is known of it.
LEMMA GivesTrouble ==
  ASSUME UrbsAssumption, UrbsInv, TroubleInv, Active, trouble \in Seq(Troubles), status = "none",
         NEW us, ListInv(us, reapable),
         \A i \in 1..NumUrbs : us[i].state = urbs[i].state /\ us[i].status = urbs[i].status,
         NEW l, Gives(us, urbs', l), reapable' = reapable \o l,
         shape' = shape, phase' = phase, reapStatus' = reapStatus, status' = status, gone => gone',
         trouble' = trouble \/ \E s \in Troubles : trouble' = Append(trouble, s),
         trouble' # trouble => shape.type # "iso" /\ (1 \in Range(l) \/ shape.length # 0),
         action' = action \/ action' = "CANCELLED",
         \A i \in Range(l) : /\ urbs'[i].status = "nodev" => gone'
                             /\ shape.type = "iso" => urbs'[i].status \in {"ok", "nodev", "cancelled"},
         Undisturbed' => FirstTold'
  PROVE  TroubleInv'
<1>1. ListInv(urbs, reapable) /\ NumUrbs \in Nat \ {0} /\ NumUrbs' = NumUrbs /\ Active'
  BY Splitting, SameShape DEF UrbsInv, Basics, Active
<1>2. Outstanding(urbs') = Outstanding(us) /\ ListInv(urbs', reapable \o l)
  <2>1. Outstanding(urbs') = Outstanding(us)
    BY GivesList, Zenon
  <2>2. ListInv(urbs', reapable \o l)
    BY GivesList
  <2> QED
    BY <2>1, <2>2
<1>3. Outstanding(us) = Outstanding(urbs) /\ Outstanding(urbs) \subseteq 1..NumUrbs
  BY <1>1 DEF Outstanding, ListInv
<1>4. \A i \in 1..NumUrbs : /\ i \in Range(l) \/ (urbs'[i].state = urbs[i].state /\ urbs'[i].status = urbs[i].status)
                            /\ urbs'[i].state \in {"new", "pending"} => urbs[i].state \in {"new", "pending"} /\ i \notin Range(l)
                            /\ urbs[i].state = "new" => urbs'[i].state = "new"
  <2>1. Range(l) \subseteq Waiting(us)
    BY GivenWaits
  <2>2. \A i \in 1..NumUrbs : i \in Range(l) => us[i].state = "pending" /\ urbs'[i].state = "reapable"
    BY <2>1 DEF Waiting, Gives
  <2> QED
    BY <2>2 DEF Gives
<1>5. /\ trouble # <<>> => trouble' # <<>> /\ Head(trouble') = Head(trouble)
      /\ \A s : First(s) => First(s)'
      /\ Contains(trouble, "submit") => Contains(trouble', "submit")
  BY TroubleGrows
<1>6. Quiet'
  <2>1. Quiet /\ 1 \in 1..NumUrbs /\ phase # "idle"
    BY <1>1 DEF TroubleInv, Active
  <2>2. shape'.length = 0 /\ urbs'[1].state \in {"new", "pending"} => trouble' = <<>>
    BY <1>4, <2>1 DEF Quiet
  <2> QED
    BY <2>1, <2>2 DEF Quiet
<1>7. StatusTold'
  BY <1>5 DEF TroubleInv, StatusTold, Active
<1>8. ActionTold'
  <2>1. EndedInSubmission /\ action' = "COMPLETED_EARLY" => EndedInSubmission'
    <3>1. DOMAIN urbs = 1..NumUrbs /\ DOMAIN urbs' = 1..NumUrbs
      BY <1>1 DEF Gives, ListInv
    <3> QED
      BY <1>4, <3>1 DEF EndedInSubmission
  <2> QED
    BY <1>5, <2>1 DEF TroubleInv, ActionTold
<1>9. ByType'
  <2>1. \A i \in Outstanding(urbs) : /\ urbs'[i].status = "nodev" => gone'
                                     /\ shape.type = "iso" => urbs'[i].status \in {"none", "ok", "nodev", "cancelled"}
    BY <1>3, <1>4 DEF TroubleInv, ByType
  <2>3. ByType
    BY DEF TroubleInv
  <2>2. \A i : i \in Outstanding(urbs') <=> i \in Outstanding(urbs)
    BY <1>2, <1>3
  <2>4. \A i \in Outstanding(urbs') : urbs'[i].status = "nodev" => gone'
    BY <2>1, <2>2
  <2>5. shape'.type = "iso" => \A i \in Outstanding(urbs') : urbs'[i].status \in {"none", "ok", "nodev", "cancelled"}
    BY <2>1, <2>2
  <2>6. shape'.type = "iso" => action' \notin {"ERROR", "COMPLETED_EARLY"} /\ (action' = "NORMAL" => trouble' = <<>>)
    BY <2>3 DEF ByType
  <2>7. shape'.type = "control" => action' \in {"NORMAL", "CANCELLED"} /\ reapStatus' = "COMPLETED"
    BY <2>3 DEF ByType
  <2> QED
    BY <2>4, <2>5, <2>6, <2>7 DEF ByType
<1>10. StatusIsTrue'
  BY DEF StatusIsTrue
<1> QED
  BY <1>6, <1>7, <1>8, <1>9, <1>10 DEF TroubleInv

\* As long as nothing but complete URBs was reaped, a cancellation that is refused has nothing to discard.
LEMMA CancelTrouble ==
  ASSUME UrbsAssumption, DeliveryInv, TroubleInv, Cancel
  PROVE  TroubleInv'
<1>1. /\ phase = "inflight" /\ phase' = phase /\ shape' = shape /\ reapStatus' = reapStatus /\ status' = status
      /\ trouble' = trouble /\ gone' = gone /\ received' = received
      /\ cancel' = DiscardResult(1..NumUrbs, NumUrbs)
      /\ action' = IF cancel' = "OK" /\ ~(shape.type = "bulk" /\ action = "ERROR") THEN "CANCELLED" ELSE action
  BY DEF Cancel, busVars
<1>2. /\ Active /\ ListInv(urbs, reapable) /\ shape \in Shapes /\ UrbsInv /\ Counted
      /\ trouble \in Seq(Troubles) /\ status = "none"
  BY <1>1 DEF DeliveryInv, UrbsInv, Basics, Active, Typed
<1>3. PICK l : /\ Given(l) /\ (\A i \in Range(l) : urbs'[i].status = "cancelled")
               /\ Range(l) = IF gone THEN {} ELSE Waiting(urbs)
  BY <1>2, CancelGives
<1>4. ASSUME Undisturbed' PROVE FirstTold'
  <2>1. action = "NORMAL" /\ shape.type # "iso" /\ Undisturbed /\ FirstTold
    BY <1>1, <1>2, <1>4 DEF Undisturbed, TroubleInv
  <2>2. next = NumUrbs + 1 /\ LastWait(urbs, next) /\ NumUrbs \in Nat \ {0}
    BY <1>1, <1>2, <2>1, Splitting DEF DeliveryInv, Delivered, InPlace, Counted
  <2>3. gone \/ NumUrbs \notin Waiting(urbs)
    BY <1>1, <1>4, <2>1 DEF DiscardResult, Undisturbed, Pending, Waiting
  <2>4. Waiting(urbs) = {}
    <3>1. CASE gone
      BY <1>2, <3>1 DEF Counted
    <3>2. CASE NumUrbs \notin Waiting(urbs)
      <4> SUFFICES ASSUME NEW i \in Waiting(urbs) PROVE FALSE
        OBVIOUS
      <4>1. i \in 1..NumUrbs
        BY <1>2 DEF Waiting, ListInv
      <4>2. NumUrbs \in i..next - 1
        BY <2>2, <4>1
      <4> QED
        BY <2>2, <3>2, <4>2 DEF LastWait
    <3> QED
      BY <2>3, <3>1, <3>2
  <2>5. Range(l) = {}
    BY <1>3, <2>4
  <2>6. \A i : i \in Waiting(urbs') <=> i \in Waiting(urbs)
    BY <1>2, <1>3, <2>5, GivesWaiting DEF Given
  <2>7. FirstTells(urbs', reapable', trouble')
    BY <1>1, <1>2, <1>3, <2>1, <2>5, GivesTells DEF FirstTold, Given
  <2>8. ToldAhead(urbs, reapable) => ToldAhead(urbs', reapable')
    BY <1>2, <1>3, GivesTold DEF Given
  <2>9. Range(reapable') = Range(reapable) /\ \A j \in Range(reapable) : urbs'[j] = urbs[j]
    <3>1a. Gives(urbs, urbs', l) /\ reapable' = reapable \o l /\ ListInv(urbs, reapable)
      BY <1>2, <1>3 DEF Given
    <3>1. \A j : j \in Range(reapable \o l) <=> j \in Range(reapable) \/ j \in Range(l)
      BY <3>1a, GivesRange
    <3>2. \A j \in Range(reapable) : j \in 1..NumUrbs
      BY <1>2, ListedIsUrb
    <3> QED
      <4>1. \A j : j \in Range(reapable') <=> j \in Range(reapable)
        BY <2>5, <3>1a, <3>1
      <4> QED
        BY <2>5, <3>1a, <3>2, <4>1 DEF Gives
  <2> QED
    BY <1>1, <2>1, <2>4, <2>7, <2>8, <2>9 DEF FirstTold, First, FirstTells, ToldAhead, Outstanding, Earlier, Tells
<1> QED
  BY <1>1, <1>2, <1>3, <1>4, GivesTrouble DEF Given

\* What was told before stays in front of what is handed back.
LEMMA ToldEarlier ==
  ASSUME NEW us, NEW vs, NEW r, NEW l, ListInv(us, r), Gives(us, vs, l), ToldAhead(us, r), NEW h \in Waiting(us)
  PROVE  \E j \in Outstanding(vs) : Earlier(vs, r \o l, j, h) /\ Tells(vs[j]) # "none"
<1>1. PICK j \in Range(r) : Tells(us[j]) # "none"
  BY DEF ToldAhead
<1>2. j \in 1..NumUrbs /\ us[j].state = "reapable" /\ j \in Outstanding(us) /\ h \in Outstanding(us)
  <2>1. j \in 1..NumUrbs
    BY ListedIsUrb
  <2> QED
    BY <2>1 DEF ListInv, Outstanding, Waiting
<1>3. Earlier(us, r, j, h)
  BY ListedIsEarlier
<1>4. OrderKept(us, r, vs, r \o l)
  BY GivesList
<1>5. j \notin Range(l)
  BY <1>1, GivenWaits, WaitingTellsNothing
<1>6. vs[j] = us[j] /\ j \in Outstanding(vs)
  BY <1>2, <1>5 DEF Gives, Outstanding, ListInv
<1> QED
  BY <1>1, <1>2, <1>3, <1>4, <1>6 DEF OrderKept

\* A step that only hands back URBs keeps what they tell, when what it tells is first
\* or comes behind what told it.
LEMMA GivesFirstTold ==
  ASSUME ListInv(urbs, reapable), NEW l, Given(l), FirstTold, trouble \in Seq(Troubles),
         shape' = shape, phase' = phase, received' = received,
         trouble' = trouble \/ \E s \in Troubles : trouble' = Append(trouble, s),
         trouble' # trouble => ToldAhead(urbs', reapable') \/ (shape.length = 0 /\ First("short")'),
         \A i \in Range(l) : Tells(urbs'[i]) # "none" =>
           trouble' # <<>> /\ (Head(trouble') = Tells(urbs'[i]) \/ \E j \in Outstanding(urbs') : Earlier(urbs', reapable', j, i) /\ Tells(urbs'[j]) # "none"),
         trouble' = <<>> /\ phase = "inflight" /\ Waiting(urbs') = {} /\ (\A j \in Range(l) : urbs'[j].status # "nodev") => Waiting(urbs) = {}
  PROVE  FirstTold'
<1>1. Gives(urbs, urbs', l) /\ reapable' = reapable \o l
  BY DEF Given
<1>2. /\ trouble # <<>> => trouble' # <<>> /\ Head(trouble') = Head(trouble)
      /\ \A s : First(s) => First(s)'
  BY TroubleGrows
<1>3. FirstTells(urbs', reapable', trouble')
  <2>1. FirstTells(urbs, reapable, trouble)
    BY DEF FirstTold
  <2> QED
    BY <1>1, <1>2, <2>1, GivesTells
<1>4. trouble' # <<>> => ToldAhead(urbs', reapable') \/ (shape.length = 0 /\ First("short")')
  <2>1. CASE trouble' # trouble
    BY <2>1
  <2>2. CASE trouble' = trouble
    <3>1. ToldAhead(urbs, reapable) => ToldAhead(urbs', reapable')
      BY <1>1, GivesTold
    <3> QED
      BY <1>2, <2>2, <3>1 DEF FirstTold
  <2> QED
    BY <2>1, <2>2
<1>5. ASSUME trouble' = <<>>, phase = "inflight", Waiting(urbs') = {}, \A j \in Range(reapable') : urbs'[j].status # "nodev"
      PROVE  received = shape.length
  <2>1. \A j : j \in Range(reapable \o l) <=> j \in Range(reapable) \/ j \in Range(l)
    BY <1>1, GivesRange
  <2>2. \A j : j \in Range(reapable') <=> j \in Range(reapable) \/ j \in Range(l)
    BY <1>1, <2>1
  <2>3. Waiting(urbs) = {} /\ trouble = <<>>
    BY <1>2, <1>5, <2>2
  <2>4. \A j \in Range(reapable) : urbs[j].status # "nodev"
    <3>1. \A j \in Range(reapable) : j \in 1..NumUrbs /\ j \notin Range(l)
      <4>1. \A j \in Range(l) : FALSE
        BY <1>1, <2>3, GivenWaits
      <4> QED
        BY <4>1, ListedIsUrb
    <3> QED
      BY <1>1, <1>5, <2>2, <3>1 DEF Gives
  <2> QED
    BY <1>5, <2>3, <2>4 DEF FirstTold
<1>6. /\ FirstTells(urbs, reapable, trouble)'
      /\ ToldAhead(urbs, reapable)' <=> ToldAhead(urbs', reapable')
      /\ Waiting(urbs)' = Waiting(urbs')
  BY <1>3 DEF FirstTells, ToldAhead, Outstanding, Earlier, Tells, Waiting
<1> QED
  BY <1>4, <1>5, <1>6 DEF FirstTold

LEMMA UnplugTrouble ==
  ASSUME UrbsAssumption, DeliveryInv, TroubleInv, Unplug
  PROVE  TroubleInv'
<1>1. /\ phase \in {"submitting", "inflight"} /\ phase' = phase /\ shape' = shape /\ reapStatus' = reapStatus
      /\ status' = status /\ trouble' = trouble /\ gone' = TRUE /\ received' = received /\ action' = action
  BY DEF Unplug, Kernel
<1>2. /\ Active /\ ListInv(urbs, reapable) /\ shape \in Shapes /\ UrbsInv
      /\ trouble \in Seq(Troubles) /\ status = "none"
  BY <1>1 DEF DeliveryInv, UrbsInv, Basics, Active, Typed
<1>3. PICK l : /\ Given(l) /\ (\A i \in Range(l) : urbs'[i].status = "nodev")
               /\ Range(l) = Waiting(urbs)
  BY <1>2, UnplugGives
<1>4. ASSUME Undisturbed' PROVE FirstTold'
  <2>1. FirstTold
    BY <1>1, <1>2, <1>4 DEF Undisturbed, TroubleInv
  <2>2. \A i \in Range(l) : Tells(urbs'[i]) = "none"
    BY <1>3 DEF Tells
  <2> QED
    BY <1>1, <1>2, <1>3, <2>1, <2>2, GivesFirstTold
<1> QED
  BY <1>1, <1>2, <1>3, <1>4, GivesTrouble DEF Given

LEMMA IsoDoneTrouble ==
  ASSUME UrbsAssumption, DeliveryInv, TroubleInv, IsoDone
  PROVE  TroubleInv'
<1>1. /\ phase' = phase /\ shape' = shape /\ reapStatus' = reapStatus /\ Pending # {} /\ shape.type = "iso"
      /\ status' = status /\ trouble' = trouble /\ gone' = gone /\ action' = action
  BY DEF IsoDone, Kernel, busVars
<1>2. /\ Active /\ ListInv(urbs, reapable) /\ shape \in Shapes /\ UrbsInv
      /\ trouble \in Seq(Troubles) /\ status = "none"
  BY <1>1 DEF DeliveryInv, UrbsInv, Basics, Counted, Active, Typed, Pending, Waiting
<1>3. Given(<<HeadUrb>>) /\ urbs'[HeadUrb].status = "ok" /\ Range(<<HeadUrb>>) = {HeadUrb}
  BY <1>1, <1>2, IsoDoneGives, HeadIsWaiting
<1>4. ~Undisturbed'
  BY <1>1 DEF Undisturbed
<1>5. \E l : Given(l) /\ \A i \in Range(l) : urbs'[i].status = "ok"
  BY <1>3
<1>6. PICK l : Given(l) /\ \A i \in Range(l) : urbs'[i].status = "ok"
  BY <1>5
<1> QED
  BY <1>1, <1>2, <1>4, <1>6, GivesTrouble DEF Given

\* A URB with a part of its data, or nothing, tells of a short packet.
LEMMA ShortPacketTrouble ==
  ASSUME UrbsAssumption, DeliveryInv, TroubleInv, ShortPacket
  PROVE  TroubleInv'
<1> DEFINE h == HeadUrb
<1>1. /\ phase' = phase /\ shape' = shape /\ reapStatus' = reapStatus /\ Pending # {} /\ shape.type # "iso"
      /\ status' = status /\ trouble' = Append(trouble, "short") /\ gone' = gone /\ action' = action /\ received' = received
  BY DEF ShortPacket, Kernel
<1>2. /\ Active /\ ListInv(urbs, reapable) /\ shape \in Shapes /\ UrbsInv /\ Room
      /\ trouble \in Seq(Troubles) /\ status = "none"
  BY <1>1 DEF DeliveryInv, Delivered, UrbsInv, Basics, Counted, Active, Typed, Pending, Waiting
<1>3. PICK l : /\ Given(l) /\ urbs'[h].status = IF ShortEnds(h) THEN "short" ELSE "ok"
               /\ Range(l) = {h} \cup (IF ShortEnds(h) THEN Waiting(urbs) \ {h} ELSE {})
               /\ \A i \in Range(l) \ {h} : urbs'[i].status = "cancelled"
               /\ \A j \in Waiting(urbs) \ {h} : Earlier(urbs', reapable', h, j)
  BY <1>2, ShortPacketGives
<1>4. h \in Waiting(urbs) /\ h \in 1..NumUrbs
  BY <1>1, <1>2, HeadIsWaiting
<1> HIDE DEF h
<1>5. /\ trouble' # <<>> /\ (trouble = <<>> => Head(trouble') = "short") /\ (trouble # <<>> => Head(trouble') = Head(trouble))
      /\ \E s \in Troubles : trouble' = Append(trouble, s)
  <2>1. "short" \in Troubles
    BY DEF Troubles
  <2> QED
    BY <1>1, <1>2, <2>1, TroubleAppended
<1>6. shape.length = 0 => h = 1 /\ Waiting(urbs) = {h} /\ trouble = <<>>
  <2> SUFFICES ASSUME shape.length = 0 PROVE h = 1 /\ Waiting(urbs) = {h} /\ trouble = <<>>
    OBVIOUS
  <2>1. NumUrbs = 1
    BY <1>2, Splitting
  <2>2. h = 1 /\ Waiting(urbs) = {h}
    BY <1>2, <1>4, <2>1 DEF Waiting, ListInv
  <2> QED
    BY <1>2, <1>4, <2>2 DEF TroubleInv, Quiet, Waiting
<1>7. /\ urbs'[h].len = urbs[h].len /\ urbs'[h].data = urbs[h].data /\ urbs'[h].state = "reapable"
      /\ h \in Outstanding(urbs') /\ h \in Range(reapable')
  <2>1. urbs'[h].len = urbs[h].len /\ urbs'[h].data = urbs[h].data /\ urbs'[h].state = "reapable"
    BY <1>3, <1>4 DEF Given, Gives
  <2>2. ListInv(urbs', reapable')
    <3>1. Gives(urbs, urbs', l) /\ reapable' = reapable \o l
      BY <1>3 DEF Given
    <3>2. ListInv(urbs', reapable \o l)
      BY <1>2, <3>1, GivesList
    <3> QED
      BY <3>1, <3>2
  <2> QED
    BY <1>4, <2>1, <2>2 DEF ListInv, Outstanding
<1>8. Tells(urbs'[h]) \in {"none", "short"} /\ (shape.length # 0 => Tells(urbs'[h]) = "short")
  <2>1. shape.length # 0 => Len(urbs'[h].data) < urbs'[h].len
    BY <1>2, <1>4, <1>7 DEF Room
  <2> QED
    BY <1>3, <2>1 DEF Tells
<1>9. ASSUME Undisturbed' PROVE FirstTold'
  <2>1. FirstTold
    BY <1>1, <1>2, <1>9 DEF Undisturbed, TroubleInv
  <2>2. ToldAhead(urbs', reapable') \/ (shape.length = 0 /\ First("short")')
    BY <1>5, <1>6, <1>7, <1>8 DEF ToldAhead, First
  <2>3. trouble = <<>> \/ \E j \in Outstanding(urbs') : Earlier(urbs', reapable', j, h) /\ Tells(urbs'[j]) # "none"
    <3>1. CASE trouble # <<>>
      <4>1. ToldAhead(urbs, reapable)
        BY <1>6, <2>1, <3>1 DEF FirstTold
      <4> QED
        BY <1>2, <1>3, <1>4, <4>1, ToldEarlier DEF Given
    <3> QED
      BY <3>1
  <2>4. ASSUME NEW i \in Range(l), Tells(urbs'[i]) # "none"
        PROVE  trouble' # <<>> /\ (Head(trouble') = Tells(urbs'[i]) \/ \E j \in Outstanding(urbs') : Earlier(urbs', reapable', j, i) /\ Tells(urbs'[j]) # "none")
    <3>1. CASE i = h
      BY <1>5, <1>8, <2>3, <2>4, <3>1
    <3>2. CASE i # h
      <4>1. i \in Waiting(urbs) \ {h}
        BY <1>3, <3>2
      <4>2. shape.length # 0
        BY <1>6, <4>1
      <4> QED
        BY <1>3, <1>5, <1>7, <1>8, <4>1, <4>2
    <3> QED
      BY <3>1, <3>2
  <2> QED
    BY <1>1, <1>2, <1>3, <1>5, <2>1, <2>2, <2>4, GivesFirstTold
<1>10. 1 \in Range(l) \/ shape.length # 0
  BY <1>3, <1>6
<1> QED
  BY <1>1, <1>2, <1>3, <1>5, <1>9, <1>10, GivesTrouble DEF Given

LEMMA BusErrorTrouble ==
  ASSUME UrbsAssumption, DeliveryInv, TroubleInv, NEW s \in {"stall", "proto", "overflow"}, BusError(s)
  PROVE  TroubleInv'
<1> DEFINE h == HeadUrb
<1>1. /\ phase' = phase /\ shape' = shape /\ reapStatus' = reapStatus /\ Pending # {} /\ shape.type # "iso"
      /\ status' = status /\ gone' = gone /\ action' = action /\ received' = received
      /\ trouble' = IF Stalled THEN trouble ELSE Append(trouble, s)
      /\ Stalled => s = "stall"
  BY DEF BusError, Kernel
<1>2. /\ Active /\ ListInv(urbs, reapable) /\ shape \in Shapes /\ UrbsInv
      /\ trouble \in Seq(Troubles) /\ status = "none"
  BY <1>1 DEF DeliveryInv, UrbsInv, Basics, Counted, Active, Typed, Pending, Waiting
<1>3. PICK l : /\ Given(l) /\ urbs'[h].status = s
               /\ Range(l) = {h} \cup (IF Continues THEN Waiting(urbs) \ {h} ELSE {})
               /\ \A i \in Range(l) \ {h} : urbs'[i].status = "cancelled"
               /\ \A j \in Waiting(urbs) \ {h} : Earlier(urbs', reapable', h, j)
  BY <1>2, BusErrorGives
<1>4. h \in Waiting(urbs) /\ h \in 1..NumUrbs
  BY <1>1, <1>2, HeadIsWaiting
<1> HIDE DEF h
<1>5. /\ trouble' # <<>> /\ (trouble = <<>> => Head(trouble') = s) /\ (trouble # <<>> => Head(trouble') = Head(trouble))
      /\ trouble' = trouble \/ \E x \in Troubles : trouble' = Append(trouble, x)
  <2>1. s \in Troubles
    BY DEF Troubles
  <2>2. CASE Stalled
    <3>1. trouble # <<>>
      BY <2>2 DEF Stalled, Contains
    <3> QED
      BY <1>1, <2>2, <3>1
  <2>3. CASE ~Stalled
    BY <1>1, <1>2, <2>1, <2>3, TroubleAppended
  <2> QED
    BY <2>2, <2>3
<1>6. shape.length = 0 => h = 1 /\ trouble = <<>>
  <2> SUFFICES ASSUME shape.length = 0 PROVE h = 1 /\ trouble = <<>>
    OBVIOUS
  <2>1. NumUrbs = 1
    BY <1>2, Splitting
  <2>2. h = 1
    BY <1>4, <2>1
  <2> QED
    BY <1>2, <1>4, <2>2 DEF TroubleInv, Quiet, Waiting
<1>7. /\ urbs'[h].state = "reapable" /\ h \in Outstanding(urbs') /\ h \in Range(reapable')
  <2>1. urbs'[h].state = "reapable"
    BY <1>3, <1>4 DEF Given, Gives
  <2>2. ListInv(urbs', reapable')
    <3>1. Gives(urbs, urbs', l) /\ reapable' = reapable \o l
      BY <1>3 DEF Given
    <3>2. ListInv(urbs', reapable \o l)
      BY <1>2, <3>1, GivesList
    <3> QED
      BY <3>1, <3>2
  <2> QED
    BY <1>4, <2>1, <2>2 DEF ListInv, Outstanding
<1>8. Tells(urbs'[h]) = s
  BY <1>3 DEF Tells
<1>9. ASSUME Undisturbed' PROVE FirstTold'
  <2>1. FirstTold
    BY <1>1, <1>2, <1>9 DEF Undisturbed, TroubleInv
  <2>2. ToldAhead(urbs', reapable')
    BY <1>7, <1>8 DEF ToldAhead
  <2>3. trouble = <<>> \/ \E j \in Outstanding(urbs') : Earlier(urbs', reapable', j, h) /\ Tells(urbs'[j]) # "none"
    <3>1. CASE trouble # <<>>
      <4>1. ToldAhead(urbs, reapable)
        BY <1>6, <2>1, <3>1 DEF FirstTold
      <4> QED
        BY <1>2, <1>3, <1>4, <4>1, ToldEarlier DEF Given
    <3> QED
      BY <3>1
  <2>4. ASSUME NEW i \in Range(l), Tells(urbs'[i]) # "none"
        PROVE  trouble' # <<>> /\ (Head(trouble') = Tells(urbs'[i]) \/ \E j \in Outstanding(urbs') : Earlier(urbs', reapable', j, i) /\ Tells(urbs'[j]) # "none")
    <3>1. CASE i = h
      BY <1>5, <1>8, <2>3, <2>4, <3>1
    <3>2. CASE i # h
      <4>1. i \in Waiting(urbs) \ {h}
        BY <1>3, <3>2
      <4> QED
        BY <1>3, <1>5, <1>7, <1>8, <4>1
    <3> QED
      BY <3>1, <3>2
  <2> QED
    BY <1>1, <1>2, <1>3, <1>5, <2>1, <2>2, <2>4, GivesFirstTold
<1>10. 1 \in Range(l) \/ shape.length # 0
  BY <1>3, <1>6
<1> QED
  BY <1>1, <1>2, <1>3, <1>5, <1>9, <1>10, GivesTrouble DEF Given

\* A packet tells nothing; with the last one everything has arrived, unless something happened.
LEMMA PacketTrouble ==
  ASSUME UrbsAssumption, DeliveryInv, TroubleInv, Packet
  PROVE  TroubleInv'
<1> DEFINE h == HeadUrb
           d == urbs[h].data
           full == [urbs EXCEPT ![h].data = Append(@, received + 1)]
<1>1. /\ phase' = phase /\ shape' = shape /\ reapStatus' = reapStatus /\ Pending # {} /\ shape.type # "iso"
      /\ status' = status /\ gone' = gone /\ action' = action /\ received' = received + 1 /\ trouble' = trouble
      /\ ~Stalled /\ ~gone /\ Len(d) < urbs[h].len
  BY DEF Packet, Kernel
<1>2. /\ Active /\ ListInv(urbs, reapable) /\ shape \in Shapes /\ UrbsInv /\ Counted /\ received \in Nat
      /\ trouble \in Seq(Troubles) /\ status = "none" /\ Room /\ (action = "NORMAL" => InPlace)
  BY <1>1 DEF DeliveryInv, Delivered, UrbsInv, Basics, Counted, Active, Typed, Pending, Waiting
<1>3. h \in Waiting(urbs) /\ h \in 1..NumUrbs /\ \A i \in Waiting(urbs) : h =< i
  BY <1>1, <1>2, HeadIsWaiting
<1>4. PICK l : /\ Gives(full, urbs', l) /\ reapable' = reapable \o l /\ Range(l) \subseteq {h}
               /\ \A i \in Range(l) : urbs'[i].status = "ok"
               /\ h \in Range(l) <=> Len(d) + 1 = urbs[h].len
  BY <1>2, PacketGives
<1>5. /\ ListInv(full, reapable) /\ Outstanding(full) = Outstanding(urbs) /\ Waiting(full) = Waiting(urbs)
      /\ \A i, j \in 1..NumUrbs : Earlier(full, reapable, i, j) <=> Earlier(urbs, reapable, i, j)
      /\ full[h].data = Append(d, received + 1)
      /\ \A i \in 1..NumUrbs : /\ full[i].len = urbs[i].len /\ full[i].state = urbs[i].state /\ full[i].status = urbs[i].status
                               /\ i # h => full[i] = urbs[i]
  <2> HIDE DEF h
  <2>1. full = [urbs EXCEPT ![h].data = Append(@, received + 1)]
    OBVIOUS
  <2> HIDE DEF full
  <2>3. ListInv(full, reapable) /\ Outstanding(full) = Outstanding(urbs) /\ Waiting(full) = Waiting(urbs)
    BY <1>2, <1>3, <2>1, PacketList
  <2>4. \A i, j \in 1..NumUrbs : Earlier(full, reapable, i, j) <=> Earlier(urbs, reapable, i, j)
    <3>1. \A j \in 1..NumUrbs : full[j].state = urbs[j].state
      BY <1>2, <1>3, <2>1, PacketList
    <3> QED
      BY <3>1 DEF Earlier
  <2>5. urbs \in [1..NumUrbs -> Urb]
    BY <1>2 DEF ListInv
  <2> QED
    BY <1>3, <2>1, <2>3, <2>4, <2>5 DEF Urb
<1> HIDE DEF full, h
<1>6. NumUrbs \in Nat \ {0} /\ Start(NumUrbs) \in Nat /\ Start(NumUrbs) + LenOf(NumUrbs) = shape.length /\ shape.length # 0
  <2>1. /\ NumUrbs \in Nat \ {0} /\ shape.length \in Nat /\ Start(NumUrbs) + LenOf(NumUrbs) = shape.length
        /\ \A i \in 1..NumUrbs : Start(i) \in Nat /\ LenOf(i) \in Nat /\ Start(i) + LenOf(i) =< shape.length
    BY <1>2, Splitting
  <2>2. urbs[h].len = LenOf(h) /\ d \in Seq(Nat)
    BY <1>2, <1>3 DEF ListInv, Urb
  <2>3. LenOf(h) # 0
    <3>1. Len(d) \in Nat
      BY <2>2, LenProperties
    <3> QED
      BY <1>1, <1>3, <2>1, <2>2, <3>1
  <2>4. NumUrbs \in 1..NumUrbs
    BY <2>1
  <2> QED
    BY <1>3, <2>1, <2>3, <2>4
<1>7. \A i : i \in Waiting(urbs') <=> i \in Waiting(urbs) /\ i \notin Range(l)
  <2>1. \A i : i \in Waiting(urbs') <=> i \in Waiting(full) /\ i \notin Range(l)
    BY <1>4, <1>5, GivesWaiting
  <2> QED
    BY <1>5, <2>1
<1>8. ASSUME Undisturbed' PROVE FirstTold'
  <2>1. FirstTold /\ action = "NORMAL" /\ InPlace
    BY <1>1, <1>2, <1>8 DEF Undisturbed, TroubleInv
  <2>2. /\ \A i \in Waiting(urbs) : Tells(full[i]) = "none" /\ Tells(urbs[i]) = "none"
        /\ \A i \in 1..NumUrbs : Tells(full[i]) = Tells(urbs[i])
    <3>1. \A i \in Waiting(urbs) : Tells(full[i]) = "none" /\ Tells(urbs[i]) = "none"
      <4>1. \A i \in Waiting(full) : Tells(full[i]) = "none"
        BY <1>5, WaitingTellsNothing
      <4>2. \A i \in Waiting(urbs) : Tells(urbs[i]) = "none"
        BY <1>2, WaitingTellsNothing
      <4> QED
        BY <1>5, <4>1, <4>2
    <3>2. \A i \in 1..NumUrbs : Tells(full[i]) = Tells(urbs[i])
      BY <1>3, <1>5, <3>1
    <3> QED
      BY <3>1, <3>2
  <2>3. FirstTells(full, reapable, trouble)
    <3>1. Outstanding(urbs) \subseteq 1..NumUrbs
      BY <1>2 DEF Outstanding, ListInv
    <3> QED
      BY <1>5, <2>1, <2>2, <3>1 DEF FirstTold, FirstTells
  <2>4. \A i \in Range(l) : Tells(urbs'[i]) = "none"
    <3> SUFFICES ASSUME NEW i \in Range(l) PROVE Tells(urbs'[i]) = "none"
      OBVIOUS
    <3>1. i = h /\ urbs'[h].status = "ok" /\ Len(d) + 1 = urbs[h].len
      BY <1>4
    <3>2. urbs'[h].len = urbs[h].len /\ urbs'[h].data = Append(d, received + 1)
      BY <1>3, <1>4, <1>5 DEF Gives
    <3>3. d \in Seq(Nat)
      BY <1>2, <1>3 DEF ListInv, Urb
    <3>4. Len(Append(d, received + 1)) = Len(d) + 1 /\ Len(d) + 1 \in Nat
      BY <1>2, <3>3, AppendProperties, LenProperties
    <3>5. ~(Len(urbs'[h].data) < urbs'[h].len)
      BY <3>1, <3>2, <3>4
    <3> QED
      BY <3>1, <3>5 DEF Tells
  <2>5. FirstTells(urbs', reapable \o l, trouble)
    BY <1>4, <1>5, <2>3, <2>4, GivesTells
  <2>6. trouble # <<>> => ToldAhead(urbs', reapable \o l)
    <3> SUFFICES ASSUME trouble # <<>> PROVE ToldAhead(urbs', reapable \o l)
      OBVIOUS
    <3>1. ToldAhead(urbs, reapable)
      BY <1>6, <2>1 DEF FirstTold
    <3>2. \A j \in Range(reapable) : j \in 1..NumUrbs
      BY <1>2, ListedIsUrb
    <3>3. ToldAhead(full, reapable)
      BY <2>2, <3>1, <3>2 DEF ToldAhead
    <3> QED
      BY <1>4, <1>5, <3>3, GivesTold
  <2>7. ASSUME trouble = <<>>, phase = "inflight", Waiting(urbs') = {} PROVE received + 1 = shape.length
    <3>1. Waiting(urbs) = {h} /\ Len(d) + 1 = urbs[h].len
      BY <1>3, <1>4, <1>7, <2>7
    <3>2. next = NumUrbs + 1
      BY <1>2, <2>1, <2>7 DEF Counted
    <3>3. h = NumUrbs
      <4>1. NumUrbs \in h..next - 1
        BY <1>3, <1>6, <3>2
      <4>2. NumUrbs \in Waiting(urbs)
        BY <1>3, <2>1, <4>1 DEF InPlace, LastWait
      <4> QED
        BY <3>1, <4>2
    <3>4. ~BreakAhead(urbs, reapable)
      <4> SUFFICES ASSUME NEW j \in Range(reapable), Breaks(urbs[j]) PROVE FALSE
        BY DEF BreakAhead
      <4>1. Tells(urbs[j]) # "none"
        BY DEF Breaks, Tells
      <4>2. j \in Outstanding(urbs)
        <5>1. j \in 1..NumUrbs
          BY <1>2, ListedIsUrb
        <5> QED
          BY <1>2, <5>1 DEF ListInv, Outstanding
      <4> QED
        BY <2>1, <2>7, <4>1, <4>2 DEF FirstTold, FirstTells
    <3>5. received = Start(h) + Len(d)
      BY <1>1, <1>3, <2>1, <3>4 DEF InPlace, NextInPlace
    <3>6. urbs[h].len = LenOf(h) /\ Len(d) \in Nat
      <4>1. urbs[h].len = LenOf(h) /\ d \in Seq(Nat)
        BY <1>2, <1>3 DEF ListInv, Urb
      <4> QED
        BY <4>1, LenProperties
    <3> QED
      BY <1>6, <3>1, <3>3, <3>5, <3>6
  <2>8. /\ FirstTells(urbs, reapable, trouble)'
        /\ trouble # <<>> => ToldAhead(urbs, reapable)'
        /\ Waiting(urbs)' = Waiting(urbs')
    <3>1. FirstTells(urbs', reapable', trouble') /\ (trouble # <<>> => ToldAhead(urbs', reapable'))
      BY <1>1, <1>4, <2>5, <2>6
    <3> QED
      BY <3>1 DEF FirstTells, ToldAhead, Outstanding, Earlier, Tells, Waiting
  <2> QED
    BY <1>1, <2>7, <2>8 DEF FirstTold
<1> QED
  BY <1>1, <1>2, <1>4, <1>5, <1>8, GivesTrouble

\* Before anything is submitted nothing has happened.
LEMMA TroubleInvInit ==
  ASSUME UrbsAssumption, Init
  PROVE  TroubleInv
<1>1. /\ phase = "idle" /\ trouble = <<>> /\ action = "NORMAL" /\ reapStatus = "COMPLETED" /\ status = "none"
  BY DEF Init
<1>2. ~Active /\ ~Undisturbed
  BY <1>1 DEF Active, Undisturbed
<1> QED
  BY <1>1, <1>2 DEF TroubleInv, Quiet, StatusTold, ActionTold, ByType, StatusIsTrue

LEMMA SubmitTrouble ==
  ASSUME UrbsAssumption, DeliveryInv, TroubleInv, Submit
  PROVE  TroubleInv'
<1>1. /\ phase = "idle" /\ phase' = "submitting" /\ trouble' = trouble /\ action' = "NORMAL" /\ reapStatus' = "COMPLETED"
      /\ status' = status /\ reapable' = reapable /\ shape' = shape
  BY DEF Submit, busVars
<1>2. trouble' = <<>> /\ status' = "none" /\ reapable' = <<>>
  BY <1>1 DEF TroubleInv, Quiet, DeliveryInv, Typed, UrbsInv, Counted, Active
<1>3. Outstanding(urbs') = {} /\ Outstanding(urbs)' = {}
  <2>1. urbs' = [i \in 1..NumUrbs |-> [len |-> LenOf(i), state |-> "new", status |-> "none",
                  data |-> IF shape.type = "iso" THEN [k \in 1..LenOf(i) |-> Start(i) + k] ELSE <<>>]]
    BY DEF Submit
  <2>2. \A i \in DOMAIN urbs' : urbs'[i].state = "new"
    BY <2>1
  <2> QED
    BY <2>2 DEF Outstanding
<1>4. FirstTold'
  BY <1>1, <1>2, <1>3 DEF FirstTold, FirstTells
<1> QED
  BY <1>1, <1>2, <1>3, <1>4 DEF TroubleInv, Quiet, StatusTold, ActionTold, ByType, StatusIsTrue

\* A transfer that is refused, or reported as gone, has seen nothing new.
LEMMA RefusedTrouble ==
  ASSUME DeliveryInv, TroubleInv, SubmitRefused \/ FirstUrbFails \/ Disconnect
  PROVE  TroubleInv'
<1>1. /\ phase' \in {"refused", "done"} /\ trouble' = trouble /\ action' = action /\ reapStatus' = reapStatus
      /\ shape' = shape /\ gone' = gone
      /\ status' = "none" \/ (status' = "NO_DEVICE" /\ gone')
  <2>1. phase # "done" => status = "none"
    BY DEF DeliveryInv, Typed
  <2>2. CASE Disconnect
    BY <2>2 DEF Disconnect, Done, busVars
  <2> QED
    BY <2>1, <2>2 DEF SubmitRefused, FirstUrbFails
<1>2. ~Active' /\ ~Undisturbed'
  BY <1>1 DEF Active, Undisturbed
<1>3. Quiet'
  BY <1>1, <1>2 DEF Quiet
<1>4. StatusTold' /\ ActionTold'
  BY <1>1, <1>2 DEF TroubleInv, StatusTold, ActionTold, First
<1>5. ByType'
  BY <1>1, <1>2 DEF TroubleInv, ByType
<1>6. StatusIsTrue'
  BY <1>1 DEF StatusIsTrue
<1> QED
  BY <1>2, <1>3, <1>4, <1>5, <1>6 DEF TroubleInv

LEMMA SubmitUrbTrouble ==
  ASSUME UrbsAssumption, DeliveryInv, TroubleInv, SubmitUrb
  PROVE  TroubleInv'
<1>1. /\ phase = "submitting" /\ phase' \in {"submitting", "inflight"} /\ trouble' = trouble /\ action' = action
      /\ reapStatus' = reapStatus /\ status' = status /\ reapable' = reapable /\ shape' = shape /\ gone' = gone
      /\ urbs' = [urbs EXCEPT ![next].state = "pending"]
  BY DEF SubmitUrb, busVars
<1>2. /\ Active /\ ListInv(urbs, reapable) /\ shape \in Shapes /\ next \in 1..NumUrbs /\ urbs[next].state = "new"
      /\ status = "none" /\ action = "NORMAL" /\ reapStatus = "COMPLETED"
  <2>1. Active /\ ListInv(urbs, reapable) /\ shape \in Shapes /\ next \in 1..NumUrbs /\ Counted /\ action = "NORMAL"
    BY <1>1 DEF DeliveryInv, UrbsInv, Basics, Counted, Active
  <2>2. NumUrbs \in Nat
    BY <2>1, Splitting
  <2> QED
    BY <1>1, <2>1, <2>2 DEF Counted, DeliveryInv, Typed, TroubleInv, Quiet
<1>3. /\ \A i \in 1..NumUrbs : i # next => urbs'[i] = urbs[i]
      /\ urbs'[next].state = "pending" /\ urbs'[next].status = "none"
      /\ DOMAIN urbs' = 1..NumUrbs /\ DOMAIN urbs = 1..NumUrbs
  <2>1. urbs \in [1..NumUrbs -> Urb] /\ urbs[next].status = "none"
    BY <1>2 DEF ListInv
  <2> QED
    BY <1>1, <1>2, <2>1 DEF Urb
<1>4. \A i : i \in Outstanding(urbs') <=> i \in Outstanding(urbs) \/ i = next
  BY <1>2, <1>3 DEF Outstanding
<1>5. next \notin Outstanding(urbs) /\ Outstanding(urbs) \subseteq 1..NumUrbs
  BY <1>2, <1>3 DEF Outstanding
<1>6. Quiet'
  <2>1. phase' # "idle" /\ (phase' = "submitting" => reapStatus' = "COMPLETED")
    BY <1>1, <1>2
  <2>2. 1 \in 1..NumUrbs /\ (urbs'[1].state \in {"new", "pending"} => urbs[1].state \in {"new", "pending"})
    <3>1. 1 \in 1..NumUrbs
      BY <1>2, Splitting
    <3> QED
      BY <1>2, <1>3, <3>1
  <2> QED
    BY <1>1, <1>2, <2>1, <2>2 DEF TroubleInv, Quiet
<1>7. StatusTold' /\ ActionTold' /\ StatusIsTrue'
  BY <1>1, <1>2 DEF StatusTold, ActionTold, StatusIsTrue
<1>8. ByType'
  <2>1. ByType
    BY DEF TroubleInv
  <2>2. \A i \in Outstanding(urbs') : /\ urbs'[i].status = "nodev" => gone'
                                      /\ shape.type = "iso" => urbs'[i].status \in {"none", "ok", "nodev", "cancelled"}
    BY <1>1, <1>2, <1>3, <1>4, <1>5, <2>1 DEF ByType
  <2>3. \A i : i \in Outstanding(urbs)' <=> i \in Outstanding(urbs')
    BY DEF Outstanding
  <2>4. shape'.type = "iso" => action' \notin {"ERROR", "COMPLETED_EARLY"} /\ (action' = "NORMAL" => trouble' = <<>>)
    BY <1>1, <2>1 DEF ByType
  <2>5. shape'.type = "control" => action' \in {"NORMAL", "CANCELLED"} /\ reapStatus' = "COMPLETED"
    BY <1>1, <1>2
  <2> QED
    BY <1>1, <2>2, <2>3, <2>4, <2>5 DEF ByType
<1>9. ASSUME Undisturbed' PROVE FirstTold'
  <2>1. FirstTold
    BY <1>1, <1>2, <1>9 DEF Undisturbed, TroubleInv
  <2>2. \A i, j \in Outstanding(urbs) : Earlier(urbs, reapable, i, j) => Earlier(urbs', reapable, i, j)
    BY <1>3, <1>5 DEF Earlier
  <2>3. FirstTells(urbs', reapable', trouble')
    <3> SUFFICES ASSUME NEW i \in Outstanding(urbs'), Tells(urbs'[i]) # "none"
                 PROVE  trouble # <<>> /\ (Head(trouble) = Tells(urbs'[i]) \/ \E j \in Outstanding(urbs') : Earlier(urbs', reapable, j, i) /\ Tells(urbs'[j]) # "none")
      BY <1>1 DEF FirstTells
    <3>1. i # next
      BY <1>3 DEF Tells
    <3>2. i \in Outstanding(urbs) /\ urbs'[i] = urbs[i]
      BY <1>3, <1>4, <1>5, <3>1
    <3>3. trouble # <<>> /\ (Head(trouble) = Tells(urbs[i]) \/ \E j \in Outstanding(urbs) : Earlier(urbs, reapable, j, i) /\ Tells(urbs[j]) # "none")
      BY <2>1, <3>2 DEF FirstTold, FirstTells
    <3>4. \A j \in Outstanding(urbs) : j \in Outstanding(urbs') /\ urbs'[j] = urbs[j]
      BY <1>3, <1>4, <1>5
    <3> QED
      BY <2>2, <3>2, <3>3, <3>4
  <2>4. ToldAhead(urbs, reapable) => ToldAhead(urbs', reapable')
    <3>1. \A j \in Range(reapable) : j \in 1..NumUrbs /\ j # next
      <4>1. \A j \in Range(reapable) : j \in 1..NumUrbs
        BY <1>2, ListedIsUrb
      <4> QED
        BY <1>2, <4>1 DEF ListInv
    <3> QED
      BY <1>1, <1>3, <3>1 DEF ToldAhead
  <2>5. next \in Waiting(urbs')
    BY <1>2, <1>3 DEF Waiting
  <2>6. /\ FirstTells(urbs, reapable, trouble)'
        /\ ToldAhead(urbs, reapable)' <=> ToldAhead(urbs', reapable')
        /\ Waiting(urbs)' # {}
    BY <2>3, <2>5 DEF FirstTells, ToldAhead, Outstanding, Earlier, Tells, Waiting
  <2> QED
    BY <1>1, <2>1, <2>4, <2>6 DEF FirstTold, First
<1> QED
  BY <1>6, <1>7, <1>8, <1>9 DEF TroubleInv

\* Where the rest is not submitted, something is said to have happened, or has.
LEMMA LaterUrbFailsTrouble ==
  ASSUME UrbsAssumption, DeliveryInv, TroubleInv, LaterUrbFails
  PROVE  TroubleInv'
<1>1. /\ phase = "submitting" /\ phase' = "inflight" /\ next > 1
      /\ reapStatus' = reapStatus /\ status' = status /\ shape' = shape /\ gone' = gone
      /\ trouble' = IF Ended \/ gone THEN trouble ELSE Append(trouble, "submit")
      /\ action' = IF Ended /\ ~gone THEN "COMPLETED_EARLY" ELSE "SUBMIT_FAILED"
      /\ Ended /\ ~gone => urbs' = urbs
  BY DEF LaterUrbFails
<1>2. /\ Active /\ ListInv(urbs, reapable) /\ shape \in Shapes /\ next \in 1..NumUrbs /\ urbs[next].state = "new"
      /\ status = "none" /\ reapStatus = "COMPLETED" /\ NumUrbs \in Nat /\ trouble \in Seq(Troubles)
  <2>1. Active /\ ListInv(urbs, reapable) /\ shape \in Shapes /\ next \in 1..NumUrbs /\ Counted
    BY <1>1 DEF DeliveryInv, UrbsInv, Basics, Counted, Active
  <2>2. NumUrbs \in Nat
    BY <2>1, Splitting
  <2> QED
    BY <1>1, <2>1, <2>2 DEF Counted, DeliveryInv, Typed, TroubleInv, Quiet
<1>3. PICK l : Given(l) /\ \A i \in Range(l) : urbs'[i].status = "cancelled"
  BY <1>2, LaterUrbFailsGives
<1>4. NumUrbs # 1 /\ shape.length # 0 /\ shape.type # "control"
  <2>1. NumUrbs # 1
    BY <1>1, <1>2
  <2> QED
    BY <1>2, <2>1, Splitting, ControlIsOne
<1>5. Ended => shape.type # "iso"
  BY DEF Ended, Continues
<1>6. Quiet' /\ StatusTold' /\ StatusIsTrue' /\ ~Undisturbed'
  BY <1>1, <1>2, <1>4 DEF Quiet, StatusTold, StatusIsTrue, Undisturbed
<1>7. ActionTold'
  <2>1. CASE Ended /\ ~gone
    <3>1. next \in DOMAIN urbs' /\ urbs'[next].state = "new" /\ action' = "COMPLETED_EARLY"
      BY <1>1, <1>2, <2>1 DEF ListInv
    <3> QED
      BY <3>1 DEF ActionTold, EndedInSubmission
  <2>2. CASE ~(Ended /\ ~gone)
    <3>1. Contains(trouble', "submit") \/ gone'
      <4>1. "submit" \in Troubles
        BY DEF Troubles
      <4>2. Contains(Append(trouble, "submit"), "submit")
        BY <1>2, <4>1, TroubleAppended
      <4> QED
        BY <1>1, <2>2, <4>2
    <3> QED
      BY <1>1, <2>2, <3>1 DEF ActionTold
  <2> QED
    BY <2>1, <2>2
<1>8. ByType'
  <2>1. ByType
    BY DEF TroubleInv
  <2>2. Gives(urbs, urbs', l) /\ Outstanding(urbs) \subseteq 1..NumUrbs
    BY <1>2, <1>3 DEF Given, ListInv, Outstanding
  <2>3. Outstanding(urbs') = Outstanding(urbs)
    BY <1>2, <2>2, GivesList, Zenon
  <2>4. \A i \in Outstanding(urbs) : /\ urbs'[i].status = "nodev" => gone'
                                     /\ shape.type = "iso" => urbs'[i].status \in {"none", "ok", "nodev", "cancelled"}
    <3>1. \A i \in 1..NumUrbs : i \in Range(l) \/ urbs'[i] = urbs[i]
      BY <2>2 DEF Gives
    <3> QED
      BY <1>1, <1>2, <1>3, <2>1, <2>2, <3>1 DEF ByType
  <2>5. \A i : i \in Outstanding(urbs)' <=> i \in Outstanding(urbs)
    BY <2>3 DEF Outstanding
  <2>6. shape'.type = "iso" => action' = "SUBMIT_FAILED"
    BY <1>1, <1>5
  <2> QED
    BY <1>1, <1>4, <2>4, <2>5, <2>6 DEF ByType
<1> QED
  BY <1>6, <1>7, <1>8 DEF TroubleInv

\* The URB reaped next has no other in front of it: what it tells happened first.
LEMMA HeadTold ==
  ASSUME UrbsAssumption, DeliveryInv, TroubleInv, Reap, Undisturbed
  PROVE  LET u == urbs[Head(reapable)]
         IN  /\ Tells(u) # "none" => First(Tells(u))
             /\ u.status # "cancelled" /\ u.status \in UrbStatuses \ {"none"}
<1> DEFINE h == Head(reapable)
           u == urbs[h]
           vs == [urbs EXCEPT ![h].state = "reaped"]
<1>1. /\ shape \in Shapes /\ ListInv(urbs, reapable) /\ trouble \in Seq(Troubles) /\ FirstTold
  BY DEF DeliveryInv, UrbsInv, Basics, Active, Reap, Typed, TroubleInv
<1>2. reapable # <<>> /\ Takes(urbs, vs, reapable)
  BY <1>1, ReapMoves
<1> HIDE DEF vs
<1>3. h \in Outstanding(urbs) /\ urbs[h].state = "reapable" /\ \A j \in Outstanding(urbs) : ~Earlier(urbs, reapable, j, h)
  BY <1>1, <1>2, TakesList
<1>4. h \in 1..NumUrbs /\ u.status \in UrbStatuses \ {"none"}
  BY <1>1, <1>3 DEF Outstanding, ListInv, Urb
<1>5. Tells(u) # "none" => trouble # <<>> /\ Head(trouble) = Tells(u)
  BY <1>1, <1>3 DEF FirstTold, FirstTells
<1>6. trouble # <<>> => Head(trouble) # "cancelled"
  <2>1. trouble # <<>> => Head(trouble) \in Troubles
    BY <1>1, HeadTailProperties
  <2> QED
    BY <2>1 DEF Troubles
<1>7. u.status = "cancelled" => Tells(u) = "cancelled"
  BY DEF Tells
<1> QED
  BY <1>4, <1>5, <1>6, <1>7 DEF First

\* When the last URB is reaped after complete ones, everything arrived or the device ended its data first.
LEMMA LastTold ==
  ASSUME UrbsAssumption, DeliveryInv, TroubleInv, Reap, Undisturbed,
         Outstanding(urbs) = {Head(reapable)}, urbs[Head(reapable)].status \notin {"stall", "proto", "overflow", "nodev"}
  PROVE  First("short") \/ (trouble = <<>> /\ received = shape.length)
<1> DEFINE h == Head(reapable)
           u == urbs[h]
<1>1. /\ ListInv(urbs, reapable) /\ FirstTold /\ phase = "inflight"
  BY DEF DeliveryInv, UrbsInv, Active, Reap, TroubleInv
<1>2. /\ Tells(u) # "none" => First(Tells(u))
      /\ u.status \in {"ok", "short"}
  BY HeadTold DEF UrbStatuses
<1>3. Tells(u) \in {"none", "short"}
  BY <1>2 DEF Tells
<1> HIDE DEF h
<1>4. \A j \in Range(reapable) : j = h
  <2> SUFFICES ASSUME NEW j \in Range(reapable) PROVE j = h
    OBVIOUS
  <2>1. j \in 1..NumUrbs
    BY <1>1, ListedIsUrb
  <2>2. j \in Outstanding(urbs)
    BY <1>1, <2>1 DEF ListInv, Outstanding
  <2> QED
    BY <2>2 DEF h
<1>5. CASE Tells(u) = "short"
  BY <1>2, <1>5
<1>6. CASE Tells(u) = "none"
  <2>1. ~ToldAhead(urbs, reapable)
    BY <1>4, <1>6 DEF ToldAhead
  <2>2. Waiting(urbs) = {}
    <3> SUFFICES ASSUME NEW j \in Waiting(urbs) PROVE FALSE
      OBVIOUS
    <3>1. j \in Outstanding(urbs) /\ urbs[j].state = "pending"
      BY DEF Waiting, Outstanding
    <3>2. j = h
      BY <3>1 DEF h
    <3>3. u.status = "none"
      BY <1>1, <3>1, <3>2 DEF ListInv, Waiting
    <3> QED
      BY <1>2, <3>3
  <2>3. \A j \in Range(reapable) : urbs[j].status # "nodev"
    BY <1>2, <1>4
  <2> QED
    BY <1>1, <2>1, <2>2, <2>3 DEF FirstTold
<1> QED
  BY <1>3, <1>5, <1>6

\* What reaping leaves of the URBs.
LEMMA ReapKeeps ==
  ASSUME UrbsAssumption, DeliveryInv, Reap
  PROVE  /\ \A i : i \in Outstanding(urbs') <=> i \in Outstanding(urbs) /\ i # Head(reapable)
         /\ \A i \in Outstanding(urbs') : /\ i \in Outstanding(urbs)
                                          /\ urbs'[i].status = urbs[i].status \/ urbs'[i].status = "cancelled"
         /\ DOMAIN urbs' = DOMAIN urbs /\ DOMAIN urbs = 1..NumUrbs
         /\ \A i \in 1..NumUrbs : /\ urbs'[i].state \in {"new", "pending"} => urbs[i].state \in {"new", "pending"}
                                  /\ urbs[i].state = "new" => urbs'[i].state = "new"
         /\ phase' = "done" => Outstanding(urbs) = {Head(reapable)}
<1> DEFINE h == Head(reapable)
           vs == [urbs EXCEPT ![h].state = "reaped"]
<1>1. shape \in Shapes /\ ListInv(urbs, reapable) /\ UrbsInv
  BY DEF DeliveryInv, UrbsInv, Basics, Active, Reap
<1>2. /\ reapable # <<>> /\ Takes(urbs, vs, reapable)
      /\ \E l : /\ Gives(vs, urbs', l) /\ reapable' = Tail(reapable) \o l
                /\ \A i \in Range(l) : urbs'[i].status = "cancelled"
  BY <1>1, ReapMoves
<1>3. PICK l : /\ Gives(vs, urbs', l) /\ reapable' = Tail(reapable) \o l
               /\ \A i \in Range(l) : urbs'[i].status = "cancelled"
  BY <1>2
<1> HIDE DEF vs
<1>4. /\ h \in Outstanding(urbs) /\ urbs[h].state = "reapable" /\ ListInv(vs, Tail(reapable))
      /\ \A i : i \in Outstanding(vs) <=> i \in Outstanding(urbs) /\ i # h
  BY <1>1, <1>2, TakesList
<1>5. DOMAIN urbs = 1..NumUrbs /\ DOMAIN vs = 1..NumUrbs /\ DOMAIN urbs' = 1..NumUrbs
  BY <1>1, <1>2, <1>3 DEF ListInv, Takes, Gives
<1>6. \A i \in 1..NumUrbs : i \in Range(l) => vs[i].state = "pending"
  BY <1>3, GivenWaits DEF Waiting
<1>7. \A i \in 1..NumUrbs : /\ urbs'[i].status = urbs[i].status \/ urbs'[i].status = "cancelled"
                            /\ urbs'[i].state \in {"new", "pending"} => urbs[i].state \in {"new", "pending"}
                            /\ urbs[i].state = "new" => urbs'[i].state = "new"
                            /\ urbs'[i].state \in {"pending", "reapable"} <=> vs[i].state \in {"pending", "reapable"}
  BY <1>2, <1>3, <1>4, <1>6 DEF Gives, Takes
<1>8. \A i : i \in Outstanding(urbs') <=> i \in Outstanding(vs)
  BY <1>5, <1>7 DEF Outstanding
<1>9. phase' = "done" => Outstanding(urbs) = {h}
  <2>1. phase' = "done" => Outstanding(urbs') = {}
    BY <1>1, ReapUrbs
  <2> QED
    BY <1>4, <1>8, <2>1
<1>10. Outstanding(urbs') \subseteq 1..NumUrbs
  BY <1>5 DEF Outstanding
<1> HIDE DEF h
<1> QED
  BY <1>4, <1>5, <1>7, <1>8, <1>9, <1>10 DEF h

\* Reaping a complete URB keeps what the others tell.
LEMMA ReapFirstTold ==
  ASSUME UrbsAssumption, DeliveryInv, TroubleInv, Reap, Undisturbed'
  PROVE  FirstTold'
<1> DEFINE h == Head(reapable)
           u == urbs[h]
           all == retired + 1 = NumUrbs
           R == RestDiscarded(h, u, all)
           vs == [urbs EXCEPT ![h].state = "reaped"]
<1>1. /\ shape \in Shapes /\ ListInv(urbs, reapable) /\ phase = "inflight" /\ Active /\ trouble \in Seq(Troubles)
      /\ phase' \in {"inflight", "done"} /\ shape' = shape /\ received' = received /\ trouble' = trouble
  BY DEF DeliveryInv, Typed, UrbsInv, Basics, Active, Reap, ReapBulk, ReapControl, ReapIso, Done
<1>2. phase' = "inflight" /\ action' = "NORMAL" /\ reapStatus' = "COMPLETED" /\ shape.type # "iso"
  BY <1>1 DEF Undisturbed, Active
<1>3. ReapBulk /\ ~BulkCompletes(u, all) /\ action' = ActionAfter(u, all) /\ reapStatus' = ReapStatusAfter(u, all)
  BY <1>1, <1>2 DEF Reap, ReapBulk, ReapControl, ReapIso, Done
<1>4. action = "NORMAL" /\ ~all /\ reapStatus = "COMPLETED" /\ u.status \notin {"proto", "nodev"}
      /\ ~(u.status \in {"ok", "short", "cancelled"} /\ Len(u.data) < u.len)
      /\ StatusFor(u.status) = "COMPLETED"
  BY <1>2, <1>3 DEF BulkCompletes, ActionAfter, ReapStatusAfter
<1>5. Undisturbed /\ FirstTold
  BY <1>1, <1>2, <1>4 DEF Undisturbed, TroubleInv
<1>6. u.status \in {"ok", "short"} /\ Tells(u) = "none"
  <2>1. u.status # "cancelled" /\ u.status \in UrbStatuses \ {"none"}
    BY <1>5, HeadTold
  <2>2. u.status \in {"ok", "short"}
    BY <1>4, <2>1 DEF UrbStatuses, StatusFor
  <2> QED
    BY <1>4, <2>2 DEF Tells
<1>7. R = {}
  BY <1>3, <1>4, <1>6, <1>2 DEF RestDiscarded, Failed
<1>8. /\ reapable # <<>> /\ Takes(urbs, vs, reapable)
      /\ \E l : /\ Gives(vs, urbs', l) /\ reapable' = Tail(reapable) \o l /\ Range(l) = {}
  <2>1. /\ reapable # <<>> /\ Takes(urbs, vs, reapable)
        /\ \E l : /\ Gives(vs, urbs', l) /\ reapable' = Tail(reapable) \o l
                  /\ Range(l) = IF gone \/ shape.type \notin {"bulk", "interrupt"} THEN {} ELSE Waiting(urbs) \cap R
    BY <1>1, ReapMoves
  <2> QED
    BY <1>7, <2>1
<1>9. PICK l : Gives(vs, urbs', l) /\ reapable' = Tail(reapable) \o l /\ Range(l) = {}
  BY <1>8
<1> HIDE DEF vs, R
<1>10. /\ ListInv(vs, Tail(reapable)) /\ Waiting(vs) = Waiting(urbs) /\ \A j : j \in Range(Tail(reapable)) <=> j \in Range(reapable) /\ j # h
  BY <1>1, <1>8, TakesList
<1>11. FirstTells(vs, Tail(reapable), trouble) /\ (ToldAhead(urbs, reapable) => ToldAhead(vs, Tail(reapable)))
  BY <1>1, <1>5, <1>6, <1>8, TakesTells DEF FirstTold
<1>12. /\ FirstTells(urbs', reapable', trouble) /\ (ToldAhead(vs, Tail(reapable)) => ToldAhead(urbs', reapable'))
       /\ \A i : i \in Waiting(urbs') <=> i \in Waiting(vs)
       /\ \A j : j \in Range(reapable') <=> j \in Range(Tail(reapable))
  <2> DEFINE t == Tail(reapable)
  <2>1. ListInv(vs, t) /\ Gives(vs, urbs', l) /\ reapable' = t \o l /\ Range(l) = {} /\ FirstTells(vs, t, trouble)
    BY <1>9, <1>10, <1>11
  <2> HIDE DEF t
  <2>2. FirstTells(urbs', t \o l, trouble) /\ (ToldAhead(vs, t) => ToldAhead(urbs', t \o l))
    BY <2>1, GivesTells, GivesTold
  <2>3. \A i : i \in Waiting(urbs') <=> i \in Waiting(vs)
    BY <2>1, GivesWaiting
  <2>4. \A j : j \in Range(t \o l) <=> j \in Range(t) \/ j \in Range(l)
    BY <2>1, GivesRange
  <2> QED
    BY <2>1, <2>2, <2>3, <2>4 DEF t
<1>13. ASSUME trouble = <<>>, Waiting(urbs') = {}, \A j \in Range(reapable') : urbs'[j].status # "nodev"
       PROVE  received = shape.length
  <2>1. Waiting(urbs) = {}
    BY <1>10, <1>12, <1>13
  <2>2. \A j \in Range(reapable) : urbs[j].status # "nodev"
    <3> SUFFICES ASSUME NEW j \in Range(reapable) PROVE urbs[j].status # "nodev"
      OBVIOUS
    <3>1. j \in 1..NumUrbs
      BY <1>1, ListedIsUrb
    <3>2. CASE j = h
      BY <1>6, <3>2
    <3>3. CASE j # h
      <4>1. urbs'[j].status # "nodev"
        BY <1>10, <1>12, <1>13, <3>3
      <4>2. urbs'[j].status = urbs[j].status
        BY <1>8, <1>9, <3>1 DEF Gives, Takes
      <4> QED
        BY <4>1, <4>2
    <3> QED
      BY <3>2, <3>3
  <2> QED
    BY <1>1, <1>5, <1>13, <2>1, <2>2 DEF FirstTold
<1>14. /\ FirstTells(urbs, reapable, trouble)'
       /\ ToldAhead(urbs, reapable) => ToldAhead(urbs, reapable)'
       /\ Waiting(urbs)' = Waiting(urbs')
  <2>1. FirstTells(urbs', reapable', trouble') /\ (ToldAhead(urbs, reapable) => ToldAhead(urbs', reapable'))
    BY <1>1, <1>11, <1>12
  <2> QED
    BY <2>1 DEF FirstTells, ToldAhead, Outstanding, Earlier, Tells, Waiting
<1> QED
  BY <1>1, <1>5, <1>13, <1>14 DEF FirstTold, First

LEMMA ReapQuiet ==
  ASSUME UrbsAssumption, DeliveryInv, TroubleInv, Reap
  PROVE  /\ Quiet' /\ (Active' => \A i \in Outstanding(urbs)' : urbs'[i].status = "nodev" => gone')
         /\ Active' => \A i \in Outstanding(urbs)' : urbs'[i].status = urbs[i].status \/ urbs'[i].status = "cancelled"
         /\ Outstanding(urbs)' \subseteq Outstanding(urbs)
         /\ EndedInSubmission /\ action' = action => EndedInSubmission'
         /\ urbs[Head(reapable)].status = "nodev" => gone
<1>1. /\ shape \in Shapes /\ phase = "inflight" /\ phase' \in {"inflight", "done"} /\ Active
      /\ shape' = shape /\ trouble' = trouble /\ gone' = gone
  BY DEF DeliveryInv, UrbsInv, Basics, Active, Reap, ReapBulk, ReapControl, ReapIso, Done
<1>2. /\ \A i \in Outstanding(urbs') : /\ i \in Outstanding(urbs)
                                       /\ urbs'[i].status = urbs[i].status \/ urbs'[i].status = "cancelled"
      /\ DOMAIN urbs' = DOMAIN urbs /\ DOMAIN urbs = 1..NumUrbs
      /\ \A i \in 1..NumUrbs : /\ urbs'[i].state \in {"new", "pending"} => urbs[i].state \in {"new", "pending"}
                               /\ urbs[i].state = "new" => urbs'[i].state = "new"
  BY ReapKeeps
<1>3. \A i : i \in Outstanding(urbs)' <=> i \in Outstanding(urbs')
  BY DEF Outstanding
<1>4. 1 \in 1..NumUrbs
  BY <1>1, Splitting
<1>5. Quiet'
  BY <1>1, <1>2, <1>4 DEF TroubleInv, Quiet
<1>6. EndedInSubmission /\ action' = action => EndedInSubmission'
  BY <1>2 DEF EndedInSubmission
<1>7. \A i \in Outstanding(urbs) : urbs[i].status = "nodev" => gone
  BY <1>1 DEF TroubleInv, ByType
<1>8. Head(reapable) \in Outstanding(urbs)
  <2>1. ListInv(urbs, reapable) /\ reapable # <<>>
    BY <1>1 DEF DeliveryInv, UrbsInv, Reap, CanReap
  <2>2. Takes(urbs, [urbs EXCEPT ![Head(reapable)].state = "reaped"], reapable)
    BY <1>1, <2>1, ReapMoves
  <2> QED
    BY <2>1, <2>2, TakesList
<1> QED
  BY <1>1, <1>2, <1>3, <1>5, <1>6, <1>7, <1>8

LEMMA ReapControlTrouble ==
  ASSUME UrbsAssumption, DeliveryInv, TroubleInv, Reap, ReapControl
  PROVE  TroubleInv'
<1> DEFINE h == Head(reapable)
           u == urbs[h]
<1>1. /\ shape \in Shapes /\ phase = "inflight" /\ Active /\ shape' = shape /\ trouble' = trouble /\ gone' = gone
      /\ shape.type = "control" /\ action' = action /\ reapStatus' = reapStatus /\ phase' = "done"
      /\ received' = received /\ reapable # <<>> /\ ListInv(urbs, reapable)
  BY DEF DeliveryInv, UrbsInv, Basics, Active, Reap, CanReap, ReapControl, Done
<1>2. h = 1
  <2>1. h \in 1..NumUrbs /\ NumUrbs = 1
    BY <1>1, HeadTailProperties, ControlIsOne DEF ListInv
  <2> QED
    BY <2>1
<1>3. /\ status' = IF action = "CANCELLED" THEN "CANCELLED" ELSE Final(StatusFor(u.status), Len(u.data))
      /\ transferred' = Len(u.data)
  BY <1>2 DEF ReapControl, Done
<1>4. action \in {"NORMAL", "CANCELLED"} /\ reapStatus = "COMPLETED" /\ ByType
  BY <1>1 DEF TroubleInv, ByType
<1>5. ~Active' /\ ~Undisturbed'
  BY <1>1 DEF Active, Undisturbed
<1>6. Quiet' /\ (u.status = "nodev" => gone)
  BY ReapQuiet
<1>7. StatusTold' /\ ActionTold' /\ ByType'
  BY <1>1, <1>4, <1>5 DEF StatusTold, ActionTold, ByType
<1>8. StatusIsTrue'
  <2>1. CASE action = "CANCELLED"
    BY <1>3, <2>1 DEF StatusIsTrue
  <2>2. CASE action = "NORMAL"
    <3>1. Undisturbed
      BY <1>1, <1>4, <2>2 DEF Undisturbed
    <3>2. Tells(u) # "none" => First(Tells(u))
      BY <3>1, HeadTold
    <3>3. status' = Final(StatusFor(u.status), Len(u.data))
      BY <1>3, <2>2
    <3>4. CASE u.status \in {"stall", "proto", "overflow"}
      <4>1. trouble' # <<>> /\ Head(trouble') = u.status
        BY <1>1, <3>2, <3>4 DEF Tells, First
      <4>2. status' = StatusFor(u.status)
        BY <3>3, <3>4 DEF Final, StatusFor
      <4> QED
        BY <3>4, <4>1, <4>2 DEF StatusIsTrue, StatusFor, First
    <3>5. CASE u.status = "nodev"
      <4>1. status' = "NO_DEVICE"
        BY <3>3, <3>5 DEF Final, StatusFor
      <4> QED
        BY <1>1, <1>6, <3>5, <4>1 DEF StatusIsTrue
    <3>6. CASE u.status \notin {"stall", "proto", "overflow", "nodev"}
      <4>1. Outstanding(urbs) = {h}
        BY <1>1, ReapKeeps
      <4>2. First("short") \/ (trouble = <<>> /\ received = shape.length)
        BY <3>1, <3>6, <4>1, LastTold
      <4>3. status' = "COMPLETED" \/ (status' = "ERROR" /\ shape.shortNotOk)
        BY <3>3, <3>6 DEF Final, StatusFor
      <4>4. transferred' = received
        <5>1. Delivered'
          BY ReapDelivered DEF DeliveryInv
        <5> QED
          BY <1>1, <4>3, <5>1 DEF Delivered
      <4> QED
        BY <1>1, <4>2, <4>3, <4>4 DEF StatusIsTrue, First
    <3> QED
      BY <3>4, <3>5, <3>6
  <2> QED
    BY <1>4, <2>1, <2>2
<1> QED
  BY <1>5, <1>6, <1>7, <1>8 DEF TroubleInv

LEMMA ReapIsoTrouble ==
  ASSUME UrbsAssumption, DeliveryInv, TroubleInv, Reap, ReapIso
  PROVE  TroubleInv'
<1> DEFINE h == Head(reapable)
           u == urbs[h]
<1>1. /\ shape \in Shapes /\ phase = "inflight" /\ Active /\ shape' = shape /\ trouble' = trouble /\ gone' = gone
      /\ shape.type = "iso" /\ action' = action /\ reapStatus' = reapStatus /\ status = "none"
      /\ action \in {"NORMAL", "SUBMIT_FAILED", "CANCELLED", "COMPLETED_EARLY", "ERROR"}
  BY DEF DeliveryInv, UrbsInv, Basics, Typed, Active, Reap, CanReap, ReapIso
<1>2. /\ action \notin {"ERROR", "COMPLETED_EARLY"} /\ (action = "NORMAL" => trouble = <<>>)
      /\ \A i \in Outstanding(urbs) : urbs[i].status \in {"none", "ok", "nodev", "cancelled"}
      /\ ActionTold /\ StatusTold
  BY <1>1 DEF TroubleInv, ByType
<1>3. ~Undisturbed'
  BY <1>1 DEF Undisturbed
<1>4. /\ Quiet' /\ (u.status = "nodev" => gone)
      /\ Active' => \A i \in Outstanding(urbs)' : urbs'[i].status = "nodev" => gone'
      /\ Active' => \A i \in Outstanding(urbs)' : urbs'[i].status = urbs[i].status \/ urbs'[i].status = "cancelled"
      /\ Outstanding(urbs)' \subseteq Outstanding(urbs)
  BY ReapQuiet
<1>5. StatusTold' /\ ActionTold'
  BY <1>1, <1>2 DEF StatusTold, ActionTold, First
<1>6. ByType'
  <2>1. Active' => \A i \in Outstanding(urbs)' : urbs'[i].status \in {"none", "ok", "nodev", "cancelled"}
    BY <1>2, <1>4
  <2> QED
    BY <1>1, <1>2, <1>4, <2>1 DEF ByType
<1>7. StatusIsTrue'
  <2>1. CASE status' = "none"
    BY <2>1 DEF StatusIsTrue
  <2>2. CASE status' # "none"
    <3>1. /\ status' = CASE action = "CANCELLED" -> "CANCELLED"
                         [] action \notin {"NORMAL", "CANCELLED"} -> "ERROR"
                         [] OTHER -> IF shape.shortNotOk THEN "ERROR" ELSE StatusFor(u.status)
          /\ phase' = "done"
      BY <1>1, <2>2 DEF ReapIso, Done
    <3>2. CASE action = "CANCELLED"
      BY <3>1, <3>2 DEF StatusIsTrue
    <3>3. CASE action = "SUBMIT_FAILED"
      BY <1>1, <1>2, <3>1, <3>3 DEF StatusIsTrue, ActionTold
    <3>4. CASE action = "NORMAL"
      <4>1. u.status \in {"none", "ok", "nodev", "cancelled"}
        <5>1. Outstanding(urbs) = {h}
          BY <3>1, ReapKeeps
        <5> QED
          BY <1>2, <5>1
      <4>2. StatusFor(u.status) = IF u.status = "nodev" THEN "NO_DEVICE" ELSE "COMPLETED"
        BY <4>1 DEF StatusFor
      <4> QED
        BY <1>1, <1>2, <1>4, <3>1, <3>4, <4>2 DEF StatusIsTrue
    <3> QED
      BY <1>1, <1>2, <3>2, <3>3, <3>4
  <2> QED
    BY <2>1, <2>2
<1> QED
  BY <1>3, <1>4, <1>5, <1>6, <1>7 DEF TroubleInv

LEMMA ReapBulkTrouble ==
  ASSUME UrbsAssumption, DeliveryInv, TroubleInv, Reap, ReapBulk
  PROVE  TroubleInv'
<1> DEFINE h == Head(reapable)
           u == urbs[h]
           all == retired + 1 = NumUrbs
           rs == ReapStatusAfter(u, all)
<1>1. /\ shape \in Shapes /\ phase = "inflight" /\ Active /\ shape' = shape /\ trouble' = trouble /\ gone' = gone
      /\ shape.type \in {"bulk", "interrupt"} /\ status = "none" /\ received' = received
      /\ action \in {"NORMAL", "SUBMIT_FAILED", "CANCELLED", "COMPLETED_EARLY", "ERROR"}
      /\ action' = ActionAfter(u, all) /\ reapStatus' = rs
      /\ IF BulkCompletes(u, all)
         THEN phase' = "done" /\ status' = IF action = "CANCELLED" THEN "CANCELLED" ELSE Final(rs, transferred')
         ELSE phase' = phase /\ status' = status
  BY DEF DeliveryInv, UrbsInv, Basics, Typed, Active, Reap, CanReap, ReapBulk, Done
<1>2. ActionTold /\ StatusTold /\ ByType
  BY DEF TroubleInv
<1>3. /\ Quiet' /\ (u.status = "nodev" => gone)
      /\ Active' => \A i \in Outstanding(urbs)' : urbs'[i].status = "nodev" => gone'
      /\ EndedInSubmission /\ action' = action => EndedInSubmission'
  BY ReapQuiet
<1>4. Undisturbed => /\ Tells(u) # "none" => First(Tells(u))
                     /\ u.status # "cancelled"
  BY HeadTold
<1>5. Undisturbed <=> action = "NORMAL" /\ reapStatus = "COMPLETED"
  BY <1>1 DEF Undisturbed
<1>6. all => phase' = "done"
  BY <1>1 DEF BulkCompletes
<1> HIDE DEF all, h
<1>7. StatusTold' /\ (rs = "ERROR" => First("proto") \/ (all /\ action \notin {"NORMAL", "COMPLETED_EARLY"} /\ reapStatus = "COMPLETED"))
  <2>1. CASE action # "NORMAL"
    <3>1. rs = reapStatus \/ (rs = "ERROR" /\ all /\ action # "COMPLETED_EARLY" /\ reapStatus = "COMPLETED")
      BY <2>1 DEF ReapStatusAfter
    <3> QED
      BY <1>1, <1>2, <1>6, <2>1, <3>1 DEF StatusTold, First, Active
  <2>2. CASE action = "NORMAL" /\ u.status = "nodev"
    <3>1. rs = "NO_DEVICE"
      BY <2>2 DEF ReapStatusAfter
    <3> QED
      BY <1>1, <1>3, <2>2, <3>1 DEF StatusTold
  <2>3. CASE action = "NORMAL" /\ u.status # "nodev" /\ reapStatus # "COMPLETED"
    <3>1. rs = reapStatus
      BY <2>3 DEF ReapStatusAfter
    <3> QED
      BY <1>1, <1>2, <3>1 DEF StatusTold, First
  <2>4. CASE action = "NORMAL" /\ u.status # "nodev" /\ reapStatus = "COMPLETED"
    <3>1. rs = StatusFor(u.status)
      BY <2>4 DEF ReapStatusAfter
    <3>2. u.status \in {"stall", "overflow", "proto"} => First(u.status)
      BY <1>4, <1>5, <2>4 DEF Tells
    <3> QED
      BY <1>1, <2>4, <3>1, <3>2 DEF StatusFor, StatusTold, First
  <2> QED
    BY <2>1, <2>2, <2>3, <2>4
<1>8. ActionTold'
  <2>1. action' = "SUBMIT_FAILED" => action = "SUBMIT_FAILED"
    BY <1>1 DEF ActionAfter
  <2>2. action' = "ERROR" => reapStatus' # "COMPLETED"
    <3>1. CASE action = "NORMAL"
      BY <1>1, <3>1 DEF ActionAfter, ReapStatusAfter, StatusFor
    <3>2. CASE action # "NORMAL"
      BY <1>1, <1>2, <3>2 DEF ActionTold, ActionAfter, ReapStatusAfter
    <3> QED
      BY <3>1, <3>2
  <2>3. action' = "COMPLETED_EARLY" /\ reapStatus' = "COMPLETED" => First("short") \/ EndedInSubmission'
    <3> SUFFICES ASSUME action' = "COMPLETED_EARLY", reapStatus' = "COMPLETED"
                 PROVE  First("short") \/ EndedInSubmission'
      OBVIOUS
    <3>1. CASE action = "NORMAL"
      <4>1. u.status \in {"ok", "short", "cancelled"} /\ Len(u.data) < u.len
        BY <1>1, <3>1 DEF ActionAfter
      <4>2. reapStatus = "COMPLETED"
        BY <1>1, <3>1, <4>1 DEF ReapStatusAfter
      <4> QED
        BY <1>4, <1>5, <3>1, <4>1, <4>2 DEF Tells
    <3>2. CASE action # "NORMAL"
      <4>1. action = "COMPLETED_EARLY" /\ reapStatus = "COMPLETED"
        BY <1>1, <3>2 DEF ActionAfter, ReapStatusAfter
      <4> QED
        BY <1>1, <1>2, <1>3, <4>1 DEF ActionTold
    <3> QED
      BY <3>1, <3>2
  <2> QED
    BY <1>1, <1>2, <2>1, <2>2, <2>3 DEF ActionTold, First
<1>9. ByType'
  BY <1>1, <1>3 DEF ByType
<1>10. Undisturbed' => FirstTold'
  BY ReapFirstTold
<1>11. StatusIsTrue'
  <2>1. CASE status' = "none" \/ status' = "CANCELLED"
    BY <2>1 DEF StatusIsTrue
  <2>2. CASE status' # "none" /\ status' # "CANCELLED"
    <3>1. BulkCompletes(u, all) /\ phase' = "done" /\ action # "CANCELLED" /\ status' = Final(rs, transferred')
      BY <1>1, <2>2
    <3>2. status' = rs \/ (status' = "ERROR" /\ shape.shortNotOk)
      BY <3>1 DEF Final
    <3>3. CASE status' = "ERROR" /\ shape.shortNotOk
      BY <1>1, <3>3 DEF StatusIsTrue
    <3>4. CASE status' = rs /\ rs = "ERROR"
      <4>1. CASE First("proto")
        BY <1>1, <3>4, <4>1 DEF StatusIsTrue, First
      <4>2. CASE action \notin {"NORMAL", "COMPLETED_EARLY"} /\ reapStatus = "COMPLETED"
        <5>1. action = "SUBMIT_FAILED"
          BY <1>1, <1>2, <3>1, <4>2 DEF ActionTold
        <5> QED
          BY <1>1, <1>2, <3>4, <5>1 DEF StatusIsTrue, ActionTold
      <4> QED
        BY <1>7, <3>4, <4>1, <4>2
    <3>5. CASE status' = rs /\ rs = "COMPLETED"
      <4>1. CASE action = "NORMAL"
        <5>1. reapStatus = "COMPLETED" /\ StatusFor(u.status) = "COMPLETED" /\ u.status # "nodev"
          BY <3>5, <4>1 DEF ReapStatusAfter
        <5>2. u.status \notin {"stall", "proto", "overflow", "nodev"}
          BY <5>1 DEF StatusFor
        <5>3. First("short") \/ (trouble = <<>> /\ received = shape.length)
          <6>1. Outstanding(urbs) = {Head(reapable)}
            BY <3>1, ReapKeeps
          <6> QED
            BY <1>5, <4>1, <5>1, <5>2, <6>1, LastTold DEF h
        <5>4. transferred' = received
          <6>1. Delivered'
            BY ReapDelivered DEF DeliveryInv
          <6> QED
            BY <1>1, <3>1, <3>5, <6>1 DEF Delivered
        <5> QED
          BY <1>1, <3>5, <5>3, <5>4 DEF StatusIsTrue, First
      <4>2. CASE action # "NORMAL"
        <5>1. all
          BY <3>1, <4>2 DEF BulkCompletes
        <5>2. action = "COMPLETED_EARLY" /\ reapStatus = "COMPLETED" /\ action' = action
          BY <1>1, <3>5, <4>2, <5>1 DEF ReapStatusAfter, ActionAfter
        <5>3. First("short") \/ EndedInSubmission'
          BY <1>1, <1>2, <1>3, <5>2 DEF ActionTold
        <5> QED
          BY <1>1, <3>5, <5>3 DEF StatusIsTrue, First
      <4> QED
        BY <4>1, <4>2
    <3>6. CASE status' = rs /\ rs \notin {"COMPLETED", "ERROR"}
      BY <1>1, <1>7, <3>6 DEF StatusIsTrue, StatusTold
    <3> QED
      BY <3>2, <3>3, <3>4, <3>5, <3>6
  <2> QED
    BY <2>1, <2>2
<1> QED
  BY <1>3, <1>7, <1>8, <1>9, <1>10, <1>11 DEF TroubleInv

LEMMA TroubleInvStep ==
  ASSUME UrbsAssumption, DeliveryInv, TroubleInv, [Next]_vars
  PROVE  TroubleInv'
<1>1. CASE Reap
  BY <1>1, ReapBulkTrouble, ReapControlTrouble, ReapIsoTrouble DEF Reap
<1>2. CASE UNCHANGED vars
  <2>1. /\ shape' = shape /\ phase' = phase /\ urbs' = urbs /\ reapable' = reapable /\ action' = action
        /\ reapStatus' = reapStatus /\ transferred' = transferred /\ status' = status /\ received' = received
        /\ trouble' = trouble /\ gone' = gone
    BY <1>2 DEF vars, codeVars, busVars
  <2>2. Outstanding(urbs)' = Outstanding(urbs) /\ Waiting(urbs)' = Waiting(urbs) /\ Active' = Active
    BY <2>1 DEF Outstanding, Waiting, Active
  <2>3. Undisturbed' => Undisturbed /\ (FirstTold => FirstTold')
    BY <2>1, <2>2 DEF Undisturbed, FirstTold, FirstTells, ToldAhead, Earlier, Tells, First, Active
  <2>4. EndedInSubmission' = EndedInSubmission
    BY <2>1 DEF EndedInSubmission
  <2>5. StatusTold' /\ ActionTold' /\ StatusIsTrue' /\ Quiet'
    BY <2>1, <2>2, <2>4 DEF TroubleInv, StatusTold, ActionTold, StatusIsTrue, Quiet, First
  <2>6. ByType'
    BY <2>1, <2>2 DEF TroubleInv, ByType
  <2> QED
    BY <2>3, <2>5, <2>6 DEF TroubleInv
<1>3. ASSUME NEW s \in {"stall", "proto", "overflow"}, BusError(s) PROVE TroubleInv'
  BY <1>3, BusErrorTrouble
<1> QED
  BY <1>1, <1>2, <1>3, SubmitTrouble, RefusedTrouble, SubmitUrbTrouble, LaterUrbFailsTrouble, CancelTrouble,
     PacketTrouble, ShortPacketTrouble, IsoDoneTrouble, UnplugTrouble
  DEF Next, Submission, Bus, Terminated

-----------------------------------------------------------------------------
\* --- isochronous results -----------------------------------------------------------

Reaped(us) == {i \in DOMAIN us : us[i].state = "reaped"}

\* The lengths of the URBs of a set, of which only the last may be shorter.
Lengths(S) == Cardinality(S) * UrbLen - (IF NumUrbs \in S THEN UrbLen - LenOf(NumUrbs) ELSE 0)

\* URBs are handed back and reaped as they were submitted.
InSequence ==
  /\ retired + Len(reapable) < next
  /\ Waiting(urbs) = retired + Len(reapable) + 1..next - 1
  /\ \A p \in 1..Len(reapable) : reapable[p] = retired + p
  /\ offset = Start(retired + 1)

Results(us) == \A i \in 1..NumUrbs : us[i].data = [k \in 1..LenOf(i) |-> Start(i) + k]

\* What is known of the place of a result: nothing once a URB was discarded.
InOrder == action = "NORMAL" /\ ~gone

\* The next free descriptor lies behind those of the URBs that were reaped.
IsoInv ==
  /\ offset \in 0..shape.length
  /\ shape.type = "iso" =>
       /\ Filled(buffer, shape.length, IF InOrder THEN offset ELSE 0)
       /\ Active => /\ Results(urbs) /\ offset = Lengths(Reaped(urbs))
                    /\ InOrder => InSequence

\* No more lengths than the transfer has.
LEMMA LengthsBound ==
  ASSUME UrbsAssumption, shape \in Shapes, NEW S \in SUBSET (1..NumUrbs)
  PROVE  /\ Lengths(S) \in 0..shape.length
         /\ Lengths({}) = 0
         /\ \A h \in (1..NumUrbs) \ S : Lengths(S \cup {h}) = Lengths(S) + LenOf(h)
<1> DEFINE b == UrbLen
           n == NumUrbs
           m == LenOf(n)
           c == Cardinality(S)
<1>1. /\ n \in Nat \ {0} /\ b \in Nat \ {0} /\ m \in Nat /\ m =< b /\ shape.length = Start(n) + m
      /\ \A i \in 1..n : i < n => LenOf(i) = b
  <2>1. n \in Nat \ {0} /\ n \in 1..n
    BY Splitting
  <2> QED
    BY <2>1, Splitting
<1>2. Start(n) = (n - 1) * b
  BY DEF Start
<1>3. Lengths(S) = IF n \in S THEN c * b - (b - m) ELSE c * b
  <2>1. c \in Nat
    <3>1. IsFiniteSet(1..NumUrbs)
      BY <1>1, FS_Interval
    <3> QED
      BY <3>1, FS_Subset, FS_CardinalityType
  <2> HIDE DEF c
  <2>2. Lengths(S) = c * b - (IF n \in S THEN b - m ELSE 0)
    BY DEF Lengths, c
  <2>3. c * b \in Nat
    <3> HIDE DEF b
    <3> QED
      BY <1>1, <2>1
  <2> HIDE DEF b, m, n
  <2> QED
    BY <1>1, <2>1, <2>2, <2>3
<1>4. S \in SUBSET (1..n)
  OBVIOUS
<1> HIDE DEF n, b, m
<1>5. IsFiniteSet(1..n) /\ Cardinality(1..n) = n /\ IsFiniteSet(1..n - 1) /\ Cardinality(1..n - 1) = n - 1
  <2>1. 1 \in Int /\ n \in Int /\ n - 1 \in Int
    BY <1>1
  <2>2. \A x \in Int : IsFiniteSet(1..x) /\ Cardinality(1..x) = IF 1 > x THEN 0 ELSE x - 1 + 1
    BY FS_Interval
  <2> QED
    BY <1>1, <2>1, <2>2
<1>6. IsFiniteSet(S) /\ c \in Nat /\ c =< n
  <2>1. IsFiniteSet(S) /\ Cardinality(S) =< Cardinality(1..n)
    BY <1>4, <1>5, FS_Subset
  <2> QED
    BY <1>5, <2>1, FS_CardinalityType
<1>7. n \notin S => c =< n - 1
  <2> SUFFICES ASSUME n \notin S PROVE c =< n - 1
    OBVIOUS
  <2>1. S \in SUBSET (1..n - 1)
    BY <1>1, <1>4
  <2>2. Cardinality(S) =< Cardinality(1..n - 1)
    BY <1>5, <2>1, FS_Subset
  <2> QED
    BY <1>5, <2>2
<1>8. c = 0 => S = {}
  BY <1>6, FS_EmptySet
<1>9. \A h \in (1..n) \ S : Cardinality(S \cup {h}) = c + 1
  BY <1>6, FS_AddElement
<1> HIDE DEF c
<1>10. \A x, y \in Nat : x =< y => x * b =< y * b /\ x * b \in Nat
  BY <1>1
<1>11. n \notin S => c * b \in Nat /\ c * b =< (n - 1) * b /\ (n - 1) * b \in Nat
  <2>1. n - 1 \in Nat
    BY <1>1
  <2> QED
    BY <1>6, <1>7, <1>10, <2>1
<1>12. n \in S => c * b =< n * b /\ b =< c * b /\ n * b = (n - 1) * b + b /\ (n - 1) * b \in Nat /\ c * b \in Nat
  <2>1. n \in S => c # 0
    BY <1>8
  <2>2. n \in S => c - 1 \in Nat /\ c * b = (c - 1) * b + b /\ (c - 1) * b \in Nat
    BY <1>1, <1>6, <2>1
  <2>3. n * b = (n - 1) * b + b /\ (n - 1) * b \in Nat
    BY <1>1
  <2> QED
    BY <1>1, <1>6, <1>10, <2>2, <2>3
<1>13. Lengths(S) \in 0..shape.length
  BY <1>1, <1>2, <1>3, <1>11, <1>12
<1>14. Lengths({}) = 0
  <2>1. Cardinality({}) = 0
    BY FS_EmptySet
  <2> QED
    BY <1>1, <2>1 DEF Lengths, b
<1>15. ASSUME NEW h \in (1..n) \ S PROVE Lengths(S \cup {h}) = Lengths(S) + LenOf(h)
  <2>1. Lengths(S \cup {h}) = (c + 1) * b - (IF n \in S \cup {h} THEN b - m ELSE 0)
    BY <1>9 DEF Lengths, b, n, m
  <2>2. (c + 1) * b = c * b + b /\ c * b \in Nat
    BY <1>1, <1>6
  <2>3. LenOf(h) = IF h = n THEN m ELSE b
    <3>1. h # n => h < n
      BY <1>1
    <3> QED
      BY <1>1, <3>1 DEF m
  <2>4. CASE h = n
    BY <1>1, <1>3, <2>1, <2>2, <2>3, <2>4
  <2>5. CASE h # n
    <3>1. n \in S \cup {h} <=> n \in S
      BY <2>5
    <3> QED
      BY <1>1, <1>3, <2>1, <2>2, <2>3, <2>5, <3>1
  <2> QED
    BY <2>4, <2>5
<1> QED
  BY <1>13, <1>14, <1>15 DEF n

LEMMA HeadOfList ==
  ASSUME NEW r \in Seq(1..NumUrbs), r # <<>>
  PROVE  /\ Head(r) = r[1] /\ Head(r) \in 1..NumUrbs /\ Head(r) \in Range(r)
         /\ Len(r) \in Nat \ {0} /\ Len(Tail(r)) = Len(r) - 1
         /\ \A p \in 1..Len(r) - 1 : Tail(r)[p] = r[p + 1]
<1>1. Head(r) = r[1] /\ DOMAIN r = 1..Len(r)
  BY HeadTailProperties, LenProperties
<1>2. Len(r) \in Nat /\ Len(r) # 0
  BY LenProperties, EmptySeq
<1>3. 1 \in 1..Len(r)
  BY <1>2
<1>4. Head(r) \in 1..NumUrbs /\ Head(r) \in Range(r)
  BY <1>1, <1>3, ElementOfSeq DEF Range
<1>5. Len(Tail(r)) = Len(r) - 1 /\ \A p \in 1..Len(Tail(r)) : Tail(r)[p] = r[p + 1]
  BY HeadTailProperties
<1> QED
  BY <1>1, <1>2, <1>4, <1>5

\* The results of a URB are the next ones, and in the bounds of the transfer.
LEMMA ResultsFollow ==
  ASSUME UrbsAssumption, shape \in Shapes, NEW us \in [1..NumUrbs -> Urb], Results(us), NEW i \in 1..NumUrbs
  PROVE  /\ Follows(us[i].data, Start(i)) /\ Len(us[i].data) = LenOf(i)
         /\ \A k \in DOMAIN us[i].data : us[i].data[k] \in 0..shape.length
<1> DEFINE d == us[i].data
           s == Start(i)
           m == LenOf(i)
<1>1. s \in Nat /\ m \in Nat /\ s + m =< shape.length /\ shape.length \in Nat
  BY Splitting
<1>2. d = [k \in 1..m |-> s + k]
  BY DEF Results
<1>3. d \in Seq(Nat)
  BY DEF Urb
<1> HIDE DEF d, s, m
<1>4. Len(d) = m /\ DOMAIN d = 1..m
  BY <1>1, <1>2, <1>3, LenProperties
<1>5. \A k \in 1..m : d[k] = s + k /\ d[k] \in 0..shape.length
  BY <1>1, <1>2
<1> QED
  BY <1>3, <1>4, <1>5 DEF d, s, m, Follows

\* The next free descriptor is the one of the URB reaped next, if nothing was discarded.
LEMMA ReapIsoBuffer ==
  ASSUME UrbsAssumption, UrbsInv, IsoInv, Reap, ReapIso
  PROVE  Filled(buffer', shape.length, IF InOrder THEN offset' ELSE 0)
<1> DEFINE h == Head(reapable)
           d == urbs[h].data
           L == shape.length
<1>1. /\ shape \in Shapes /\ ListInv(urbs, reapable) /\ Active /\ shape.type = "iso" /\ reapable # <<>>
      /\ buffer' = Written(buffer, offset, d) /\ offset' = offset + urbs[h].len
  BY DEF UrbsInv, Basics, Reap, CanReap, ReapIso, Active, OffsetAfter
<1>2. /\ h \in 1..NumUrbs /\ h = reapable[1] /\ 1 \in 1..Len(reapable) /\ urbs[h].len = LenOf(h)
      /\ urbs \in [1..NumUrbs -> Urb]
  <2>1. reapable \in Seq(1..NumUrbs) /\ reapable # <<>>
    BY <1>1 DEF ListInv
  <2>2. h \in 1..NumUrbs /\ h = reapable[1] /\ Len(reapable) \in Nat \ {0}
    BY <2>1, HeadOfList
  <2> QED
    BY <1>1, <2>2 DEF ListInv
<1>3. /\ offset \in 0..L /\ Filled(buffer, L, IF InOrder THEN offset ELSE 0) /\ Results(urbs)
      /\ InOrder => InSequence
  BY <1>1 DEF IsoInv
<1>4. L \in Nat /\ LenOf(h) \in Nat /\ Start(h) + LenOf(h) =< L
  BY <1>1, <1>2, Splitting
<1>5. Follows(d, Start(h)) /\ Len(d) = LenOf(h) /\ \A k \in DOMAIN d : d[k] \in 0..L
  BY <1>1, <1>2, <1>3, ResultsFollow
<1>6. CASE InOrder
  <2>1. retired \in Nat
    BY <1>1, Splitting DEF UrbsInv, Basics
  <2>2. h = retired + 1 /\ offset = Start(h)
    BY <1>2, <1>3, <1>6, <2>1 DEF InSequence
  <2> HIDE DEF h, d, L
  <2>3. Filled(buffer', L, offset + Len(d))
    BY <1>1, <1>3, <1>4, <1>5, <1>6, <2>2, WrittenInPlace
  <2> QED
    BY <1>1, <1>2, <1>5, <1>6, <2>3 DEF L
<1>7. CASE ~InOrder
  <2>1. buffer \in [1..L -> 0..L]
    BY <1>3 DEF Filled
  <2> HIDE DEF d, L, h
  <2>2. buffer' \in [1..L -> 0..L]
    BY <1>1, <1>5, <2>1 DEF Written
  <2> QED
    BY <1>7, <2>2 DEF Filled, L
<1> QED
  BY <1>6, <1>7

\* A step that hands back URBs of an isochronous transfer reaps none.
LEMMA GivesReaped ==
  ASSUME NEW us, NEW vs, NEW r, NEW l, ListInv(us, r), Gives(us, vs, l)
  PROVE  Reaped(vs) = Reaped(us) /\ (Results(us) => Results(vs))
<1>1. \A i \in Range(l) : us[i].state = "pending"
  BY GivenWaits DEF Waiting
<1>2. us \in [1..NumUrbs -> Urb] /\ vs \in [1..NumUrbs -> Urb]
  BY DEF ListInv, Gives
<1>3. \A i \in 1..NumUrbs : vs[i].state = "reaped" <=> us[i].state = "reaped"
  BY <1>1 DEF Gives
<1>4. Reaped(vs) = Reaped(us)
  BY <1>2, <1>3 DEF Reaped
<1>5. Results(us) => Results(vs)
  BY DEF Results, Gives
<1> QED
  BY <1>4, <1>5

LEMMA ResultsPrimed ==
  ASSUME shape' = shape
  PROVE  /\ Results(urbs') => Results(urbs)'
         /\ \A S : Lengths(S)' = Lengths(S)
         /\ \A S : S = Reaped(urbs') => Lengths(Reaped(urbs))' = Lengths(S)
<1>1. NumUrbs' = NumUrbs /\ UrbLen' = UrbLen /\ \A i : LenOf(i)' = LenOf(i) /\ Start(i)' = Start(i)
  BY SameShape
<1>2. Results(urbs') => Results(urbs)'
  BY <1>1 DEF Results
<1>3. LenOf(NumUrbs)' = LenOf(NumUrbs)
  BY <1>1 DEF LenOf
<1>4. \A S : Lengths(S)' = Lengths(S)
  BY <1>1, <1>3 DEF Lengths
<1>5. Lengths(Reaped(urbs))' = Lengths(Reaped(urbs'))
  BY <1>1, <1>3 DEF Lengths, Reaped
<1> QED
  BY <1>2, <1>4, <1>5

\* The order stays when the first of the kernel's URBs is handed back, and when the
\* first of the list is reaped.
LEMMA IsoDoneInSequence ==
  ASSUME UrbsAssumption, UrbsInv, IsoDone, InSequence
  PROVE  InSequence'
<1> DEFINE h == HeadUrb
           n == Len(reapable)
<1>1. /\ shape \in Shapes /\ retired \in Nat /\ next' = next /\ retired' = retired /\ offset' = offset /\ shape' = shape
      /\ reapable' = Append(reapable, h) /\ Pending # {}
  BY Splitting DEF UrbsInv, Basics, IsoDone, Kernel
<1>2. Active
  BY <1>1 DEF UrbsInv, Counted, Active, Pending, Waiting
<1>3. ListInv(urbs, reapable) /\ next \in Nat /\ Given(<<h>>)
  <2>1. next \in Nat /\ NumUrbs \in Nat
    BY <1>1, <1>2, Splitting DEF UrbsInv, Counted, Active
  <2>2. ListInv(urbs, reapable)
    BY <1>2 DEF UrbsInv
  <2> QED
    BY <1>1, <2>1, <2>2, IsoDoneGives
<1>4. h \in Waiting(urbs) /\ (\A i \in Waiting(urbs) : h =< i) /\ Range(<<h>>) = {h}
  BY <1>1, <1>3, HeadIsWaiting
<1>5. n \in Nat /\ reapable \in Seq(1..NumUrbs) /\ h \in 1..NumUrbs
  BY <1>3, <1>4, LenProperties DEF ListInv, Waiting
<1>6. \A i : i \in Waiting(urbs') <=> i \in Waiting(urbs) /\ i # h
  BY <1>3, <1>4, GivesWaiting DEF Given
<1>7. Len(reapable') = n + 1 /\ reapable'[n + 1] = h /\ \A p \in 1..n : reapable'[p] = reapable[p]
  BY <1>1, <1>5, AppendProperties
<1> HIDE DEF h, n
<1>8. retired + n < next /\ Waiting(urbs) = retired + n + 1..next - 1 /\ \A p \in 1..n : reapable[p] = retired + p
  BY DEF InSequence, n
<1>9. h = retired + n + 1 /\ h < next
  <2>0. h \in retired + n + 1..next - 1
    BY <1>4, <1>8
  <2>1. retired + n + 1 \in Waiting(urbs)
    <3>1. retired + n + 1 \in retired + n + 1..next - 1
      BY <1>1, <1>3, <1>5, <1>8, <2>0
    <3> QED
      BY <1>8, <3>1
  <2>2. h =< retired + n + 1
    BY <1>4, <2>1
  <2> QED
    BY <1>1, <1>3, <1>5, <2>0, <2>2
<1>10. Waiting(urbs') = retired + (n + 1) + 1..next - 1
  <2>1. \A i : i \in Waiting(urbs') <=> i \in retired + (n + 1) + 1..next - 1
    BY <1>1, <1>3, <1>5, <1>6, <1>8, <1>9
  <2> QED
    BY <2>1
<1>11. \A p \in 1..n + 1 : reapable'[p] = retired + p
  BY <1>1, <1>5, <1>7, <1>8, <1>9
<1>12. Waiting(urbs)' = Waiting(urbs') /\ offset' = Start(retired + 1)'
  BY <1>1 DEF Waiting, InSequence, Start, UrbLen, Whole
<1> QED
  BY <1>1, <1>3, <1>5, <1>7, <1>9, <1>10, <1>11, <1>12 DEF InSequence

LEMMA ReapInSequence ==
  ASSUME UrbsAssumption, UrbsInv, Reap, ReapIso, InSequence, retired + 1 # NumUrbs
  PROVE  InSequence'
<1> DEFINE h == Head(reapable)
           n == Len(reapable)
<1>1. /\ shape \in Shapes /\ retired \in 0..NumUrbs /\ next' = next /\ retired' = retired + 1 /\ shape' = shape
      /\ reapable' = Tail(reapable) /\ reapable # <<>> /\ offset' = offset + urbs[h].len
      /\ urbs' = [urbs EXCEPT ![h].state = "reaped"] /\ Active /\ ListInv(urbs, reapable)
  BY DEF UrbsInv, Basics, Reap, CanReap, ReapIso, Active, OffsetAfter
<1>2. NumUrbs \in Nat /\ next \in Nat
  BY <1>1, Splitting DEF UrbsInv, Counted, Active
<1>3. /\ n \in Nat \ {0} /\ h = reapable[1] /\ h \in 1..NumUrbs /\ Len(Tail(reapable)) = n - 1
      /\ \A p \in 1..n - 1 : Tail(reapable)[p] = reapable[p + 1]
  <2>1. reapable \in Seq(1..NumUrbs) /\ reapable # <<>>
    BY <1>1 DEF ListInv
  <2> QED
    BY <2>1, HeadOfList
<1>4. urbs[h].len = LenOf(h) /\ Waiting(urbs') = Waiting(urbs)
  <2>1. urbs[h].len = LenOf(h) /\ urbs \in [1..NumUrbs -> Urb] /\ urbs[h].state = "reapable"
    <3>1. h \in Range(reapable)
      BY <1>1, HeadOfList DEF ListInv
    <3> QED
      BY <1>1, <1>3, <3>1 DEF ListInv
  <2> HIDE DEF h
  <2>2. \A i \in 1..NumUrbs : urbs'[i].state = "pending" <=> urbs[i].state = "pending"
    BY <1>1, <1>3, <2>1 DEF Urb
  <2>3. DOMAIN urbs' = 1..NumUrbs /\ DOMAIN urbs = 1..NumUrbs
    BY <1>1, <2>1
  <2> QED
    BY <2>1, <2>2, <2>3 DEF Waiting
<1> HIDE DEF h, n
<1>5. /\ retired + n < next /\ Waiting(urbs) = retired + n + 1..next - 1 /\ \A p \in 1..n : reapable[p] = retired + p
      /\ offset = Start(retired + 1)
  BY DEF InSequence, n
<1>6. h = retired + 1 /\ h < NumUrbs
  <2>1. h = retired + 1
    BY <1>3, <1>5
  <2> QED
    BY <1>1, <1>2, <1>3, <2>1
<1>7. offset' = Start(h + 1)
  <2>1. Start(h + 1) = Start(h) + LenOf(h)
    BY <1>1, <1>3, <1>6, Splitting
  <2> QED
    BY <1>1, <1>4, <1>5, <1>6, <2>1
<1>8. \A p \in 1..n - 1 : reapable'[p] = retired + 1 + p
  <2> SUFFICES ASSUME NEW p \in 1..n - 1 PROVE reapable'[p] = retired + 1 + p
    OBVIOUS
  <2>1. p + 1 \in 1..n /\ retired \in Nat /\ p \in Nat
    BY <1>1, <1>2, <1>3
  <2>2. reapable'[p] = reapable[p + 1] /\ reapable[p + 1] = retired + (p + 1)
    BY <1>1, <1>3, <1>5, <2>1
  <2> QED
    BY <2>1, <2>2
<1>9. retired + n = retired + 1 + (n - 1) /\ retired \in Nat
  BY <1>1, <1>2, <1>3
<1>10. retired + 1 + 1 = h + 1
  BY <1>6
<1>11. Waiting(urbs)' = Waiting(urbs') /\ Start(retired + 1)' = Start(retired + 1 + 1)
  BY <1>1 DEF Waiting, Start, UrbLen, Whole
<1>12. /\ retired' + Len(reapable') < next' /\ retired' + Len(reapable') + 1 = retired + n + 1
       /\ Len(reapable') = n - 1
  BY <1>1, <1>3, <1>5, <1>9
<1> QED
  BY <1>1, <1>4, <1>5, <1>7, <1>8, <1>10, <1>11, <1>12 DEF InSequence

LEMMA SubmitUrbInSequence ==
  ASSUME UrbsAssumption, UrbsInv, SubmitUrb, InSequence
  PROVE  InSequence'
<1> DEFINE n == Len(reapable)
<1>1. /\ shape \in Shapes /\ retired' = retired /\ retired = 0 /\ next' = next + 1 /\ shape' = shape /\ next \in 1..NumUrbs
      /\ reapable' = reapable /\ offset' = offset /\ ListInv(urbs, reapable)
      /\ urbs' = [urbs EXCEPT ![next].state = "pending"]
  BY DEF UrbsInv, Basics, Counted, SubmitUrb, Active
<1>2. n \in Nat /\ next \in Nat /\ urbs \in [1..NumUrbs -> Urb]
  BY <1>1, LenProperties, Splitting DEF ListInv
<1>3. \A i : i \in Waiting(urbs') <=> i \in Waiting(urbs) \/ i = next
  BY <1>1, <1>2 DEF Waiting, Urb
<1> HIDE DEF n
<1>4. retired + n < next /\ Waiting(urbs) = retired + n + 1..next - 1
  BY DEF InSequence, n
<1>5. Waiting(urbs') = retired + n + 1..next + 1 - 1
  <2>1. \A i : i \in n + 1..next <=> i \in n + 1..next - 1 \/ i = next
    BY <1>1, <1>2, <1>4
  <2>2. retired + n + 1 = n + 1 /\ next + 1 - 1 = next
    BY <1>1, <1>2
  <2>3. \A i : i \in Waiting(urbs') <=> i \in n + 1..next
    BY <1>3, <1>4, <2>1, <2>2
  <2> QED
    BY <2>2, <2>3
<1>6. retired + n < next + 1
  BY <1>1, <1>2, <1>4
<1>7. Waiting(urbs)' = Waiting(urbs') /\ offset' = Start(retired + 1)'
  BY <1>1 DEF Waiting, InSequence, Start, UrbLen, Whole
<1> QED
  BY <1>1, <1>5, <1>6, <1>7 DEF InSequence, n

\* A step that only hands back URBs keeps what is known of the results.
LEMMA GivesIso ==
  ASSUME UrbsInv, IsoInv, shape.type = "iso", Active, NEW l, Given(l),
         shape' = shape, buffer' = buffer, offset' = offset, InOrder' => InOrder, InOrder' => InSequence'
  PROVE  IsoInv'
<1>1. Gives(urbs, urbs', l) /\ ListInv(urbs, reapable)
  BY DEF Given, UrbsInv
<1>2. Reaped(urbs') = Reaped(urbs) /\ (Results(urbs) => Results(urbs'))
  BY <1>1, GivesReaped
<1>3. /\ offset \in 0..shape.length /\ Results(urbs) /\ offset = Lengths(Reaped(urbs))
      /\ Filled(buffer, shape.length, IF InOrder THEN offset ELSE 0)
  BY DEF IsoInv
<1>4. Results(urbs)' /\ offset' = Lengths(Reaped(urbs))'
  <2>1. Lengths(Reaped(urbs))' = Lengths(Reaped(urbs'))
    BY ResultsPrimed
  <2> QED
    BY <1>2, <1>3, <2>1, ResultsPrimed
<1>5. Filled(buffer', shape'.length, IF InOrder' THEN offset' ELSE 0)
  BY <1>3 DEF Filled
<1> QED
  BY <1>3, <1>4, <1>5 DEF IsoInv, Filled

\* A cancellation that finds nothing at the kernel changes nothing.
LEMMA CancelIso ==
  ASSUME UrbsAssumption, UrbsInv, IsoInv, shape.type = "iso", Cancel
  PROVE  IsoInv'
<1>1. /\ shape \in Shapes /\ phase = "inflight" /\ Active /\ ListInv(urbs, reapable)
      /\ shape' = shape /\ buffer' = buffer /\ offset' = offset /\ gone' = gone
      /\ next' = next /\ retired' = retired
      /\ action' = "NORMAL" => action = "NORMAL" /\ (gone \/ NumUrbs \notin Pending)
  BY DEF UrbsInv, Basics, Active, Cancel, DiscardResult, busVars
<1>2. PICK l : Given(l) /\ Range(l) = IF gone THEN {} ELSE Waiting(urbs)
  BY <1>1, CancelGives
<1>3. InOrder' => InOrder
  BY <1>1 DEF InOrder
<1>4. ASSUME InOrder' PROVE InSequence'
  <2>1. InSequence /\ ~gone /\ action = "NORMAL"
    BY <1>1, <1>3, <1>4 DEF IsoInv, InOrder
  <2>2. next = NumUrbs + 1 /\ NumUrbs \notin Waiting(urbs) /\ NumUrbs \in Nat /\ retired \in Nat
    BY <1>1, <1>4, <2>1, Splitting DEF UrbsInv, Basics, Counted, InOrder, Pending, Waiting
  <2>3. Waiting(urbs) = {}
    <3> DEFINE n == Len(reapable)
    <3>1. n \in Nat /\ Waiting(urbs) = retired + n + 1..next - 1
      BY <1>1, <2>1, LenProperties DEF ListInv, InSequence
    <3> HIDE DEF n
    <3>2. retired + n + 1 \in Int /\ next - 1 = NumUrbs
      BY <2>2, <3>1
    <3>3. \A i \in Waiting(urbs) : NumUrbs \in Waiting(urbs)
      BY <2>2, <3>1, <3>2
    <3> QED
      BY <2>2, <3>3
  <2>4. Range(l) = {} /\ l \in Seq(Waiting(urbs)) /\ Gives(urbs, urbs', l)
    BY <1>2, <2>1, <2>3 DEF Given, Gives
  <2>5. l = <<>>
    <3>1. Len(l) \in Nat /\ DOMAIN l = 1..Len(l) /\ (Len(l) = 0 => l = <<>>)
      BY <2>4, LenProperties, EmptySeq
    <3>2. Len(l) # 0 => l[1] \in Range(l)
      BY <3>1 DEF Range
    <3> QED
      BY <2>4, <3>1, <3>2
  <2>6. reapable' = reapable
    BY <1>1, <1>2, <2>5 DEF Given, ListInv
  <2>7. Waiting(urbs') = {}
    BY <1>1, <2>3, <2>4, GivesWaiting
  <2>8. Waiting(urbs)' = Waiting(urbs) /\ Start(retired + 1)' = Start(retired + 1)
    BY <1>1, <2>3, <2>7 DEF Waiting, Start, UrbLen, Whole
  <2> QED
    BY <1>1, <2>1, <2>6, <2>8 DEF InSequence
<1> QED
  BY <1>1, <1>2, <1>3, <1>4, GivesIso

LEMMA ReapIsoInv ==
  ASSUME UrbsAssumption, UrbsInv, IsoInv, Reap, ReapIso
  PROVE  IsoInv'
<1> DEFINE h == Head(reapable)
<1>1. /\ shape \in Shapes /\ ListInv(urbs, reapable) /\ Active /\ shape.type = "iso" /\ reapable # <<>>
      /\ offset' = offset + urbs[h].len /\ urbs' = [urbs EXCEPT ![h].state = "reaped"]
      /\ shape' = shape /\ action' = action /\ gone' = gone
  BY DEF UrbsInv, Basics, Reap, CanReap, ReapIso, Active, OffsetAfter
<1>2. h \in 1..NumUrbs /\ urbs[h].state = "reapable" /\ urbs[h].len = LenOf(h) /\ urbs \in [1..NumUrbs -> Urb]
  <2>1. h \in Range(reapable) /\ h \in 1..NumUrbs
    BY <1>1, HeadOfList DEF ListInv
  <2> QED
    BY <1>1, <2>1 DEF ListInv
<1>3. /\ Results(urbs) /\ offset = Lengths(Reaped(urbs)) /\ (InOrder => InSequence)
  BY <1>1 DEF IsoInv
<1> HIDE DEF h
<1>4. /\ \A i \in 1..NumUrbs : urbs'[i].data = urbs[i].data /\ urbs'[i].state = IF i = h THEN "reaped" ELSE urbs[i].state
      /\ DOMAIN urbs' = 1..NumUrbs
  BY <1>1, <1>2 DEF Urb
<1>5. Reaped(urbs') = Reaped(urbs) \cup {h} /\ h \notin Reaped(urbs) /\ Reaped(urbs) \subseteq 1..NumUrbs
  BY <1>2, <1>4 DEF Reaped
<1>6. offset' = Lengths(Reaped(urbs')) /\ offset' \in 0..shape.length
  <2>1. Lengths(Reaped(urbs) \cup {h}) = Lengths(Reaped(urbs)) + LenOf(h)
    BY <1>1, <1>2, <1>5, LengthsBound
  <2>2. Reaped(urbs') \in SUBSET (1..NumUrbs)
    BY <1>2, <1>5
  <2>3. Lengths(Reaped(urbs')) \in 0..shape.length
    BY <1>1, <2>2, LengthsBound
  <2> QED
    BY <1>1, <1>2, <1>3, <1>5, <2>1, <2>3
<1>7. Results(urbs')
  BY <1>3, <1>4 DEF Results
<1>8. Results(urbs)' /\ offset' = Lengths(Reaped(urbs))'
  <2>1. Lengths(Reaped(urbs))' = Lengths(Reaped(urbs'))
    BY <1>1, ResultsPrimed
  <2> QED
    BY <1>1, <1>6, <1>7, <2>1, ResultsPrimed
<1>9. InOrder' = InOrder
  BY <1>1 DEF InOrder
<1>10. Filled(buffer', shape'.length, IF InOrder' THEN offset' ELSE 0)
  <2>1. Filled(buffer', shape.length, IF InOrder THEN offset' ELSE 0)
    BY ReapIsoBuffer
  <2> QED
    BY <1>1, <1>9, <2>1
<1>11. Active' /\ InOrder' => InSequence'
  <2>1. Active' => retired + 1 # NumUrbs
    BY DEF Reap, ReapIso, Done, Active
  <2> QED
    BY <1>3, <1>9, <2>1, ReapInSequence
<1> QED
  BY <1>1, <1>6, <1>8, <1>10, <1>11 DEF IsoInv, Filled

LEMMA SubmitIso ==
  ASSUME UrbsAssumption, UrbsInv, IsoInv, shape.type = "iso", Submit
  PROVE  IsoInv'
<1>1. /\ shape \in Shapes /\ shape' = shape /\ buffer' = buffer /\ offset' = 0 /\ reapable' = <<>>
      /\ retired' = 0 /\ next' = 1
      /\ urbs' = [i \in 1..NumUrbs |-> [len |-> LenOf(i), state |-> "new", status |-> "none",
                    data |-> [k \in 1..LenOf(i) |-> Start(i) + k]]]
  BY DEF Submit, UrbsInv, Basics, Counted, Active
<1>2. shape.length \in Nat /\ Start(1) = 0 /\ buffer \in [1..shape.length -> 0..shape.length]
  BY <1>1, Splitting DEF IsoInv, Filled
<1>3. Results(urbs') /\ Reaped(urbs') = {} /\ Waiting(urbs') = {}
  BY <1>1 DEF Results, Reaped, Waiting
<1>4. Results(urbs)' /\ offset' = Lengths(Reaped(urbs))'
  <2>1. Lengths(Reaped(urbs))' = Lengths({})
    BY <1>1, <1>3, ResultsPrimed
  <2>2. {} \in SUBSET (1..NumUrbs)
    OBVIOUS
  <2>3. Lengths({}) = 0
    BY <1>1, <2>2, LengthsBound
  <2> QED
    BY <1>1, <1>3, <2>1, <2>3, ResultsPrimed
<1>5. InSequence'
  <2>1. Waiting(urbs)' = {} /\ Start(retired + 1)' = 0 /\ Len(reapable') = 0
    <3>1. Start(1)' = Start(1) /\ Start(retired + 1)' = Start(1)'
      BY <1>1 DEF Start, UrbLen, Whole
    <3> QED
      BY <1>1, <1>2, <1>3, <3>1 DEF Waiting
  <2> QED
    BY <1>1, <2>1 DEF InSequence
<1>6. Filled(buffer', shape'.length, IF InOrder' THEN offset' ELSE 0)
  BY <1>1, <1>2 DEF Filled
<1> QED
  BY <1>1, <1>2, <1>4, <1>5, <1>6 DEF IsoInv, Filled

LEMMA SubmitUrbIso ==
  ASSUME UrbsAssumption, UrbsInv, IsoInv, shape.type = "iso", SubmitUrb
  PROVE  IsoInv'
<1>1. /\ shape \in Shapes /\ ListInv(urbs, reapable) /\ Active /\ next \in 1..NumUrbs /\ urbs[next].state = "new"
      /\ shape' = shape /\ buffer' = buffer /\ offset' = offset /\ action' = action /\ gone' = gone
      /\ urbs' = [urbs EXCEPT ![next].state = "pending"]
  <2>1. /\ shape \in Shapes /\ ListInv(urbs, reapable) /\ Active /\ next \in 1..NumUrbs
        /\ \A i \in 1..NumUrbs : urbs[i].state \in IF i < next THEN {"pending", "reapable"} ELSE {"new"}
    BY DEF SubmitUrb, UrbsInv, Basics, Counted, Active
  <2>2. ~(next < next)
    BY <2>1, Splitting
  <2> QED
    BY <2>1, <2>2 DEF SubmitUrb, busVars
<1>2. urbs \in [1..NumUrbs -> Urb]
  BY <1>1 DEF ListInv
<1>3. /\ \A i \in 1..NumUrbs : /\ urbs'[i].data = urbs[i].data
                               /\ urbs'[i].state = "reaped" <=> urbs[i].state = "reaped"
      /\ DOMAIN urbs' = 1..NumUrbs
  BY <1>1, <1>2 DEF Urb
<1>4. Reaped(urbs') = Reaped(urbs)
  BY <1>2, <1>3 DEF Reaped
<1>5. /\ offset \in 0..shape.length /\ Results(urbs) /\ offset = Lengths(Reaped(urbs)) /\ (InOrder => InSequence)
      /\ Filled(buffer, shape.length, IF InOrder THEN offset ELSE 0)
  BY <1>1 DEF IsoInv
<1>6. Results(urbs)' /\ offset' = Lengths(Reaped(urbs))'
  <2>1. Lengths(Reaped(urbs))' = Lengths(Reaped(urbs'))
    BY <1>1, ResultsPrimed
  <2>2. Results(urbs')
    BY <1>3, <1>5 DEF Results
  <2> QED
    BY <1>1, <1>4, <1>5, <2>1, <2>2, ResultsPrimed
<1>7. InOrder' = InOrder
  BY <1>1 DEF InOrder
<1>8. InOrder' => InSequence'
  BY <1>5, <1>7, SubmitUrbInSequence
<1>9. Filled(buffer', shape'.length, IF InOrder' THEN offset' ELSE 0)
  BY <1>1, <1>5, <1>7
<1> QED
  BY <1>1, <1>5, <1>6, <1>8, <1>9 DEF IsoInv, Filled

\* A step that leaves the results alone, of a transfer the kernel has nothing of.
LEMMA RestIso ==
  ASSUME IsoInv, shape' = shape, buffer' = buffer, offset' = offset, InOrder' => InOrder, ~Active'
  PROVE  IsoInv'
<1>1. Filled(buffer', shape'.length, IF InOrder' THEN offset' ELSE 0) \/ shape.type # "iso"
  BY DEF IsoInv, Filled
<1> QED
  BY <1>1 DEF IsoInv, Filled

LEMMA IsoInvStep ==
  ASSUME UrbsAssumption, DeliveryInv, IsoInv, [Next]_vars
  PROVE  IsoInv'
<1>1. UrbsInv /\ shape \in Shapes /\ (Active => ListInv(urbs, reapable)) /\ (Pending # {} => Active)
  BY DEF DeliveryInv, UrbsInv, Basics, Counted, Active, Pending, Waiting
<1>2. shape' = shape
  BY DEF Next, Submission, Submit, SubmitUrb, FirstUrbFails, LaterUrbFails, SubmitRefused, Reap, Disconnect, Cancel,
     Bus, Packet, ShortPacket, IsoDone, Unplug, BusError, Kernel, Terminated, vars
<1>3. CASE shape.type # "iso"
  <2>1. offset' \in {0, offset}
    BY <1>3 DEF Next, Submission, Submit, SubmitUrb, FirstUrbFails, LaterUrbFails, SubmitRefused, Reap, ReapBulk,
       ReapControl, ReapIso, Disconnect, Cancel, Bus, Packet, ShortPacket, IsoDone, Unplug, BusError, Kernel,
       Terminated, vars, codeVars
  <2>2. shape.length \in Nat
    BY <1>1, Splitting
  <2> QED
    BY <1>2, <1>3, <2>1, <2>2 DEF IsoInv
<1> SUFFICES ASSUME shape.type = "iso" PROVE IsoInv'
  BY <1>3
<1>4. CASE Submit
  BY <1>1, <1>4, SubmitIso
<1>5. CASE SubmitUrb
  BY <1>1, <1>5, SubmitUrbIso
<1>6. CASE FirstUrbFails \/ SubmitRefused
  <2>1. buffer' = buffer /\ offset' = offset /\ action' = action /\ gone' = gone /\ phase' = "refused"
    BY <1>6 DEF FirstUrbFails, SubmitRefused
  <2> QED
    BY <1>2, <2>1, RestIso DEF InOrder, Active
<1>7. CASE LaterUrbFails
  <2>1. Active /\ buffer' = buffer /\ offset' = offset /\ ~InOrder'
    BY <1>7 DEF LaterUrbFails, Active, InOrder
  <2>2. \E l : Given(l)
    BY <1>1, <1>7, <2>1, LaterUrbFailsGives
  <2> QED
    BY <1>1, <1>2, <2>1, <2>2, GivesIso
<1>8. CASE Reap
  <2>1. ReapIso
    BY <1>8 DEF Reap, ReapBulk, ReapControl
  <2> QED
    BY <1>1, <1>8, <2>1, ReapIsoInv
<1>9. CASE Disconnect
  <2>1. buffer' = buffer /\ offset' = offset /\ action' = action /\ gone' = gone /\ phase' = "done"
    BY <1>9 DEF Disconnect, Done, busVars
  <2> QED
    BY <1>2, <2>1, RestIso DEF InOrder, Active
<1>10. CASE Cancel
  BY <1>1, <1>10, CancelIso
<1>11. CASE IsoDone
  <2>1. Active /\ buffer' = buffer /\ offset' = offset /\ action' = action /\ gone' = gone
    BY <1>1, <1>11 DEF IsoDone, Kernel, busVars
  <2>2. Given(<<HeadUrb>>)
    BY <1>1, <1>11, <2>1, IsoDoneGives
  <2>3. InOrder' => InOrder
    BY <2>1 DEF InOrder
  <2>4. InOrder => InSequence
    BY <2>1 DEF IsoInv
  <2>5. InOrder' => InSequence'
    BY <1>1, <1>11, <2>3, <2>4, IsoDoneInSequence
  <2> QED
    BY <1>1, <1>2, <2>1, <2>2, <2>3, <2>5, GivesIso
<1>12. CASE Unplug
  <2>1. Active /\ buffer' = buffer /\ offset' = offset /\ ~InOrder'
    BY <1>12 DEF Unplug, Kernel, Active, InOrder
  <2>2. \E l : Given(l)
    BY <1>1, <1>12, <2>1, UnplugGives
  <2> QED
    BY <1>1, <1>2, <2>1, <2>2, GivesIso
<1>13. CASE UNCHANGED vars
  <2>1. /\ buffer' = buffer /\ offset' = offset /\ action' = action /\ gone' = gone /\ urbs' = urbs
        /\ reapable' = reapable /\ phase' = phase /\ next' = next /\ retired' = retired
    BY <1>13 DEF vars, codeVars, busVars
  <2>2. InOrder' = InOrder /\ Active' = Active /\ Reaped(urbs)' = Reaped(urbs') /\ Waiting(urbs)' = Waiting(urbs)
    BY <2>1 DEF InOrder, Active, Reaped, Waiting
  <2>3. Results(urbs) => Results(urbs)'
    BY <1>2, <2>1, ResultsPrimed
  <2>4. Lengths(Reaped(urbs))' = Lengths(Reaped(urbs))
    BY <1>2, <2>1, ResultsPrimed
  <2>5. InSequence => InSequence'
    BY <1>2, <2>1, <2>2 DEF InSequence, Start, UrbLen, Whole
  <2> QED
    BY <1>2, <2>1, <2>2, <2>3, <2>4, <2>5 DEF IsoInv, Filled
<1>14. ~Packet /\ ~ShortPacket /\ \A s : ~BusError(s)
  BY DEF Packet, ShortPacket, BusError
<1> QED
  BY <1>4, <1>5, <1>6, <1>7, <1>8, <1>9, <1>10, <1>11, <1>12, <1>13, <1>14 DEF Next, Submission, Bus, Terminated

-----------------------------------------------------------------------------
\* --- the theorems --------------------------------------------------------------

LEMMA DeliveryInvHolds ==
  ASSUME UrbsAssumption
  PROVE  Spec => []DeliveryInv
<1>1. Init => DeliveryInv
  BY DeliveryInvInit
<1>2. DeliveryInv /\ [Next]_vars => DeliveryInv'
  BY DeliveryInvStep
<1> QED
  BY <1>1, <1>2, PTL DEF Spec

LEMMA IsoInvHolds ==
  ASSUME UrbsAssumption
  PROVE  Spec => []IsoInv
<1>1. Init => IsoInv
  <2> SUFFICES ASSUME Init PROVE IsoInv
    OBVIOUS
  <2>1. /\ shape \in Shapes /\ phase = "idle" /\ offset = 0 /\ buffer = [k \in 1..shape.length |-> 0]
    BY DEF Init
  <2>2. shape.length \in Nat
    BY <2>1, Splitting
  <2>3. Filled(buffer, shape.length, IF InOrder THEN offset ELSE 0)
    BY <2>1, <2>2 DEF Filled
  <2> QED
    BY <2>1, <2>2, <2>3 DEF IsoInv, Active
<1>2. DeliveryInv /\ IsoInv /\ [Next]_vars => IsoInv'
  BY IsoInvStep
<1> QED
  BY <1>1, <1>2, DeliveryInvHolds, PTL DEF Spec

\* Nothing of a transfer is outstanding when it is reported, so its owner may
\* free it (linux_usbfs.c:2061-2064, 2389-2396): every URB was reaped before,
\* also when the submission failed in the middle, URBs were discarded or the
\* device was unplugged.
THEOREM NothingIsOutstanding ==
  ASSUME UrbsAssumption
  PROVE  Spec => []NothingOutstanding
<1>1. DeliveryInv => NothingOutstanding
  <2> SUFFICES ASSUME DeliveryInv, phase \in {"done", "refused"} PROVE reapable = <<>> /\ Pending = {}
    BY DEF NothingOutstanding
  <2> QED
    BY DEF DeliveryInv, UrbsInv, Counted, Active, Waiting, Pending
<1> QED
  BY <1>1, DeliveryInvHolds, PTL

\* A bulk, interrupt or control transfer does what UsbTransfer promises: it is
\* refused before anything was received, or it ends once, with one status and
\* with everything that was received for it, in order and without a hole
\* (handle_bulk_completion, linux_usbfs.c:2372-2387), whatever was short,
\* stalled, failed or cancelled, unless the device is gone.
THEOREM TransfersAreDelivered ==
  ASSUME UrbsAssumption
  PROVE  Spec => ImplementsTransfer
<1>1. Init => Transfer!Init
  BY TransferInit
<1>2. DeliveryInv /\ DeliveryInv' /\ [Next]_vars => [Transfer!Next]_(Transfer!vars)
  BY TransferStep
<1> QED
  BY <1>1, <1>2, DeliveryInvHolds, PTL DEF Spec, Transfer!Spec, ImplementsTransfer

\* libusb_cancel_transfer returns 0 exactly when the transfer is reported as
\* cancelled (op_cancel_transfer and the reap actions of linux_usbfs.c), whatever
\* became of its URBs before and between: nothing else marks the transfer, and
\* after an error the last URB, which decides the answer, is not pending any more.
THEOREM CancelIsAnswered ==
  ASSUME UrbsAssumption
  PROVE  Spec => []CancelIsHonest
<1>1. Init => CancelInv
  <2> SUFFICES ASSUME Init PROVE CancelInv
    OBVIOUS
  <2>1. phase = "idle" /\ cancel = "none" /\ action = "NORMAL" /\ urbs = <<>>
    BY DEF Init
  <2> QED
    BY <2>1 DEF CancelInv
<1>2. DeliveryInv /\ CancelInv /\ [Next]_vars => CancelInv'
  BY CancelInvStep
<1>3. CancelInv => CancelIsHonest
  BY DEF CancelInv, CancelIsHonest
<1> QED
  BY <1>1, <1>2, <1>3, DeliveryInvHolds, PTL DEF Spec

\* The status of a transfer is the first thing that happened to it
\* (handle_bulk_completion, handle_control_completion, handle_iso_completion): a
\* URB with a later status is reaped later, and the action the first one leaves
\* behind is what the rest is measured by.
THEOREM StatusIsFirst ==
  ASSUME UrbsAssumption
  PROVE  Spec => []StatusIsTrue
<1>1. Init => TroubleInv
  BY TroubleInvInit
<1>2. DeliveryInv /\ TroubleInv /\ [Next]_vars => TroubleInv'
  BY TroubleInvStep
<1>3. TroubleInv => StatusIsTrue
  BY DEF TroubleInv
<1> QED
  BY <1>1, <1>2, <1>3, DeliveryInvHolds, PTL DEF Spec

\* Isochronous results stay with their packets (handle_iso_completion copies those
\* of a URB to the next free descriptors): as long as nothing is discarded the
\* kernel hands URBs back in the order they were submitted.
THEOREM IsoStaysInOrder ==
  ASSUME UrbsAssumption
  PROVE  Spec => []IsoInOrder
<1>1. IsoInv => IsoInOrder
  BY DEF IsoInv, InOrder, IsoInOrder, Filled
<1> QED
  BY <1>1, IsoInvHolds, PTL

\* Types and bounds, of a transfer of any length: no URB is retired twice, no more
\* is reported than was asked for (num_retired, itransfer->transferred), and the
\* descriptors of an isochronous transfer are not left behind
\* (tpriv->iso_packet_offset).
THEOREM TypeCorrect ==
  ASSUME UrbsAssumption
  PROVE  Spec => []TypeOK
<1>1. DeliveryInv /\ IsoInv => TypeOK
  <2> SUFFICES ASSUME DeliveryInv, IsoInv PROVE TypeOK
    OBVIOUS
  <2>1. transferred \in 0..shape.length
    <3>1. shape \in Shapes
      BY DEF DeliveryInv, UrbsInv, Basics
    <3>2. shape.length \in Nat
      BY <3>1, Splitting
    <3> QED
      BY <3>2 DEF DeliveryInv, Delivered
  <2>2. IsInjective(reapable)
    <3>1. CASE Active
      BY <3>1 DEF DeliveryInv, UrbsInv, ListInv
    <3>2. CASE ~Active
      BY <3>2 DEF DeliveryInv, UrbsInv, Counted, IsInjective
    <3> QED
      BY <3>1, <3>2
  <2>3. buffer \in [1..shape.length -> 0..shape.length]
    BY DEF DeliveryInv, Delivered, IsoInv, Filled
  <2> QED
    BY <2>1, <2>2, <2>3 DEF DeliveryInv, UrbsInv, Basics, IsoInv, TypeOK
<1> QED
  BY <1>1, IsoInvHolds, DeliveryInvHolds, PTL
=============================================================================
