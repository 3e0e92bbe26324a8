-------------------------- MODULE UsbEventsProofs --------------------------
(***************************************************************************)
(* Proofs about UsbEvents, for any number of threads, closers, calls and   *)
(* disturbances and every timeout: the event agrees with its flags and no  *)
(* waiter is left asleep, a transfer is touched only while it exists and   *)
(* completes once, and that of an unplugged device is not forgotten.  Then *)
(* the timeouts: a call that ends with a timeout or an error has a reason  *)
(* for it, and the one timerfd covers the timeouts of all transfers as     *)
(* long as only handles without a timeout are closed under their thread.   *)
(***************************************************************************)
EXTENDS UsbEvents, FiniteSetTheorems, SequenceTheorems, TLAPS

-----------------------------------------------------------------------------
\* The first index of a nonempty set, and what the list operators do to the
\* elements of a list without repetitions.
LEMMA MinInSet ==
  ASSUME NEW I \in SUBSET Nat, I # {}
  PROVE  Min(I) \in I /\ \A i \in I : Min(I) =< i
<1> DEFINE Less == {p \in Nat \X Nat : p[1] < p[2]}
<1>1. IsWellFoundedOn(Less, Nat)
  BY NatLessThanWellFounded, Zenon DEF OpToRel
<1>2. PICK m \in I : \A i \in I : <<i, m>> \notin Less
  <2> HIDE DEF Less
  <2> QED
    BY <1>1, WFMin
<1>3. ASSUME NEW i \in I PROVE m =< i
  <2>1. CASE i < m
    <3>1. <<i, m>> \in Less
      BY <2>1
    <3> QED
      BY <1>2, <3>1
  <2> QED
    BY <2>1
<1> QED
  BY <1>3 DEF Min

\* What RemoveAt leaves, element by element.
LEMMA RemoveElements ==
  ASSUME NEW S, NEW s \in Seq(S), NEW i \in 1..Len(s)
  PROVE  /\ RemoveAt(s, i) \in Seq(S)
         /\ Len(RemoveAt(s, i)) = Len(s) - 1
         /\ \A j \in 1..Len(s) - 1 : RemoveAt(s, i)[j] = IF j < i THEN s[j] ELSE s[j + 1]
<1> DEFINE a == SubSeq(s, 1, i - 1)
           b == SubSeq(s, i + 1, Len(s))
<1>1. a \in Seq(S) /\ Len(a) = i - 1 /\ \A j \in 1..i - 1 : a[j] = s[j]
  OBVIOUS
<1>2. b \in Seq(S) /\ Len(b) = Len(s) - i /\ \A j \in 1..Len(s) - i : b[j] = s[i + j]
  OBVIOUS
<1> HIDE DEF a, b
<1>3. a \o b \in Seq(S) /\ Len(a \o b) = Len(s) - 1 /\ Len(s) \in Nat
  <2>1. Len(s) \in Nat
    OBVIOUS
  <2>2. a \o b \in Seq(S) /\ Len(a \o b) = Len(a) + Len(b)
    BY <1>1, <1>2, ConcatProperties
  <2> QED
    BY <2>1, <2>2, <1>1, <1>2
<1>4. RemoveAt(s, i) = a \o b
  BY DEF RemoveAt, a, b
<1>5. ASSUME NEW j \in 1..Len(s) - 1 PROVE (a \o b)[j] = IF j < i THEN s[j] ELSE s[j + 1]
  <2>1. CASE j < i
    BY <2>1, <1>1, <1>2, ConcatProperties
  <2>2. CASE j >= i
    <3>1. (a \o b)[j] = b[j - Len(a)]
      BY <2>2, <1>1, <1>2, ConcatProperties
    <3>2. j - Len(a) = j - i + 1 /\ j - i + 1 \in 1..Len(s) - i
      BY <2>2, <1>1
    <3>3. i + (j - i + 1) = j + 1
      OBVIOUS
    <3> QED
      BY <2>2, <3>1, <3>2, <3>3, <1>2
  <2> QED
    BY <2>1, <2>2, <1>3
<1> QED
  BY <1>3, <1>4, <1>5

\* RemoveFirst takes one element out and leaves the others in their order.
LEMMA RemoveFirstElements ==
  ASSUME NEW S, NEW s \in Seq(S), NEW x, Contains(s, x)
  PROVE  /\ RemoveFirst(s, x) \in Seq(S) /\ Len(RemoveFirst(s, x)) = Len(s) - 1
         /\ \E i \in 1..Len(s) : /\ s[i] = x
                               /\ \A j \in 1..Len(s) - 1 :
                                    RemoveFirst(s, x)[j] = IF j < i THEN s[j] ELSE s[j + 1]
<1> DEFINE i == SelectInSeq(s, LAMBDA v : v = x)
<1>1. i \in 1..Len(s) /\ s[i] = x
  <2> DEFINE I == {k \in 1..Len(s) : s[k] = x}
  <2>1. I \in SUBSET Nat /\ I # {}
    BY DEF Contains
  <2>2. i = Min(I)
    BY <2>1 DEF SelectInSeq
  <2> HIDE DEF i
  <2>3. Min(I) \in I
    BY <2>1, MinInSet
  <2> QED
    BY <2>2, <2>3
<1>2. RemoveFirst(s, x) = RemoveAt(s, i)
  BY DEF RemoveFirst, Contains
<1> HIDE DEF i
<1>3. /\ RemoveAt(s, i) \in Seq(S) /\ Len(RemoveAt(s, i)) = Len(s) - 1
      /\ \A j \in 1..Len(s) - 1 : RemoveAt(s, i)[j] = IF j < i THEN s[j] ELSE s[j + 1]
  BY <1>1, RemoveElements
<1> QED
  BY <1>1, <1>2, <1>3

\* Removing from a list without repetition takes out that element and no other.
LEMMA RemoveList ==
  ASSUME NEW S, NEW s \in Seq(S), IsInjective(s), NEW x
  PROVE  /\ RemoveFirst(s, x) \in Seq(S)
         /\ IsInjective(RemoveFirst(s, x))
         /\ \A y : Contains(RemoveFirst(s, x), y) <=> Contains(s, y) /\ y # x
<1>1. CASE Contains(s, x)
  <2> DEFINE r == RemoveFirst(s, x)
  <2>0. r \in Seq(S) /\ Len(r) = Len(s) - 1
    BY <1>1, RemoveFirstElements
  <2>1. PICK i \in 1..Len(s) :
          s[i] = x /\ \A j \in 1..Len(s) - 1 : r[j] = IF j < i THEN s[j] ELSE s[j + 1]
    BY <1>1, RemoveFirstElements
  <2>2. r \in Seq(S) /\ Len(r) = Len(s) - 1
        /\ \A j \in 1..Len(s) - 1 : r[j] = IF j < i THEN s[j] ELSE s[j + 1]
    BY <2>0, <2>1
  <2>3. \A j, k \in 1..Len(s) : s[j] = s[k] => j = k
    BY DEF IsInjective
  <2> HIDE DEF r
  <2>4. IsInjective(r)
    <3>1. ASSUME NEW j \in 1..Len(s) - 1, NEW k \in 1..Len(s) - 1, r[j] = r[k] PROVE j = k
      <4> DEFINE jj == IF j < i THEN j ELSE j + 1
                 kk == IF k < i THEN k ELSE k + 1
      <4>1. jj \in 1..Len(s) /\ r[j] = s[jj]
        BY <2>1, <2>2
      <4>2. kk \in 1..Len(s) /\ r[k] = s[kk]
        BY <2>1, <2>2
      <4>3. jj = kk
        BY <4>1, <4>2, <3>1, <2>3
      <4> QED
        BY <4>3, <2>1
    <3> QED
      BY <3>1, <2>2 DEF IsInjective
  <2>5. ASSUME NEW y, Contains(r, y) PROVE Contains(s, y) /\ y # x
    <3>1. PICK j \in 1..Len(s) - 1 : r[j] = y
      BY <2>2, <2>5 DEF Contains
    <3>2. PICK k \in 1..Len(s) : k # i /\ s[k] = y
      BY <2>1, <2>2, <3>1
    <3> QED
      BY <2>1, <2>3, <3>2 DEF Contains
  <2>6. ASSUME NEW y, Contains(s, y), y # x PROVE Contains(r, y)
    <3>1. PICK j \in 1..Len(s) : s[j] = y /\ j # i
      BY <2>1, <2>6 DEF Contains
    <3>2. CASE j < i
      BY <3>1, <3>2, <2>1, <2>2 DEF Contains
    <3>3. CASE j > i
      <4>1. j - 1 \in 1..Len(r) /\ ~(j - 1 < i) /\ (j - 1) + 1 = j
        BY <3>3, <2>1, <2>2
      <4>2. r[j - 1] = s[j]
        BY <4>1, <2>2
      <4> QED
        BY <3>1, <4>1, <4>2 DEF Contains
    <3> QED
      BY <3>1, <3>2, <3>3, <2>1
  <2> QED
    BY <2>2, <2>4, <2>5, <2>6 DEF r
<1>2. CASE ~Contains(s, x)
  BY <1>2 DEF RemoveFirst, Contains
<1> QED
  BY <1>1, <1>2

\* The others stay in their order; the first one stays first unless it is removed,
\* when the others come from behind it.
InOrder(r, s, x) ==
  /\ \A i, j \in 1..Len(r) : i < j =>
       \E k, l \in 1..Len(s) : k < l /\ r[i] = s[k] /\ r[j] = s[l]
  /\ s[1] # x => Len(r) > 0 /\ r[1] = s[1]
  /\ s[1] = x => \A i \in 1..Len(r) : i + 1 \in 1..Len(s) /\ r[i] = s[i + 1]

LEMMA RemoveOrder ==
  ASSUME NEW S, NEW s \in Seq(S), IsInjective(s), NEW x, Contains(s, x),
         NEW r, r = RemoveFirst(s, x)
  PROVE  InOrder(r, s, x)
<1>0. r \in Seq(S) /\ Len(r) = Len(s) - 1 /\ Len(s) \in Nat
  BY RemoveFirstElements
<1>1. PICK n \in 1..Len(s) :
        s[n] = x /\ \A j \in 1..Len(s) - 1 : r[j] = IF j < n THEN s[j] ELSE s[j + 1]
  BY RemoveFirstElements
<1>2. ASSUME NEW i \in 1..Len(r), NEW j \in 1..Len(r), i < j
      PROVE  \E k, l \in 1..Len(s) : k < l /\ r[i] = s[k] /\ r[j] = s[l]
  <2> DEFINE k == IF i < n THEN i ELSE i + 1
             l == IF j < n THEN j ELSE j + 1
  <2>1. k \in 1..Len(s) /\ l \in 1..Len(s) /\ k < l
    BY <1>0, <1>2
  <2>2. r[i] = s[k] /\ r[j] = s[l]
    BY <1>0, <1>1
  <2> HIDE DEF k, l
  <2> QED
    BY <2>1, <2>2
<1>3. ASSUME s[1] # x PROVE Len(r) > 0 /\ r[1] = s[1]
  <2>1. n > 1 /\ 1 \in 1..Len(s) - 1
    BY <1>0, <1>1, <1>3
  <2> QED
    BY <1>0, <1>1, <2>1
<1>4. ASSUME s[1] = x, NEW i \in 1..Len(r) PROVE i + 1 \in 1..Len(s) /\ r[i] = s[i + 1]
  <2>1. n = 1
    <3>1. 1 \in 1..Len(s) /\ s[1] = s[n]
      BY <1>0, <1>1, <1>4
    <3> QED
      BY <3>1 DEF IsInjective
  <2> QED
    BY <1>0, <1>1, <2>1
<1> QED
  BY <1>2, <1>3, <1>4 DEF InOrder

\* What InsertAt leaves, element by element.
LEMMA InsertElements ==
  ASSUME NEW S, NEW s \in Seq(S), NEW x \in S, NEW i \in 1..Len(s) + 1
  PROVE  /\ InsertAt(s, i, x) \in Seq(S)
         /\ Len(InsertAt(s, i, x)) = Len(s) + 1
         /\ \A j \in 1..Len(s) + 1 :
              InsertAt(s, i, x)[j] = IF j < i THEN s[j] ELSE IF j = i THEN x ELSE s[j - 1]
<1> DEFINE a == SubSeq(s, 1, i - 1)
           b == SubSeq(s, i, Len(s))
           r == InsertAt(s, i, x)
<1>1. a \in Seq(S) /\ Len(a) = i - 1 /\ \A j \in 1..i - 1 : a[j] = s[j]
  OBVIOUS
<1>2. b \in Seq(S) /\ Len(b) = Len(s) - i + 1 /\ \A j \in 1..Len(s) - i + 1 : b[j] = s[i + j - 1]
  OBVIOUS
<1>3. r = a \o <<x>> \o b
  BY DEF InsertAt
<1> HIDE DEF a, b, r
<1>4. /\ a \o <<x>> \in Seq(S) /\ Len(a \o <<x>>) = i
      /\ \A j \in 1..i : (a \o <<x>>)[j] = IF j < i THEN a[j] ELSE x
  BY <1>1
<1>5. /\ r \in Seq(S) /\ Len(r) = Len(s) + 1
      /\ \A j \in 1..Len(s) + 1 : r[j] = IF j =< i THEN (a \o <<x>>)[j] ELSE b[j - i]
  <2> DEFINE ax == a \o <<x>>
  <2>1. Len(s) \in Nat /\ ax \in Seq(S) /\ Len(ax) = i
    BY <1>4
  <2> HIDE DEF ax
  <2>2. /\ ax \o b \in Seq(S) /\ Len(ax \o b) = Len(ax) + Len(b)
        /\ \A j \in 1..Len(ax) + Len(b) :
             (ax \o b)[j] = IF j =< Len(ax) THEN ax[j] ELSE b[j - Len(ax)]
    BY <2>1, <1>2, ConcatProperties
  <2>3. r = ax \o b
    BY <1>3 DEF ax
  <2>4. Len(ax) + Len(b) = Len(s) + 1
    BY <2>1, <1>2
  <2> QED
    BY <2>1, <2>2, <2>3, <2>4 DEF ax
<1>6. ASSUME NEW j \in 1..Len(s) + 1
      PROVE  r[j] = IF j < i THEN s[j] ELSE IF j = i THEN x ELSE s[j - 1]
  <2>1. CASE j =< i
    BY <2>1, <1>1, <1>4, <1>5
  <2>2. CASE j > i
    <3>1. j - i \in 1..Len(s) - i + 1 /\ i + (j - i) - 1 = j - 1
      BY <2>2
    <3>2. b[j - i] = s[i + (j - i) - 1]
      BY <3>1, <1>2
    <3>3. r[j] = b[j - i]
      BY <2>2, <1>5
    <3> QED
      BY <2>2, <3>1, <3>2, <3>3
  <2> QED
    BY <2>1, <2>2
<1> QED
  BY <1>5, <1>6 DEF r

\* Inserting what is not in the list keeps it without repetition.
LEMMA InsertList ==
  ASSUME NEW S, NEW s \in Seq(S), IsInjective(s), NEW x \in S, ~Contains(s, x),
         NEW i \in 1..Len(s) + 1
  PROVE  /\ InsertAt(s, i, x) \in Seq(S)
         /\ IsInjective(InsertAt(s, i, x))
         /\ \A y : Contains(InsertAt(s, i, x), y) <=> Contains(s, y) \/ y = x
<1> DEFINE r == InsertAt(s, i, x)
<1>5. r \in Seq(S) /\ Len(r) = Len(s) + 1
  BY InsertElements
<1>6. ASSUME NEW j \in 1..Len(s) + 1
      PROVE  r[j] = IF j < i THEN s[j] ELSE IF j = i THEN x ELSE s[j - 1]
  BY InsertElements
<1> HIDE DEF r
<1>7. \A j, k \in 1..Len(s) : s[j] = s[k] => j = k
  BY DEF IsInjective
<1>8. \A j \in 1..Len(s) : s[j] # x
  BY DEF Contains
<1>9. IsInjective(r)
  <2>1. ASSUME NEW j \in 1..Len(s) + 1, NEW k \in 1..Len(s) + 1, r[j] = r[k] PROVE j = k
    <3> DEFINE jj == IF j < i THEN j ELSE j - 1
               kk == IF k < i THEN k ELSE k - 1
    <3>1. j # i => jj \in 1..Len(s) /\ r[j] = s[jj]
      BY <1>6
    <3>2. k # i => kk \in 1..Len(s) /\ r[k] = s[kk]
      BY <1>6
    <3>3. r[i] = x
      BY <1>6
    <3>4. j # i /\ k # i => jj = kk
      BY <2>1, <3>1, <3>2, <1>7
    <3>5. j = i <=> k = i
      BY <2>1, <3>1, <3>2, <3>3, <1>8
    <3> QED
      BY <3>4, <3>5
  <2> QED
    BY <2>1, <1>5 DEF IsInjective
<1>10. ASSUME NEW y, Contains(r, y) PROVE Contains(s, y) \/ y = x
  <2>1. PICK j \in 1..Len(s) + 1 : r[j] = y
    BY <1>5, <1>10 DEF Contains
  <2>2. CASE j < i
    BY <2>1, <2>2, <1>6 DEF Contains
  <2>3. CASE j > i
    BY <2>1, <2>3, <1>6 DEF Contains
  <2> QED
    BY <2>1, <2>2, <2>3, <1>6
<1>11. Contains(r, x)
  BY <1>5, <1>6 DEF Contains
<1>12. ASSUME NEW y, Contains(s, y) PROVE Contains(r, y)
  <2>1. PICK j \in 1..Len(s) : s[j] = y
    BY <1>12 DEF Contains
  <2>2. CASE j < i
    BY <2>1, <2>2, <1>5, <1>6 DEF Contains
  <2>3. CASE j >= i
    <3>1. j + 1 \in 1..Len(s) + 1 /\ r[j + 1] = y
      BY <2>1, <2>3, <1>6
    <3> QED
      BY <3>1, <1>5 DEF Contains
  <2> QED
    BY <2>2, <2>3
<1> QED
  BY <1>5, <1>9, <1>10, <1>11, <1>12 DEF r

-----------------------------------------------------------------------------
\* A transfer on the flying list.
Listed(t) == Contains(flying, t)

USE EventsAssumption

LEMMA AreActors == Threads \subseteq Actors /\ Closers \subseteq Actors
  BY DEF Actors

USE AreActors DEF vars, threadVars, lockVars, flagVars, xferVars, timeVars, fdVars, kernelVars, Goto

\* PlaceOf is a place in the list or just behind it.
LEMMA LaterIndex ==
  ASSUME flying \in Seq(Threads), NEW d
  PROVE  PlaceOf(d) \in 1..Len(flying) + 1
<1> DEFINE I == {i \in 1..Len(flying) : Later(flying[i], d)}
<1>1. I \in SUBSET Nat /\ (I # {} => Min(I) \in I)
  <2>1. I \in SUBSET Nat
    OBVIOUS
  <2> HIDE DEF I
  <2> QED
    BY <2>1, MinInSet
<1>2. PlaceOf(d) = IF d = 0 \/ (IF I # {} THEN Min(I) ELSE 0) = 0 THEN Len(flying) + 1 ELSE Min(I)
  BY <1>1 DEF PlaceOf, SelectInSeq
<1> QED
  BY <1>1, <1>2

\* What handle_timeouts_locked picks is in the list and expired.
LEMMA ExpiredIndex ==
  ASSUME flying \in Seq(Threads), SelectInSeq(flying, Expired) # 0
  PROVE  /\ SelectInSeq(flying, Expired) \in 1..Len(flying)
         /\ Expired(flying[SelectInSeq(flying, Expired)])
<1> DEFINE I == {i \in 1..Len(flying) : Expired(flying[i])}
<1>1. I \in SUBSET Nat /\ (I # {} => Min(I) \in I)
  <2>1. I \in SUBSET Nat
    OBVIOUS
  <2> HIDE DEF I
  <2> QED
    BY <2>1, MinInSet
<1>2. SelectInSeq(flying, Expired) = IF I # {} THEN Min(I) ELSE 0
  BY DEF SelectInSeq
<1> QED
  BY <1>1, <1>2

\* The timer is armed for a deadline, or disarmed.
LEMMA NextTimeoutType ==
  ASSUME NEW list \in Seq(Threads), xfer \in [Threads -> TransferType]
  PROVE  NextTimeout(list) \in 0..LastInstant
<1> DEFINE I == {i \in 1..Len(list) : Pending(list[i])}
           k == SelectInSeq(list, Pending)
<1>1. I \in SUBSET Nat /\ (I # {} => Min(I) \in I)
  <2>1. I \in SUBSET Nat
    OBVIOUS
  <2> HIDE DEF I
  <2> QED
    BY <2>1, MinInSet
<1>2. k = IF I # {} THEN Min(I) ELSE 0
  BY DEF SelectInSeq
<1>3. k = 0 \/ k \in 1..Len(list)
  BY <1>1, <1>2
<1>4. NextTimeout(list) = IF k = 0 THEN 0 ELSE xfer[list[k]].deadline
  BY DEF NextTimeout
<1> HIDE DEF k
<1>5. k # 0 => list[k] \in Threads
  BY <1>3
<1> QED
  BY <1>4, <1>5 DEF TransferType

\* What SubmitList and Unlist do to the list.
LEMMA SubmitListed ==
  ASSUME flying \in Seq(Threads), IsInjective(flying), NEW t \in Threads, SubmitList(t), ~Listed(t)
  PROVE  /\ flying' \in Seq(Threads) /\ IsInjective(flying')
         /\ \A x : Listed(x)' <=> Listed(x) \/ x = t
<1> DEFINE d == IF Timeout[t] = 0 THEN 0 ELSE now + Timeout[t]
<1>1. flying' = InsertAt(flying, PlaceOf(d), t)
  BY DEF SubmitList
<1>2. flying \in Seq(Threads) /\ IsInjective(flying) /\ PlaceOf(d) \in 1..Len(flying) + 1
  BY LaterIndex
<1> QED
  BY <1>1, <1>2, InsertList DEF Listed

\* remove_from_flying_list takes one transfer off the list.
LEMMA Unlisted ==
  ASSUME flying \in Seq(Threads), IsInjective(flying), NEW x,
         flying' = RemoveFirst(flying, x)
  PROVE  /\ flying' \in Seq(Threads) /\ IsInjective(flying')
         /\ \A y : Listed(y)' <=> Listed(y) /\ y # x
  BY RemoveList DEF Listed

LEMMA ListKept ==
  ASSUME flying' = flying
  PROVE  \A x : Listed(x)' <=> Listed(x)
  BY DEF Listed

\* What handle_timeouts does: one transfer whose timeout is over, or the end.
LEMMA HandleTimeoutCases ==
  ASSUME flying \in Seq(Threads), NEW t, HandleTimeout(t)
  PROVE  /\ pc[t] = "expire"
         /\ \/ \E x \in Threads : Listed(x) /\ Expired(x) /\ TimeOut(t, x)
            \/ TimeoutsDone(t)
         /\ UNCHANGED <<status, until, reported, result, calls, eventsLock, lock, waiting,
              handlerActive, completed, flying, useTimer, now, fdVars, flagVars, gone, faults>>
<1> DEFINE due == SelectInSeq(flying, Expired)
<1>1. due # 0 => due \in 1..Len(flying) /\ Expired(flying[due])
  BY ExpiredIndex
<1>2. /\ pc[t] = "expire"
      /\ IF due # 0 THEN TimeOut(t, flying[due]) ELSE TimeoutsDone(t)
      /\ UNCHANGED <<status, until, reported, result, calls, eventsLock, lock, waiting,
           handlerActive, completed, flying, useTimer, now, fdVars, flagVars, gone, faults>>
  BY DEF HandleTimeout
<1> HIDE DEF due
<1>3. due # 0 => flying[due] \in Threads /\ Listed(flying[due])
  BY <1>1 DEF Listed, Contains
<1> QED
  BY <1>1, <1>2, <1>3

-----------------------------------------------------------------------------
\* Which actions change a variable.
LEMMA FlyingFrame ==
  ASSUME [Next]_vars
  PROVE  \/ UNCHANGED flying
         \/ \E t \in Threads : SubmitList(t) \/ SubmitFailed(t) \/ UnlistDone(t)
         \/ \E a \in Actors : CloseDrop(a)
<1>1. ASSUME NEW t \in Threads, CallStep(t) PROVE UNCHANGED flying \/ SubmitList(t) \/
       SubmitFailed(t)
  BY <1>1 DEF CallStep, Open, Call, SubmitUrb, MarkInFlight, Wait, Returned, CancelAndRetry,
     Result
<1>2. ASSUME NEW t \in Threads, WaitStep(t) PROVE UNCHANGED flying
  BY <1>2 DEF WaitStep, TryLock, TakeEvents, Waiter, Wake, LockTimeouts, HandleTimeout,
     MarkTimedOut
<1>3. ASSUME NEW t \in Threads, HandlerStep(t) PROVE UNCHANGED flying \/ UnlistDone(t)
  BY <1>3 DEF HandlerStep, Handler, Poll, EventTrigger, NextFd, Reap, Disconnect, Cancelled,
     Landed, Callback
<1>4. ASSUME NEW t \in Threads, Minute(t) \/ PollFails(t) \/ Complete(t) \/ Unplug(t) PROVE
       UNCHANGED flying
  BY <1>4 DEF Minute, PollFails, Complete, Unplug
<1>5. ASSUME NEW a \in Actors, CloseStep(a) PROVE UNCHANGED flying \/ CloseDrop(a)
  BY <1>5 DEF CloseStep, CloseBegin, CloseLock, CloseFd, CloseEnd, UnlockEvents, Broadcast
<1> QED
  BY <1>1, <1>2, <1>3, <1>4, <1>5 DEF Next, ChooseVictim, Interrupt, Tick, Terminated

LEMMA XferFrame ==
  ASSUME [Next]_vars
  PROVE  \/ UNCHANGED xfer
         \/ \E t \in Threads : Call(t) \/ SubmitList(t) \/ MarkInFlight(t) \/
              SubmitFailed(t) \/ Returned(t) \/ CancelAndRetry(t) \/ Result(t) \/
              HandleTimeout(t) \/ MarkTimedOut(t) \/ Landed(t)
         \/ \E a \in Actors : CloseDrop(a)
<1>1. ASSUME NEW t \in Threads, CallStep(t) PROVE UNCHANGED xfer \/ Call(t) \/ SubmitList(t)
       \/ MarkInFlight(t) \/ SubmitFailed(t) \/ Returned(t) \/ CancelAndRetry(t) \/
       Result(t)
  BY <1>1 DEF CallStep, Open, SubmitUrb, Wait
<1>2. ASSUME NEW t \in Threads, WaitStep(t) PROVE UNCHANGED xfer \/ HandleTimeout(t) \/
       MarkTimedOut(t)
  BY <1>2 DEF WaitStep, TryLock, TakeEvents, Waiter, Wake, LockTimeouts
<1>3. ASSUME NEW t \in Threads, HandlerStep(t) PROVE UNCHANGED xfer \/ Landed(t)
  BY <1>3 DEF HandlerStep, Handler, Poll, EventTrigger, NextFd, Reap, Disconnect, Cancelled,
     UnlistDone, Callback
<1>4. ASSUME NEW t \in Threads, Minute(t) \/ PollFails(t) \/ Complete(t) \/ Unplug(t) PROVE
       UNCHANGED xfer
  BY <1>4 DEF Minute, PollFails, Complete, Unplug
<1>5. ASSUME NEW a \in Actors, CloseStep(a) PROVE UNCHANGED xfer \/ CloseDrop(a)
  BY <1>5 DEF CloseStep, CloseBegin, CloseLock, CloseFd, CloseEnd, UnlockEvents, Broadcast
<1> QED
  BY <1>1, <1>2, <1>3, <1>4, <1>5 DEF Next, ChooseVictim, Interrupt, Tick, Terminated

LEMMA CompletedFrame ==
  ASSUME [Next]_vars
  PROVE  \/ UNCHANGED completed
         \/ \E t \in Threads : Returned(t) \/ Result(t) \/ Callback(t)
<1>1. ASSUME NEW t \in Threads, CallStep(t) PROVE UNCHANGED completed \/ Returned(t) \/
       Result(t)
  BY <1>1 DEF CallStep, Open, Call, SubmitList, SubmitUrb, MarkInFlight, SubmitFailed, Wait,
     CancelAndRetry
<1>2. ASSUME NEW t \in Threads, WaitStep(t) PROVE UNCHANGED completed
  BY <1>2 DEF WaitStep, TryLock, TakeEvents, Waiter, Wake, LockTimeouts, HandleTimeout,
     MarkTimedOut, TimeOut, TimeoutsDone
<1>3. ASSUME NEW t \in Threads, HandlerStep(t) PROVE UNCHANGED completed \/ Callback(t)
  BY <1>3 DEF HandlerStep, Handler, Poll, EventTrigger, NextFd, Reap, Disconnect, Cancelled,
     UnlistDone, Landed
<1>4. ASSUME NEW t \in Threads, Minute(t) \/ PollFails(t) \/ Complete(t) \/ Unplug(t) PROVE
       UNCHANGED completed
  BY <1>4 DEF Minute, PollFails, Complete, Unplug
<1>5. ASSUME NEW a \in Actors, CloseStep(a) PROVE UNCHANGED completed
  BY <1>5 DEF CloseStep, CloseBegin, CloseLock, CloseDrop, CloseFd, CloseEnd, UnlockEvents,
     Broadcast
<1> QED
  BY <1>1, <1>2, <1>3, <1>4, <1>5 DEF Next, ChooseVictim, Interrupt, Tick, Terminated

LEMMA UrbFrame ==
  ASSUME [Next]_vars
  PROVE  \/ UNCHANGED urb
         \/ \E t \in Threads : SubmitUrb(t) \/ CancelAndRetry(t) \/ HandleTimeout(t) \/
              Reap(t) \/ Disconnect(t) \/ Complete(t) \/ Unplug(t)
         \/ \E a \in Actors : CloseFd(a)
<1>1. ASSUME NEW t \in Threads, CallStep(t) PROVE UNCHANGED urb \/ SubmitUrb(t) \/
       CancelAndRetry(t)
  BY <1>1 DEF CallStep, Open, Call, SubmitList, MarkInFlight, SubmitFailed, Wait, Returned,
     Result
<1>2. ASSUME NEW t \in Threads, WaitStep(t) PROVE UNCHANGED urb \/ HandleTimeout(t)
  BY <1>2 DEF WaitStep, TryLock, TakeEvents, Waiter, Wake, LockTimeouts, MarkTimedOut
<1>3. ASSUME NEW t \in Threads, HandlerStep(t) PROVE UNCHANGED urb \/ Reap(t) \/
       Disconnect(t)
  BY <1>3 DEF HandlerStep, Handler, Poll, EventTrigger, NextFd, Cancelled, UnlistDone,
     Landed, Callback
<1>4. ASSUME NEW t \in Threads, Minute(t) \/ PollFails(t) \/ Complete(t) \/ Unplug(t) PROVE
       UNCHANGED urb \/ Complete(t) \/ Unplug(t)
  BY <1>4 DEF Minute, PollFails
<1>5. ASSUME NEW a \in Actors, CloseStep(a) PROVE UNCHANGED urb \/ CloseFd(a)
  BY <1>5 DEF CloseStep, CloseBegin, CloseLock, CloseDrop, CloseEnd, UnlockEvents, Broadcast
<1> QED
  BY <1>1, <1>2, <1>3, <1>4, <1>5 DEF Next, ChooseVictim, Interrupt, Tick, Terminated

LEMMA ReportedFrame ==
  ASSUME [Next]_vars
  PROVE  \/ UNCHANGED reported
         \/ \E t \in Threads : Poll(t) \/ NextFd(t) \/ Disconnect(t)
         \/ \E a \in Actors : UnlockEvents(a)
<1>1. ASSUME NEW t \in Threads, CallStep(t) PROVE UNCHANGED reported
  BY <1>1 DEF CallStep, Open, Call, SubmitList, SubmitUrb, MarkInFlight, SubmitFailed, Wait,
     Returned, CancelAndRetry, Result
<1>2. ASSUME NEW t \in Threads, WaitStep(t) PROVE UNCHANGED reported
  BY <1>2 DEF WaitStep, TryLock, TakeEvents, Waiter, Wake, LockTimeouts, HandleTimeout,
     MarkTimedOut, TimeOut, TimeoutsDone
<1>3. ASSUME NEW t \in Threads, HandlerStep(t) PROVE UNCHANGED reported \/ Poll(t) \/
       NextFd(t) \/ Disconnect(t)
  BY <1>3 DEF HandlerStep, Handler, EventTrigger, Reap, Cancelled, UnlistDone, Landed,
     Callback
<1>4. ASSUME NEW t \in Threads, Minute(t) \/ PollFails(t) \/ Complete(t) \/ Unplug(t) PROVE
       UNCHANGED reported
  BY <1>4 DEF Minute, PollFails, Complete, Unplug
<1>5. ASSUME NEW a \in Actors, CloseStep(a) PROVE UNCHANGED reported \/ UnlockEvents(a)
  BY <1>5 DEF CloseStep, CloseBegin, CloseLock, CloseDrop, CloseFd, CloseEnd, Broadcast
<1> QED
  BY <1>1, <1>2, <1>3, <1>4, <1>5 DEF Next, ChooseVictim, Interrupt, Tick, Terminated

LEMMA FdFrame ==
  ASSUME [Next]_vars
  PROVE  \/ UNCHANGED <<sources, polled, fdOpen>>
         \/ \E t \in Threads : Open(t) \/ Handler(t) \/ NextFd(t)
         \/ \E a \in Actors : CloseFd(a)
<1>1. ASSUME NEW t \in Threads, CallStep(t) PROVE UNCHANGED <<sources, polled, fdOpen>> \/
       Open(t)
  BY <1>1 DEF CallStep, Call, SubmitList, SubmitUrb, MarkInFlight, SubmitFailed, Wait,
     Returned, CancelAndRetry, Result
<1>2. ASSUME NEW t \in Threads, WaitStep(t) PROVE UNCHANGED <<sources, polled, fdOpen>>
  BY <1>2 DEF WaitStep, TryLock, TakeEvents, Waiter, Wake, LockTimeouts, HandleTimeout,
     MarkTimedOut, TimeOut, TimeoutsDone
<1>3. ASSUME NEW t \in Threads, HandlerStep(t) PROVE UNCHANGED <<sources, polled, fdOpen>>
       \/ Handler(t) \/ NextFd(t)
  BY <1>3 DEF HandlerStep, Poll, EventTrigger, Reap, Disconnect, Cancelled, UnlistDone,
     Landed, Callback
<1>4. ASSUME NEW t \in Threads, Minute(t) \/ PollFails(t) \/ Complete(t) \/ Unplug(t) PROVE
       UNCHANGED <<sources, polled, fdOpen>>
  BY <1>4 DEF Minute, PollFails, Complete, Unplug
<1>5. ASSUME NEW a \in Actors, CloseStep(a) PROVE UNCHANGED <<sources, polled, fdOpen>> \/
       CloseFd(a)
  BY <1>5 DEF CloseStep, CloseBegin, CloseLock, CloseDrop, CloseEnd, UnlockEvents, Broadcast
<1> QED
  BY <1>1, <1>2, <1>3, <1>4, <1>5 DEF Next, ChooseVictim, Interrupt, Tick, Terminated

LEMMA GoneFrame ==
  ASSUME [Next]_vars
  PROVE  \/ UNCHANGED gone
         \/ \E t \in Threads : Unplug(t)
         \/ \E a \in Actors : CloseFd(a)
<1>1. ASSUME NEW t \in Threads, CallStep(t) PROVE UNCHANGED gone
  BY <1>1 DEF CallStep, Open, Call, SubmitList, SubmitUrb, MarkInFlight, SubmitFailed, Wait,
     Returned, CancelAndRetry, Result
<1>2. ASSUME NEW t \in Threads, WaitStep(t) PROVE UNCHANGED gone
  BY <1>2 DEF WaitStep, TryLock, TakeEvents, Waiter, Wake, LockTimeouts, HandleTimeout,
     MarkTimedOut, TimeOut, TimeoutsDone
<1>3. ASSUME NEW t \in Threads, HandlerStep(t) PROVE UNCHANGED gone
  BY <1>3 DEF HandlerStep, Handler, Poll, EventTrigger, NextFd, Reap, Disconnect, Cancelled,
     UnlistDone, Landed, Callback
<1>4. ASSUME NEW t \in Threads, Minute(t) \/ PollFails(t) \/ Complete(t) \/ Unplug(t) PROVE
       UNCHANGED gone \/ Unplug(t)
  BY <1>4 DEF Minute, PollFails, Complete
<1>5. ASSUME NEW a \in Actors, CloseStep(a) PROVE UNCHANGED gone \/ CloseFd(a)
  BY <1>5 DEF CloseStep, CloseBegin, CloseLock, CloseDrop, CloseEnd, UnlockEvents, Broadcast
<1> QED
  BY <1>1, <1>2, <1>3, <1>4, <1>5 DEF Next, ChooseVictim, Interrupt, Tick, Terminated

LEMMA TimeFrame ==
  ASSUME [Next]_vars
  PROVE  \/ UNCHANGED <<timer, now>>
         \/ \E t \in Threads : SubmitList(t) \/ SubmitFailed(t) \/ HandleTimeout(t) \/
              UnlistDone(t)
         \/ Tick
<1>1. ASSUME NEW t \in Threads, CallStep(t) PROVE UNCHANGED <<timer, now>> \/ SubmitList(t)
       \/ SubmitFailed(t)
  BY <1>1 DEF CallStep, Open, Call, SubmitUrb, MarkInFlight, Wait, Returned, CancelAndRetry,
     Result
<1>2. ASSUME NEW t \in Threads, WaitStep(t) PROVE UNCHANGED <<timer, now>> \/
       HandleTimeout(t)
  BY <1>2 DEF WaitStep, TryLock, TakeEvents, Waiter, Wake, LockTimeouts, MarkTimedOut
<1>3. ASSUME NEW t \in Threads, HandlerStep(t) PROVE UNCHANGED <<timer, now>> \/
       UnlistDone(t)
  BY <1>3 DEF HandlerStep, Handler, Poll, EventTrigger, NextFd, Reap, Disconnect, Cancelled,
     Landed, Callback
<1>4. ASSUME NEW t \in Threads, Minute(t) \/ PollFails(t) \/ Complete(t) \/ Unplug(t) PROVE
       UNCHANGED <<timer, now>>
  BY <1>4 DEF Minute, PollFails, Complete, Unplug
<1>5. ASSUME NEW a \in Actors, CloseStep(a) PROVE UNCHANGED <<timer, now>>
  BY <1>5 DEF CloseStep, CloseBegin, CloseLock, CloseDrop, CloseFd, CloseEnd, UnlockEvents,
     Broadcast
<1> QED
  BY <1>1, <1>2, <1>3, <1>4, <1>5 DEF Next, ChooseVictim, Interrupt, Terminated

LEMMA UseTimerFrame ==
  ASSUME [Next]_vars
  PROVE  UNCHANGED useTimer
<1>1. ASSUME NEW t \in Threads, CallStep(t) PROVE UNCHANGED useTimer
  BY <1>1 DEF CallStep, Open, Call, SubmitList, SubmitUrb, MarkInFlight, SubmitFailed, Wait,
     Returned, CancelAndRetry, Result
<1>2. ASSUME NEW t \in Threads, WaitStep(t) PROVE UNCHANGED useTimer
  BY <1>2 DEF WaitStep, TryLock, TakeEvents, Waiter, Wake, LockTimeouts, HandleTimeout,
     MarkTimedOut
<1>3. ASSUME NEW t \in Threads, HandlerStep(t) PROVE UNCHANGED useTimer
  BY <1>3 DEF HandlerStep, Handler, Poll, EventTrigger, NextFd, Reap, Disconnect, Cancelled,
     UnlistDone, Landed, Callback
<1>4. ASSUME NEW t \in Threads, Minute(t) \/ PollFails(t) \/ Complete(t) \/ Unplug(t)
      PROVE  UNCHANGED useTimer
  BY <1>4 DEF Minute, PollFails, Complete, Unplug
<1>5. ASSUME NEW a \in Actors, CloseStep(a) PROVE UNCHANGED useTimer
  BY <1>5 DEF CloseStep, CloseBegin, CloseLock, CloseDrop, CloseFd, CloseEnd, UnlockEvents,
     Broadcast
<1> QED
  BY <1>1, <1>2, <1>3, <1>4, <1>5 DEF Next, ChooseVictim, Interrupt, Tick, Terminated

LEMMA ResultFrame ==
  ASSUME [Next]_vars
  PROVE  \/ UNCHANGED result
         \/ \E t \in Threads : Call(t) \/ SubmitUrb(t) \/ Result(t)
<1>1. ASSUME NEW t \in Threads, CallStep(t)
      PROVE  UNCHANGED result \/ Call(t) \/ SubmitUrb(t) \/ Result(t)
  BY <1>1 DEF CallStep, Open, SubmitList, MarkInFlight, SubmitFailed, Wait, Returned,
     CancelAndRetry
<1>2. ASSUME NEW t \in Threads, WaitStep(t) PROVE UNCHANGED result
  BY <1>2 DEF WaitStep, TryLock, TakeEvents, Waiter, Wake, LockTimeouts, HandleTimeout,
     MarkTimedOut
<1>3. ASSUME NEW t \in Threads, HandlerStep(t) PROVE UNCHANGED result
  BY <1>3 DEF HandlerStep, Handler, Poll, EventTrigger, NextFd, Reap, Disconnect, Cancelled,
     UnlistDone, Landed, Callback
<1>4. ASSUME NEW t \in Threads, Minute(t) \/ PollFails(t) \/ Complete(t) \/ Unplug(t)
      PROVE  UNCHANGED result
  BY <1>4 DEF Minute, PollFails, Complete, Unplug
<1>5. ASSUME NEW a \in Actors, CloseStep(a) PROVE UNCHANGED result
  BY <1>5 DEF CloseStep, CloseBegin, CloseLock, CloseDrop, CloseFd, CloseEnd, UnlockEvents,
     Broadcast
<1> QED
  BY <1>1, <1>2, <1>3, <1>4, <1>5 DEF Next, ChooseVictim, Interrupt, Tick, Terminated

\* Disturbances are only counted up.
LEMMA FaultsFrame ==
  ASSUME [Next]_vars
  PROVE  UNCHANGED faults \/ \E d \in Disturbances : faults' = faults + Cost[d]
<1>1. ASSUME NEW t \in Threads, CallStep(t) PROVE UNCHANGED faults \/ \E d \in Disturbances : faults' = faults + Cost[d]
  BY <1>1 DEF CallStep, Open, Call, SubmitList, SubmitUrb, MarkInFlight, SubmitFailed, Wait,
     Returned, CancelAndRetry, Result, Disturbance
<1>2. ASSUME NEW t \in Threads, WaitStep(t) PROVE UNCHANGED faults
  BY <1>2 DEF WaitStep, TryLock, TakeEvents, Waiter, Wake, LockTimeouts, HandleTimeout,
     MarkTimedOut
<1>3. ASSUME NEW t \in Threads, HandlerStep(t) PROVE UNCHANGED faults
  BY <1>3 DEF HandlerStep, Handler, Poll, EventTrigger, NextFd, Reap, Disconnect, Cancelled,
     UnlistDone, Landed, Callback
<1>4. ASSUME NEW t \in Threads, Minute(t) \/ PollFails(t) \/ Complete(t) \/ Unplug(t)
      PROVE  UNCHANGED faults \/ \E d \in Disturbances : faults' = faults + Cost[d]
  BY <1>4 DEF Minute, PollFails, Complete, Unplug, Disturbance
<1>5. ASSUME NEW a \in Actors, CloseStep(a) PROVE UNCHANGED faults
  BY <1>5 DEF CloseStep, CloseBegin, CloseLock, CloseDrop, CloseFd, CloseEnd, UnlockEvents,
     Broadcast
<1> QED
  BY <1>1, <1>2, <1>3, <1>4, <1>5 DEF Next, ChooseVictim, Interrupt, Tick, Terminated,
     Disturbance

LEMMA EventsLockFrame ==
  ASSUME [Next]_vars
  PROVE  \/ UNCHANGED <<eventsLock, handlerActive>>
         \/ \E t \in Threads : TakeEvents(t)
         \/ \E a \in Actors : CloseLock(a) \/ UnlockEvents(a)
<1>1. ASSUME NEW t \in Threads, CallStep(t) PROVE UNCHANGED <<eventsLock, handlerActive>>
  BY <1>1 DEF CallStep, Open, Call, SubmitList, SubmitUrb, MarkInFlight, SubmitFailed, Wait,
     Returned, CancelAndRetry, Result
<1>2. ASSUME NEW t \in Threads, WaitStep(t) PROVE UNCHANGED <<eventsLock, handlerActive>> \/
       TakeEvents(t)
  BY <1>2 DEF WaitStep, TryLock, Waiter, Wake, LockTimeouts, HandleTimeout, MarkTimedOut,
     TimeOut, TimeoutsDone
<1>3. ASSUME NEW t \in Threads, HandlerStep(t) PROVE UNCHANGED <<eventsLock, handlerActive>>
  BY <1>3 DEF HandlerStep, Handler, Poll, EventTrigger, NextFd, Reap, Disconnect, Cancelled,
     UnlistDone, Landed, Callback
<1>4. ASSUME NEW t \in Threads, Minute(t) \/ PollFails(t) \/ Complete(t) \/ Unplug(t) PROVE
       UNCHANGED <<eventsLock, handlerActive>>
  BY <1>4 DEF Minute, PollFails, Complete, Unplug
<1>5. ASSUME NEW a \in Actors, CloseStep(a) PROVE UNCHANGED <<eventsLock, handlerActive>> \/
       CloseLock(a) \/ UnlockEvents(a)
  BY <1>5 DEF CloseStep, CloseBegin, CloseDrop, CloseFd, CloseEnd, Broadcast
<1> QED
  BY <1>1, <1>2, <1>3, <1>4, <1>5 DEF Next, ChooseVictim, Interrupt, Tick, Terminated

LEMMA WaitingFrame ==
  ASSUME [Next]_vars
  PROVE  \/ UNCHANGED waiting
         \/ \E t \in Threads : Waiter(t) \/ Wake(t) \/ Minute(t)
         \/ \E a \in Actors : Broadcast(a)
<1>1. ASSUME NEW t \in Threads, CallStep(t) PROVE UNCHANGED waiting
  BY <1>1 DEF CallStep, Open, Call, SubmitList, SubmitUrb, MarkInFlight, SubmitFailed, Wait,
     Returned, CancelAndRetry, Result
<1>2. ASSUME NEW t \in Threads, WaitStep(t) PROVE UNCHANGED waiting \/ Waiter(t) \/ Wake(t)
  BY <1>2 DEF WaitStep, TryLock, TakeEvents, LockTimeouts, HandleTimeout, MarkTimedOut,
     TimeOut, TimeoutsDone
<1>3. ASSUME NEW t \in Threads, HandlerStep(t) PROVE UNCHANGED waiting
  BY <1>3 DEF HandlerStep, Handler, Poll, EventTrigger, NextFd, Reap, Disconnect, Cancelled,
     UnlistDone, Landed, Callback
<1>4. ASSUME NEW t \in Threads, Minute(t) \/ PollFails(t) \/ Complete(t) \/ Unplug(t) PROVE
       UNCHANGED waiting \/ Minute(t)
  BY <1>4 DEF PollFails, Complete, Unplug
<1>5. ASSUME NEW a \in Actors, CloseStep(a) PROVE UNCHANGED waiting \/ Broadcast(a)
  BY <1>5 DEF CloseStep, CloseBegin, CloseLock, CloseDrop, CloseFd, CloseEnd, UnlockEvents
<1> QED
  BY <1>1, <1>2, <1>3, <1>4, <1>5 DEF Next, ChooseVictim, Interrupt, Tick, Terminated

LEMMA FlagFrame ==
  ASSUME [Next]_vars
  PROVE  \/ UNCHANGED <<eventFlags, event, deviceClose>>
         \/ \E t \in Threads : Open(t) \/ Handler(t) \/ EventTrigger(t) \/ NextFd(t)
         \/ \E a \in Actors : CloseBegin(a) \/ CloseFd(a) \/ CloseEnd(a)
         \/ Interrupt
<1>1. ASSUME NEW t \in Threads, CallStep(t) PROVE UNCHANGED <<eventFlags, event,
       deviceClose>> \/ Open(t)
  BY <1>1 DEF CallStep, Call, SubmitList, SubmitUrb, MarkInFlight, SubmitFailed, Wait,
     Returned, CancelAndRetry, Result
<1>2. ASSUME NEW t \in Threads, WaitStep(t) PROVE UNCHANGED <<eventFlags, event,
       deviceClose>>
  BY <1>2 DEF WaitStep, TryLock, TakeEvents, Waiter, Wake, LockTimeouts, HandleTimeout,
     MarkTimedOut, TimeOut, TimeoutsDone
<1>3. ASSUME NEW t \in Threads, HandlerStep(t) PROVE UNCHANGED <<eventFlags, event,
       deviceClose>> \/ Handler(t) \/ EventTrigger(t) \/ NextFd(t)
  BY <1>3 DEF HandlerStep, Poll, Reap, Disconnect, Cancelled, UnlistDone, Landed, Callback
<1>4. ASSUME NEW t \in Threads, Minute(t) \/ PollFails(t) \/ Complete(t) \/ Unplug(t) PROVE
       UNCHANGED <<eventFlags, event, deviceClose>>
  BY <1>4 DEF Minute, PollFails, Complete, Unplug
<1>5. ASSUME NEW a \in Actors, CloseStep(a) PROVE UNCHANGED <<eventFlags, event,
       deviceClose>> \/ CloseBegin(a) \/ CloseFd(a) \/ CloseEnd(a)
  BY <1>5 DEF CloseStep, CloseLock, CloseDrop, UnlockEvents, Broadcast
<1> QED
  BY <1>1, <1>2, <1>3, <1>4, <1>5 DEF Next, ChooseVictim, Tick, Terminated

LEMMA OnFrame ==
  ASSUME [Next]_vars
  PROVE  \/ UNCHANGED on
         \/ \E t \in Threads : Call(t) \/ HandleTimeout(t) \/ MarkTimedOut(t) \/ NextFd(t)
              \/ Reap(t) \/ Callback(t)
         \/ \E a \in Actors : UnlockEvents(a)
         \/ \E c \in Closers : ChooseVictim(c)
<1>1. ASSUME NEW t \in Threads, CallStep(t) PROVE UNCHANGED on \/ Call(t)
  BY <1>1 DEF CallStep, Open, SubmitList, SubmitUrb, MarkInFlight, SubmitFailed, Wait,
     Returned, CancelAndRetry, Result
<1>2. ASSUME NEW t \in Threads, WaitStep(t) PROVE UNCHANGED on \/ HandleTimeout(t) \/
       MarkTimedOut(t)
  BY <1>2 DEF WaitStep, TryLock, TakeEvents, Waiter, Wake, LockTimeouts
<1>3. ASSUME NEW t \in Threads, HandlerStep(t) PROVE UNCHANGED on \/ NextFd(t) \/ Reap(t) \/
       Callback(t)
  BY <1>3 DEF HandlerStep, Handler, Poll, EventTrigger, Disconnect, Cancelled, UnlistDone,
     Landed
<1>4. ASSUME NEW t \in Threads, Minute(t) \/ PollFails(t) \/ Complete(t) \/ Unplug(t) PROVE
       UNCHANGED on
  BY <1>4 DEF Minute, PollFails, Complete, Unplug
<1>5. ASSUME NEW a \in Actors, CloseStep(a) PROVE UNCHANGED on \/ UnlockEvents(a)
  BY <1>5 DEF CloseStep, CloseBegin, CloseLock, CloseDrop, CloseFd, CloseEnd, Broadcast
<1> QED
  BY <1>1, <1>2, <1>3, <1>4, <1>5 DEF Next, Interrupt, Tick, Terminated

LEMMA StatusFrame ==
  ASSUME [Next]_vars
  PROVE  \/ UNCHANGED status
         \/ \E t \in Threads : Handler(t) \/ PollFails(t) \/ Reap(t) \/ Disconnect(t) \/
              Cancelled(t) \/ Callback(t)
         \/ \E a \in Actors : Broadcast(a) \/ CloseBegin(a)
<1>1. ASSUME NEW t \in Threads, CallStep(t) PROVE UNCHANGED status
  BY <1>1 DEF CallStep, Open, Call, SubmitList, SubmitUrb, MarkInFlight, SubmitFailed, Wait,
     Returned, CancelAndRetry, Result
<1>2. ASSUME NEW t \in Threads, WaitStep(t) PROVE UNCHANGED status
  BY <1>2 DEF WaitStep, TryLock, TakeEvents, Waiter, Wake, LockTimeouts, HandleTimeout,
     MarkTimedOut, TimeOut, TimeoutsDone
<1>3. ASSUME NEW t \in Threads, HandlerStep(t) PROVE UNCHANGED status \/ Handler(t) \/
       Reap(t) \/ Disconnect(t) \/ Cancelled(t) \/ Callback(t)
  BY <1>3 DEF HandlerStep, Poll, EventTrigger, NextFd, UnlistDone, Landed
<1>4. ASSUME NEW t \in Threads, Minute(t) \/ PollFails(t) \/ Complete(t) \/ Unplug(t) PROVE
       UNCHANGED status \/ PollFails(t)
  BY <1>4 DEF Minute, Complete, Unplug
<1>5. ASSUME NEW a \in Actors, CloseStep(a) PROVE UNCHANGED status \/ CloseBegin(a) \/
       Broadcast(a)
  BY <1>5 DEF CloseStep, CloseLock, CloseDrop, CloseFd, CloseEnd, UnlockEvents
<1> QED
  BY <1>1, <1>2, <1>3, <1>4, <1>5 DEF Next, ChooseVictim, Interrupt, Tick, Terminated

LEMMA AfterFrame ==
  ASSUME [Next]_vars
  PROVE  \/ UNCHANGED after
         \/ \E t \in Threads : HandleTimeout(t) \/ Poll(t) \/ EventTrigger(t) \/ Minute(t)
         \/ \E a \in Actors : UnlockEvents(a)
<1>1. ASSUME NEW t \in Threads, CallStep(t) PROVE UNCHANGED after
  BY <1>1 DEF CallStep, Open, Call, SubmitList, SubmitUrb, MarkInFlight, SubmitFailed, Wait,
     Returned, CancelAndRetry, Result
<1>2. ASSUME NEW t \in Threads, WaitStep(t) PROVE UNCHANGED after \/ HandleTimeout(t)
  BY <1>2 DEF WaitStep, TryLock, TakeEvents, Waiter, Wake, LockTimeouts, MarkTimedOut
<1>3. ASSUME NEW t \in Threads, HandlerStep(t) PROVE UNCHANGED after \/ Poll(t) \/
       EventTrigger(t)
  BY <1>3 DEF HandlerStep, Handler, NextFd, Reap, Disconnect, Cancelled, UnlistDone, Landed,
     Callback
<1>4. ASSUME NEW t \in Threads, Minute(t) \/ PollFails(t) \/ Complete(t) \/ Unplug(t) PROVE
       UNCHANGED after \/ Minute(t)
  BY <1>4 DEF PollFails, Complete, Unplug
<1>5. ASSUME NEW a \in Actors, CloseStep(a) PROVE UNCHANGED after \/ UnlockEvents(a)
  BY <1>5 DEF CloseStep, CloseBegin, CloseLock, CloseDrop, CloseFd, CloseEnd, Broadcast
<1> QED
  BY <1>1, <1>2, <1>3, <1>4, <1>5 DEF Next, ChooseVictim, Interrupt, Tick, Terminated

-----------------------------------------------------------------------------
\* Who holds which lock, told from where each thread is: the events lock from
\* the moment it is taken to UnlockEvents, also through handle_timeouts when that
\* returns into handle_events; the flying lock in handle_timeouts; the lock of a
\* transfer in its submission.
Closing == {"closeLock", "drop", "closeFd", "closeEnd"}
Expiring == {"timeouts", "expire", "expired"}
LockedLabels == {"handler", "poll", "triggered", "drop", "closeFd", "closeEnd", "unlock"} \cup InBackend
CloserLabels == {"idle", "done", "close", "unlock", "broadcast"} \cup Closing
HasLock(a) == pc[a] \in LockedLabels \/ after[a] # "returned"

Labels == LockedLabels \cup CloserLabels \cup Expiring \cup
  {"open", "call", "submit", "urb", "mark", "submitFailed", "wait", "returned", "error",
   "result", "tryLock", "takeEvents", "waiter", "asleep"}
Statuses == {"COMPLETED", "TIMED_OUT", "STALL", "NO_DEVICE", "CANCELLED"}

ControlTypes ==
  /\ pc \in [Actors -> Labels]
  /\ status \in [Actors -> Statuses \cup {"none", "FAILED", "CLOSING"}]
  /\ after \in [Actors -> {"returned", "unlock", "fds"}]
  /\ on \in [Actors -> Threads \cup {NoOne}]
  /\ flyingLock \in Actors \cup {NoOne} /\ eventsLock \in Actors \cup {NoOne}
  /\ lock \in [Threads -> Threads \cup {NoOne}]
  /\ handlerActive \in BOOLEAN

LockInv ==
  /\ \A a \in Actors : HasLock(a) => eventsLock = a
  /\ \A a \in Actors : after[a] # "returned" => pc[a] \in Expiring
  /\ \A a \in Actors : pc[a] \in {"expire", "expired"} => flyingLock = a
  /\ \A t \in Threads : lock[t] = IF pc[t] \in {"urb", "mark"} THEN t ELSE NoOne
  /\ handlerActive <=> eventsLock # NoOne

\* A close keeps its status up to the broadcast; closers do nothing else.
CloseInv ==
  /\ \A c \in Closers : pc[c] \in CloserLabels
  /\ \A a \in Actors : pc[a] \in Closing => status[a] = "CLOSING"
  /\ \A c \in Closers : pc[c] \in {"unlock", "broadcast"} => status[c] = "CLOSING"
  /\ \A a \in Actors : status[a] = "CLOSING" => pc[a] \in Closing \cup {"unlock", "broadcast"}
  /\ \A t \in Threads : pc[t] \in Closing \cup {"close"} => on[t] = t

\* device_close counts the closes under way, and the flags say so.
FlagInv ==
  /\ eventFlags \subseteq {"SOURCES_MODIFIED", "DEVICE_CLOSE", "USER_INTERRUPT"}
  /\ deviceClose = Cardinality({a \in Actors : pc[a] \in Closing})
  /\ deviceClose > 0 => "DEVICE_CLOSE" \in eventFlags
  /\ event <=> eventFlags # {}
  /\ waiting \subseteq {t \in Threads : pc[t] = "asleep"}

\* A waiter that has nothing to wait for is about to be woken.
WakeInv ==
  \A t \in waiting : completed[t] \/ ~EventHandlerActive =>
    \E a \in Actors : eventsLock = a \/ pc[a] = "broadcast"

-----------------------------------------------------------------------------
\* The life of a transfer, told from where its owner is: it exists between Call
\* and Result, is listed from SubmitList on, and leaves the list before it completes.
Submitting == {"submit", "urb", "mark", "submitFailed"}
Resting(t) == pc[t] \in {"open", "call", "close", "done"} \cup Closing \/ status[t] = "CLOSING"
TornDown(t) == \E a \in Actors : pc[a] = "closeFd" /\ on[a] = t

OwnerInv(t) ==
  /\ xfer[t].alive <=> ~Resting(t)
  /\ pc[t] \in Submitting => xfer[t].handle /\ ~xfer[t].inFlight /\ ~completed[t]
  /\ pc[t] \in Submitting \ {"submit"} => Listed(t)
  /\ pc[t] = "result" => completed[t]
  /\ Listed(t) => /\ xfer[t].alive /\ xfer[t].handle /\ ~completed[t]
                  /\ pc[t] \in Submitting \/ xfer[t].inFlight
                  /\ pc[t] # "submit"
  /\ completed[t] => xfer[t].alive /\ (xfer[t].handle \/ pc[t] \in {"wait", "result"})
  /\ urb[t] # "none" => TornDown(t) \/ (Listed(t) /\ pc[t] \notin {"urb", "submitFailed"})

\* Whoever touches a transfer finds it whole: not being submitted, not completed,
\* its handle not closed; and its URB is back from the kernel.
TouchInv(a, t) ==
  on[a] = t /\ pc[a] \in Touches =>
    /\ xfer[t].alive /\ xfer[t].handle /\ ~completed[t] /\ pc[t] \notin Submitting
    /\ Listed(t) <=> pc[a] \in {"cancelled", "unlist", "expired"}
    /\ pc[a] # "expired" => urb[t] = "none"

TransferInv ==
  /\ \A t \in Threads : OwnerInv(t)
  /\ \A a \in Actors, t \in Threads : TouchInv(a, t)
  /\ \A c \in Closers, t \in Threads : on[c] = t => pc[t] \notin Submitting

-----------------------------------------------------------------------------
\* Descriptors: nobody closes one between poll() and the end of the handling, and
\* the poll set is out of date only while a flag says so.
Reports(a) ==
  /\ reported[a].ready \subseteq fdOpen /\ reported[a].error \subseteq gone
  /\ reported[a] # Nothing =>
       pc[a] \in InBackend \cup {"triggered", "unlock"} \/ after[a] = "fds"
  /\ pc[a] \in InBackend \ {"fds"} => on[a] \in reported[a].ready

FdInv ==
  /\ sources \subseteq fdOpen /\ fdOpen \ gone \subseteq sources
  /\ \A a \in Actors : Reports(a)
  /\ "SOURCES_MODIFIED" \notin eventFlags => polled \subseteq sources
  /\ \A a \in Actors : pc[a] = "poll" => polled \subseteq fdOpen

\* An unplugged device has someone who ends its transfer.
GoneInv ==
  \A t \in gone \ sources : urb[t] \in {"lost", "discarded"} =>
    \E a \in Actors : on[a] = t /\ pc[a] \in {"disconnect", "closeFd"}

\* handle_timeouts works on a transfer.
ExpiredInv == \A a \in Actors : pc[a] = "expired" => on[a] \in Threads

\* Types of the rest, and what keeps the deadlines within the bound of the clock.
DataTypes ==
  /\ flying \in Seq(Threads) /\ IsInjective(flying)
  /\ xfer \in [Threads -> TransferType] /\ completed \in [Threads -> BOOLEAN]
  /\ urb \in [Threads -> Retrieved \cup {"none", "submitted", "lost"}]
  /\ reported \in [Actors -> [event : BOOLEAN, timer : BOOLEAN, ready : SUBSET Threads, error : SUBSET Threads]]
  /\ polled \subseteq Threads /\ fdOpen \subseteq Threads /\ gone \subseteq Threads
  /\ sources \subseteq Threads /\ event \in BOOLEAN
  /\ timer \in 0..LastInstant /\ now \in 1..LastInstant
  /\ \A t \in Threads : pc[t] = "submit" => now + Timeout[t] =< LastInstant
  /\ \A a \in Actors : pc[a] \in {"unlist", "landed"} => status[a] \in Statuses

-----------------------------------------------------------------------------
\* The types are kept.
LEMMA ReadyAreThreads ==
  ASSUME DataTypes, NEW a \in Actors
  PROVE  reported[a].ready \subseteq Threads /\ reported[a].error \subseteq Threads
  BY DEF DataTypes

LEMMA ControlTypesStep ==
  ASSUME ControlTypes, DataTypes, [Next]_vars
  PROVE  ControlTypes'
<1> USE DEF ControlTypes, Labels, LockedLabels, CloserLabels, Closing, Expiring, InBackend, Statuses
<1>1. ASSUME NEW t \in Threads, Open(t) \/ Call(t) \/ SubmitList(t) \/ SubmitUrb(t) PROVE
       ControlTypes'
  BY <1>1 DEF Open, Call, SubmitList, SubmitUrb
<1>2. ASSUME NEW t \in Threads, MarkInFlight(t) \/ SubmitFailed(t) \/ Wait(t) \/ Returned(t)
       PROVE ControlTypes'
  BY <1>2 DEF MarkInFlight, SubmitFailed, Wait, Returned
<1>3. ASSUME NEW t \in Threads, CancelAndRetry(t) \/ Result(t) PROVE ControlTypes'
  BY <1>3 DEF CancelAndRetry, Result
<1>4. ASSUME NEW t \in Threads, TakeEvents(t) PROVE ControlTypes'
  BY <1>4 DEF TakeEvents
<1>5. ASSUME NEW t \in Threads, LockTimeouts(t) PROVE ControlTypes'
  BY <1>5 DEF LockTimeouts
<1>6. ASSUME NEW t \in Threads, HandleTimeout(t) PROVE ControlTypes'
  <2>1. /\ pc[t] = "expire" /\ ((\E x \in Threads : Listed(x) /\ Expired(x) /\ TimeOut(t, x)) \/ TimeoutsDone(t))
        /\ UNCHANGED <<status, until, reported, result, calls, eventsLock, lock, waiting,
             handlerActive, completed, flying, useTimer, now, fdVars, flagVars, gone, faults>>
    BY <1>6, HandleTimeoutCases DEF DataTypes
  <2>2. ASSUME NEW x \in Threads, Listed(x), Expired(x), TimeOut(t, x) PROVE ControlTypes'
    BY <2>1, <2>2 DEF TimeOut
  <2>3. CASE TimeoutsDone(t)
    BY <2>1, <2>3 DEF TimeoutsDone
  <2> QED
    BY <2>1, <2>2, <2>3
<1>7. ASSUME NEW t \in Threads, TryLock(t) \/ Waiter(t) \/ Wake(t) \/ MarkTimedOut(t) PROVE
       ControlTypes'
  BY <1>7 DEF TryLock, Waiter, Wake, MarkTimedOut
<1>8. ASSUME NEW t \in Threads, NextFd(t) PROVE ControlTypes'
  BY <1>8, ReadyAreThreads DEF NextFd
<1>9. ASSUME NEW t \in Threads, Reap(t) PROVE ControlTypes'
  BY <1>9, ReadyAreThreads DEF Reap, StatusOf
<1>10. ASSUME NEW t \in Threads, Handler(t) \/ Poll(t) \/ EventTrigger(t) \/ Disconnect(t)
       PROVE ControlTypes'
  BY <1>10 DEF Handler, Poll, PollTimedOut, EventTrigger, Disconnect
<1>11. ASSUME NEW t \in Threads, Cancelled(t) \/ UnlistDone(t) \/ Landed(t) \/ Callback(t)
       PROVE ControlTypes'
  BY <1>11 DEF Cancelled, UnlistDone, Landed, Callback
<1>12. ASSUME NEW t \in Threads, Minute(t) \/ PollFails(t) \/ Complete(t) \/ Unplug(t) PROVE
       ControlTypes'
  BY <1>12 DEF Minute, PollTimedOut, PollFails, Complete, Unplug
<1>13. ASSUME NEW a \in Actors, CloseLock(a) PROVE ControlTypes'
  BY <1>13 DEF CloseLock
<1>14. ASSUME NEW a \in Actors, CloseDrop(a) PROVE ControlTypes'
  BY <1>14 DEF CloseDrop
<1>15. ASSUME NEW a \in Actors, UnlockEvents(a) PROVE ControlTypes'
  BY <1>15 DEF UnlockEvents
<1>16. ASSUME NEW a \in Actors, CloseBegin(a) \/ CloseFd(a) \/ CloseEnd(a) \/ Broadcast(a)
       PROVE ControlTypes'
  BY <1>16 DEF CloseBegin, CloseFd, CloseEnd, Broadcast
<1>17. ASSUME NEW c \in Closers, ChooseVictim(c) PROVE ControlTypes'
  BY <1>17 DEF ChooseVictim
<1>18. CASE Interrupt \/ Tick \/ Terminated \/ UNCHANGED vars
  BY <1>18 DEF Interrupt, Tick, Terminated
<1> QED
  BY <1>1, <1>2, <1>3, <1>4, <1>5, <1>6, <1>7, <1>8, <1>9, <1>10, <1>11, <1>12, <1>13,
     <1>14, <1>15, <1>16, <1>17, <1>18 DEF Next, CallStep, WaitStep, HandlerStep, CloseStep

\* Which actions take an actor to a label, and away from one.
Moved(b, from, to) == \A a \in Actors : pc'[a] # pc[a] => a = b /\ pc[a] \in from /\ pc'[a] \in to

LEMMA Moves ==
  ASSUME ControlTypes, DataTypes, [Next]_vars, NEW a \in Actors, pc'[a] # pc[a]
  PROVE  /\ pc'[a] = "call" => Open(a) \/ SubmitFailed(a) \/ Result(a)
         /\ pc'[a] = "submit" => Call(a)
         /\ pc'[a] = "done" => Call(a) \/ Broadcast(a) \/ ChooseVictim(a)
         /\ pc'[a] = "close" => Call(a) \/ ChooseVictim(a)
         /\ pc'[a] = "urb" => SubmitList(a)
         /\ pc'[a] \in {"mark", "submitFailed"} => SubmitUrb(a)
         /\ pc'[a] = "wait" => MarkInFlight(a) \/ Returned(a) \/ CancelAndRetry(a)
         /\ pc'[a] = "result" => Wait(a)
         /\ pc'[a] = "timeouts" => Wait(a) \/ Wake(a) \/ Poll(a) \/ EventTrigger(a) \/
              Minute(a)
         /\ pc'[a] = "tryLock" => Wait(a) \/ Waiter(a)
         /\ pc'[a] = "waiter" => TryLock(a) \/ TakeEvents(a)
         /\ pc'[a] = "takeEvents" => TryLock(a)
         /\ pc'[a] = "handler" => TakeEvents(a)
         /\ pc'[a] = "returned" => Waiter(a) \/ Wake(a) \/ HandleTimeout(a) \/ Broadcast(a)
         /\ pc'[a] = "asleep" => Waiter(a)
         /\ pc'[a] = "expire" => LockTimeouts(a) \/ MarkTimedOut(a)
         /\ pc'[a] = "expired" => HandleTimeout(a)
         /\ pc'[a] = "unlock" => HandleTimeout(a) \/ Handler(a) \/ Poll(a) \/ NextFd(a) \/
              Minute(a) \/ PollFails(a) \/ CloseEnd(a)
         /\ pc'[a] = "fds" => HandleTimeout(a) \/ EventTrigger(a) \/ Disconnect(a) \/
              Callback(a)
         /\ pc'[a] = "poll" => Handler(a)
         /\ pc'[a] = "triggered" => Poll(a)
         /\ pc'[a] = "disconnect" => NextFd(a)
         /\ pc'[a] = "cancelled" => Reap(a)
         /\ pc'[a] = "unlist" => Reap(a) \/ Disconnect(a) \/ Cancelled(a)
         /\ pc'[a] = "landed" => UnlistDone(a)
         /\ pc'[a] = "callback" => Landed(a)
         /\ pc'[a] = "closeLock" => CloseBegin(a)
         /\ pc'[a] = "drop" => CloseLock(a)
         /\ pc'[a] = "closeFd" => CloseDrop(a)
         /\ pc'[a] = "closeEnd" => CloseFd(a)
         /\ pc'[a] = "broadcast" => UnlockEvents(a)
         /\ pc'[a] = "error" => Broadcast(a)
         /\ pc'[a] \notin {"open", "idle"}
         /\ pc[a] = "open" => Open(a)
         /\ pc[a] = "call" => Call(a)
         /\ pc[a] = "submit" => SubmitList(a)
         /\ pc[a] = "urb" => SubmitUrb(a)
         /\ pc[a] = "mark" => MarkInFlight(a)
         /\ pc[a] = "submitFailed" => SubmitFailed(a)
         /\ pc[a] = "wait" => Wait(a)
         /\ pc[a] = "returned" => Returned(a)
         /\ pc[a] = "error" => CancelAndRetry(a)
         /\ pc[a] = "result" => Result(a)
         /\ pc[a] = "tryLock" => TryLock(a)
         /\ pc[a] = "takeEvents" => TakeEvents(a)
         /\ pc[a] = "waiter" => Waiter(a)
         /\ pc[a] = "asleep" => Wake(a) \/ Minute(a)
         /\ pc[a] = "timeouts" => LockTimeouts(a)
         /\ pc[a] = "expire" => HandleTimeout(a)
         /\ pc[a] = "expired" => MarkTimedOut(a)
         /\ pc[a] = "handler" => Handler(a)
         /\ pc[a] = "poll" => Poll(a) \/ Minute(a) \/ PollFails(a)
         /\ pc[a] = "triggered" => EventTrigger(a)
         /\ pc[a] = "fds" => NextFd(a) \/ Reap(a)
         /\ pc[a] = "disconnect" => Reap(a) \/ Disconnect(a)
         /\ pc[a] = "cancelled" => Cancelled(a)
         /\ pc[a] = "unlist" => UnlistDone(a)
         /\ pc[a] = "landed" => Landed(a)
         /\ pc[a] = "callback" => Callback(a)
         /\ pc[a] = "close" => CloseBegin(a)
         /\ pc[a] = "closeLock" => CloseLock(a)
         /\ pc[a] = "drop" => CloseDrop(a)
         /\ pc[a] = "closeFd" => CloseFd(a)
         /\ pc[a] = "closeEnd" => CloseEnd(a)
         /\ pc[a] = "unlock" => UnlockEvents(a)
         /\ pc[a] = "broadcast" => Broadcast(a)
         /\ pc[a] = "idle" => ChooseVictim(a)
         /\ pc[a] # "done"
<1>1. ASSUME NEW t \in Threads, Open(t) PROVE Moved(t, {"open"}, {"call"})
  BY <1>1 DEF Open, ControlTypes, Moved
<1>2. ASSUME NEW t \in Threads, Call(t) PROVE Moved(t, {"call"}, {"submit", "done", "close"})
  BY <1>2 DEF Call, ControlTypes, Moved
<1>3. ASSUME NEW t \in Threads, SubmitList(t) PROVE Moved(t, {"submit"}, {"urb"})
  BY <1>3 DEF SubmitList, ControlTypes, Moved
<1>4. ASSUME NEW t \in Threads, SubmitUrb(t) PROVE Moved(t, {"urb"}, {"mark", "submitFailed"})
  BY <1>4 DEF SubmitUrb, ControlTypes, Moved
<1>5. ASSUME NEW t \in Threads, MarkInFlight(t) PROVE Moved(t, {"mark"}, {"wait"})
  BY <1>5 DEF MarkInFlight, ControlTypes, Moved
<1>6. ASSUME NEW t \in Threads, SubmitFailed(t) PROVE Moved(t, {"submitFailed"}, {"call"})
  BY <1>6 DEF SubmitFailed, ControlTypes, Moved
<1>7. ASSUME NEW t \in Threads, Wait(t) PROVE Moved(t, {"wait"}, {"result", "timeouts", "tryLock"})
  BY <1>7 DEF Wait, ControlTypes, Moved
<1>8. ASSUME NEW t \in Threads, Returned(t) PROVE Moved(t, {"returned"}, {"wait"})
  BY <1>8 DEF Returned, ControlTypes, Moved
<1>9. ASSUME NEW t \in Threads, CancelAndRetry(t) PROVE Moved(t, {"error"}, {"wait"})
  BY <1>9 DEF CancelAndRetry, ControlTypes, Moved
<1>10. ASSUME NEW t \in Threads, Result(t) PROVE Moved(t, {"result"}, {"call"})
  BY <1>10 DEF Result, ControlTypes, Moved
<1>11. ASSUME NEW t \in Threads, TryLock(t) PROVE Moved(t, {"tryLock"}, {"waiter", "takeEvents"})
  BY <1>11 DEF TryLock, ControlTypes, Moved
<1>12. ASSUME NEW t \in Threads, TakeEvents(t) PROVE Moved(t, {"takeEvents"}, {"handler", "waiter"})
  BY <1>12 DEF TakeEvents, ControlTypes, Moved
<1>13. ASSUME NEW t \in Threads, Waiter(t) PROVE Moved(t, {"waiter"}, {"returned", "tryLock", "asleep"})
  BY <1>13 DEF Waiter, ControlTypes, Moved
<1>14. ASSUME NEW t \in Threads, Wake(t) PROVE Moved(t, {"asleep"}, {"returned", "timeouts"})
  BY <1>14 DEF Wake, ControlTypes, Moved
<1>15. ASSUME NEW t \in Threads, LockTimeouts(t) PROVE Moved(t, {"timeouts"}, {"expire"})
  BY <1>15 DEF LockTimeouts, ControlTypes, Moved
<1>16. ASSUME NEW t \in Threads, HandleTimeout(t) PROVE Moved(t, {"expire"}, {"expired", "returned", "unlock", "fds"})
  <2>1. pc[t] = "expire" /\ ((\E x \in Threads : TimeOut(t, x)) \/ TimeoutsDone(t))
    BY <1>16, HandleTimeoutCases DEF DataTypes
  <2>2. ASSUME NEW x \in Threads, TimeOut(t, x) PROVE Moved(t, {"expire"}, {"expired", "returned", "unlock", "fds"})
    BY <2>1, <2>2 DEF TimeOut, ControlTypes, Moved
  <2>3. CASE TimeoutsDone(t)
    BY <2>1, <2>3 DEF TimeoutsDone, ControlTypes, Moved
  <2> QED
    BY <2>1, <2>2, <2>3
<1>17. ASSUME NEW t \in Threads, MarkTimedOut(t) PROVE Moved(t, {"expired"}, {"expire"})
  BY <1>17 DEF MarkTimedOut, ControlTypes, Moved
<1>18. ASSUME NEW t \in Threads, Handler(t) PROVE Moved(t, {"handler"}, {"unlock", "poll"})
  BY <1>18 DEF Handler, ControlTypes, Moved
<1>19. ASSUME NEW t \in Threads, Poll(t) PROVE Moved(t, {"poll"}, {"triggered", "unlock", "timeouts"})
  BY <1>19 DEF Poll, PollTimedOut, ControlTypes, Moved
<1>20. ASSUME NEW t \in Threads, EventTrigger(t) PROVE Moved(t, {"triggered"}, {"timeouts", "fds"})
  BY <1>20 DEF EventTrigger, ControlTypes, Moved
<1>21. ASSUME NEW t \in Threads, NextFd(t) PROVE Moved(t, {"fds"}, {"unlock", "disconnect"})
  BY <1>21 DEF NextFd, ControlTypes, Moved
<1>22. ASSUME NEW t \in Threads, Reap(t) PROVE Moved(t, {"fds", "disconnect"}, {"cancelled", "unlist"})
  BY <1>22 DEF Reap, ControlTypes, Moved
<1>23. ASSUME NEW t \in Threads, Disconnect(t) PROVE Moved(t, {"disconnect"}, {"unlist", "fds"})
  BY <1>23 DEF Disconnect, ControlTypes, Moved
<1>24. ASSUME NEW t \in Threads, Cancelled(t) PROVE Moved(t, {"cancelled"}, {"unlist"})
  BY <1>24 DEF Cancelled, ControlTypes, Moved
<1>25. ASSUME NEW t \in Threads, UnlistDone(t) PROVE Moved(t, {"unlist"}, {"landed"})
  BY <1>25 DEF UnlistDone, ControlTypes, Moved
<1>26. ASSUME NEW t \in Threads, Landed(t) PROVE Moved(t, {"landed"}, {"callback"})
  BY <1>26 DEF Landed, ControlTypes, Moved
<1>27. ASSUME NEW t \in Threads, Callback(t) PROVE Moved(t, {"callback"}, {"fds"})
  BY <1>27 DEF Callback, ControlTypes, Moved
<1>28. ASSUME NEW t \in Threads, Minute(t) PROVE Moved(t, {"poll", "asleep"}, {"unlock", "timeouts"})
  BY <1>28 DEF Minute, PollTimedOut, ControlTypes, Moved
<1>29. ASSUME NEW t \in Threads, PollFails(t) PROVE Moved(t, {"poll"}, {"unlock"})
  BY <1>29 DEF PollFails, ControlTypes, Moved
<1>30. ASSUME NEW t \in Threads, Complete(t) PROVE pc' = pc
  BY <1>30 DEF Complete
<1>31. ASSUME NEW t \in Threads, Unplug(t) PROVE pc' = pc
  BY <1>31 DEF Unplug
<1>32. ASSUME NEW b \in Actors, CloseBegin(b) PROVE Moved(b, {"close"}, {"closeLock"})
  BY <1>32 DEF CloseBegin, ControlTypes, Moved
<1>33. ASSUME NEW b \in Actors, CloseLock(b) PROVE Moved(b, {"closeLock"}, {"drop"})
  BY <1>33 DEF CloseLock, ControlTypes, Moved
<1>34. ASSUME NEW b \in Actors, CloseDrop(b) PROVE Moved(b, {"drop"}, {"closeFd"})
  BY <1>34 DEF CloseDrop, ControlTypes, Moved
<1>35. ASSUME NEW b \in Actors, CloseFd(b) PROVE Moved(b, {"closeFd"}, {"closeEnd"})
  BY <1>35 DEF CloseFd, ControlTypes, Moved
<1>36. ASSUME NEW b \in Actors, CloseEnd(b) PROVE Moved(b, {"closeEnd"}, {"unlock"})
  BY <1>36 DEF CloseEnd, ControlTypes, Moved
<1>37. ASSUME NEW b \in Actors, UnlockEvents(b) PROVE Moved(b, {"unlock"}, {"broadcast"})
  BY <1>37 DEF UnlockEvents, ControlTypes, Moved
<1>38. ASSUME NEW b \in Actors, Broadcast(b) PROVE Moved(b, {"broadcast"}, {"error", "done", "returned"})
  BY <1>38 DEF Broadcast, ControlTypes, Moved
<1>39. ASSUME NEW c \in Closers, ChooseVictim(c) PROVE Moved(c, {"idle"}, {"close", "done"})
  BY <1>39 DEF ChooseVictim, ControlTypes, Moved
<1>40. CASE Interrupt \/ Tick \/ Terminated \/ UNCHANGED vars
  BY <1>40 DEF Interrupt, Tick, Terminated
<1>41. CASE \E t \in Threads : CallStep(t)
  BY <1>41, <1>1, <1>2, <1>3, <1>4, <1>5, <1>6, <1>7, <1>8, <1>9, <1>10 DEF Moved, CallStep
<1>42. CASE \E t \in Threads : WaitStep(t)
  BY <1>42, <1>11, <1>12, <1>13, <1>14, <1>15, <1>16, <1>17 DEF Moved, WaitStep
<1>43. CASE \E t \in Threads : HandlerStep(t)
  BY <1>43, <1>18, <1>19, <1>20, <1>21, <1>22, <1>23, <1>24, <1>25, <1>26, <1>27 DEF Moved,
     HandlerStep
<1>44. CASE \E t \in Threads : Minute(t) \/ PollFails(t) \/ Complete(t) \/ Unplug(t)
  BY <1>44, <1>28, <1>29, <1>30, <1>31 DEF Moved
<1>45. CASE \E b \in Actors : CloseStep(b)
  BY <1>45, <1>32, <1>33, <1>34, <1>35, <1>36, <1>37, <1>38 DEF Moved, CloseStep
<1>46. CASE \E c \in Closers : ChooseVictim(c)
  BY <1>46, <1>39 DEF Moved
<1> QED
  BY <1>40, <1>41, <1>42, <1>43, <1>44, <1>45, <1>46 DEF Next

\* What calloc leaves, and a freed transfer, are transfers.
LEMMA FreshTypes == /\ Freed \in TransferType
                    /\ \A t : FreshTransfer(t) \in TransferType
<1>1. 0 \in 0..LastInstant
  OBVIOUS
<1> QED
  BY <1>1 DEF FreshTransfer, Freed, TransferType

\* Updates of single fields keep the type.
LEMMA FieldTypes ==
  ASSUME NEW x \in TransferType
  PROVE  /\ [x EXCEPT !.timedOut = TRUE] \in TransferType
         /\ \A s \in Statuses : [x EXCEPT !.inFlight = FALSE, !.status = s] \in TransferType
  BY DEF TransferType, Statuses

\* A listed transfer is not submitted again: its deadline stays within the clock.
LEMMA DataTypesStep ==
  ASSUME ControlTypes, DataTypes, \A t \in Threads : pc[t] = "submit" => ~Listed(t), [Next]_vars
  PROVE  DataTypes'
<1>1. flying' \in Seq(Threads) /\ IsInjective(flying')
  <2>1. ASSUME NEW t \in Threads, SubmitList(t) PROVE flying' \in Seq(Threads) /\ IsInjective(flying')
    BY <2>1, SubmitListed DEF SubmitList, DataTypes
  <2>2. ASSUME NEW x, flying' = RemoveFirst(flying, x)
        PROVE  flying' \in Seq(Threads) /\ IsInjective(flying')
    BY <2>2, Unlisted DEF DataTypes
  <2>3. ASSUME NEW t \in Threads, SubmitFailed(t) \/ UnlistDone(t)
        PROVE  flying' = RemoveFirst(flying, t) \/ flying' = RemoveFirst(flying, on[t])
    BY <2>3 DEF SubmitFailed, UnlistDone, Unlist
  <2>4. ASSUME NEW a \in Actors, CloseDrop(a)
        PROVE  flying' = flying \/ flying' = RemoveFirst(flying, on[a])
    BY <2>4 DEF CloseDrop
  <2>5. ASSUME flying' = flying PROVE flying' \in Seq(Threads) /\ IsInjective(flying')
    BY <2>5 DEF DataTypes
  <2> QED
    BY <2>1, <2>2, <2>3, <2>4, <2>5, FlyingFrame
<1>2. xfer' \in [Threads -> TransferType]
  <2>1. xfer \in [Threads -> TransferType]
    BY DEF DataTypes
  <2>2. ASSUME NEW t \in Threads, Call(t) PROVE xfer' \in [Threads -> TransferType]
    <3>1. xfer' = xfer \/ xfer' = [xfer EXCEPT ![t] = FreshTransfer(t)]
      BY <2>2 DEF Call
    <3> QED
      BY <2>1, <3>1, FreshTypes
  <2>3. ASSUME NEW t \in Threads, SubmitList(t) PROVE xfer' \in [Threads -> TransferType]
    <3>1. pc[t] = "submit" /\ xfer' = [xfer EXCEPT ![t].deadline = IF Timeout[t] = 0 THEN 0 ELSE now + Timeout[t]]
      BY <2>3 DEF SubmitList
    <3>2. (IF Timeout[t] = 0 THEN 0 ELSE now + Timeout[t]) \in 0..LastInstant
      BY <3>1 DEF DataTypes
    <3> QED
      BY <2>1, <3>1, <3>2 DEF TransferType
  <2>4. ASSUME NEW t \in Threads, MarkInFlight(t) PROVE xfer' \in [Threads -> TransferType]
    <3>1. \E b \in BOOLEAN : xfer' = [xfer EXCEPT ![t].inFlight = b]
      BY <2>4 DEF MarkInFlight
    <3> QED
      BY <2>1, <3>1 DEF TransferType
  <2>5. ASSUME NEW t \in Threads, SubmitFailed(t) \/ Result(t) PROVE xfer' \in [Threads -> TransferType]
    <3>1. xfer' = [xfer EXCEPT ![t] = Freed]
      BY <2>5 DEF SubmitFailed, Result
    <3> QED
      BY <2>1, <3>1, FreshTypes
  <2>6. ASSUME NEW t \in Threads, Returned(t) PROVE xfer' \in [Threads -> TransferType]
    <3>1. xfer' = xfer \/ xfer' = [xfer EXCEPT ![t].status = "NO_DEVICE"]
      BY <2>6 DEF Returned
    <3>2. "NO_DEVICE" \in Statuses
      BY DEF Statuses
    <3> QED
      BY <2>1, <3>1, <3>2 DEF TransferType
  <2>7. ASSUME NEW x \in Threads PROVE (xfer[x].cancelling \/ CanCancel(x)) \in BOOLEAN
    BY DEF CanCancel
  <2>8. ASSUME NEW t \in Threads, CancelAndRetry(t) PROVE xfer' \in [Threads -> TransferType]
    <3>1. \E b \in BOOLEAN : xfer' = [xfer EXCEPT ![t].cancelling = b]
      BY <2>7, <2>8 DEF CancelAndRetry
    <3> QED
      BY <2>1, <3>1 DEF TransferType
  <2>9. ASSUME NEW t \in Threads, HandleTimeout(t) PROVE xfer' \in [Threads -> TransferType]
    <3>1. (\E x \in Threads : TimeOut(t, x)) \/ TimeoutsDone(t)
      BY <2>9, HandleTimeoutCases DEF DataTypes
    <3>2. ASSUME NEW x \in Threads PROVE
            [xfer[x] EXCEPT !.handled = TRUE, !.cancelling = xfer[x].cancelling \/ CanCancel(x)] \in TransferType
      BY <2>1, <2>7 DEF TransferType
    <3>3. ASSUME NEW x \in Threads, TimeOut(t, x) PROVE xfer' =
            [xfer EXCEPT ![x] = [xfer[x] EXCEPT !.handled = TRUE, !.cancelling = xfer[x].cancelling \/ CanCancel(x)]]
      BY <2>1, <3>3 DEF TimeOut
    <3>4. TimeoutsDone(t) => xfer' = xfer
      BY DEF TimeoutsDone
    <3> QED
      BY <2>1, <3>1, <3>2, <3>3, <3>4
  <2>10. ASSUME NEW t \in Threads, MarkTimedOut(t) PROVE xfer' \in [Threads -> TransferType]
    <3>1. on[t] \in Threads => [xfer[on[t]] EXCEPT !.timedOut = TRUE] \in TransferType
      BY <2>1, FieldTypes
    <3>2. xfer' = [xfer EXCEPT ![on[t]] = [xfer[on[t]] EXCEPT !.timedOut = TRUE]]
      BY <2>10 DEF MarkTimedOut
    <3> QED
      BY <2>1, <3>1, <3>2
  <2>11. ASSUME NEW t \in Threads, Landed(t) PROVE xfer' \in [Threads -> TransferType]
    <3>1. status[t] \in Statuses
      BY <2>11 DEF Landed, DataTypes
    <3>2. on[t] \in Threads => [xfer[on[t]] EXCEPT !.inFlight = FALSE, !.status = status[t]] \in TransferType
      BY <2>1, <3>1, FieldTypes
    <3>3. xfer' = [xfer EXCEPT ![on[t]] = [xfer[on[t]] EXCEPT !.inFlight = FALSE, !.status = status[t]]]
      BY <2>11 DEF Landed
    <3> QED
      BY <2>1, <3>2, <3>3
  <2>12. ASSUME NEW a \in Actors, CloseDrop(a) PROVE xfer' \in [Threads -> TransferType]
    <3>1. xfer' = xfer \/ \E x \in Threads \cup {NoOne}, b \in BOOLEAN : xfer' = [xfer EXCEPT ![x].handle = b]
      BY <2>12 DEF CloseDrop, ControlTypes
    <3> QED
      BY <2>1, <3>1 DEF TransferType
  <2> QED
    BY <2>1, <2>2, <2>3, <2>4, <2>5, <2>6, <2>8, <2>9, <2>10, <2>11, <2>12, XferFrame
<1>3. completed' \in [Threads -> BOOLEAN]
  <2>1. completed \in [Threads -> BOOLEAN]
    BY DEF DataTypes
  <2>2. ASSUME NEW t \in Threads, Returned(t) PROVE completed' = completed \/ completed' = [completed EXCEPT ![t] = TRUE]
    BY <2>2 DEF Returned
  <2>3. ASSUME NEW t \in Threads, Result(t) PROVE completed' = [completed EXCEPT ![t] = FALSE]
    BY <2>3 DEF Result
  <2>4. ASSUME NEW t \in Threads, Callback(t) PROVE completed' = [completed EXCEPT ![on[t]] = TRUE]
    BY <2>4 DEF Callback
  <2> QED
    BY <2>1, <2>2, <2>3, <2>4, CompletedFrame
<1>4. urb' \in [Threads -> Retrieved \cup {"none", "submitted", "lost"}]
  <2> USE DEF Retrieved
  <2>1. urb \in [Threads -> Retrieved \cup {"none", "submitted", "lost"}]
    BY DEF DataTypes
  <2>2. ASSUME NEW x \in Threads PROVE CancelUrb(x) \in [Threads -> Retrieved \cup {"none", "submitted", "lost"}]
    BY <2>1 DEF CancelUrb
  <2>3. ASSUME NEW t \in Threads, HandleTimeout(t) PROVE (\E x \in Threads : urb' = CancelUrb(x)) \/ urb' = urb
    <3>1. (\E x \in Threads : TimeOut(t, x)) \/ TimeoutsDone(t)
      BY <2>3, HandleTimeoutCases DEF DataTypes
    <3> QED
      BY <3>1 DEF TimeOut, TimeoutsDone
  <2>4. ASSUME NEW t \in Threads, CancelAndRetry(t) PROVE urb' = CancelUrb(t)
    BY <2>4 DEF CancelAndRetry
  <2>5. ASSUME NEW t \in Threads, SubmitUrb(t) \/ Reap(t) \/ Disconnect(t) \/ Complete(t) \/ Unplug(t)
        PROVE  urb' \in [Threads -> Retrieved \cup {"none", "submitted", "lost"}]
    BY <2>1, <2>5 DEF SubmitUrb, Reap, Disconnect, Complete, Unplug
  <2>6. ASSUME NEW a \in Actors, CloseFd(a)
        PROVE  urb' \in [Threads -> Retrieved \cup {"none", "submitted", "lost"}]
    BY <2>1, <2>6 DEF CloseFd
  <2> QED
    BY <2>1, <2>2, <2>3, <2>4, <2>5, <2>6, UrbFrame
<1>5. reported' \in [Actors -> [event : BOOLEAN, timer : BOOLEAN, ready : SUBSET Threads, error : SUBSET Threads]]
  <2> DEFINE Report == [event : BOOLEAN, timer : BOOLEAN, ready : SUBSET Threads, error : SUBSET Threads]
  <2>1. reported \in [Actors -> Report] /\ polled \subseteq Threads
    BY DEF DataTypes
  <2>2. [event |-> event, timer |-> TimerExpired, ready |-> Ready \cap sources, error |-> Ready \cap sources \cap gone] \in Report
    <3>1. event \in BOOLEAN /\ TimerExpired \in BOOLEAN
      BY DEF DataTypes, TimerExpired
    <3>2. Ready \subseteq Threads
      BY <2>1 DEF Ready
    <3> QED
      BY <3>1, <3>2
  <2>3. Nothing \in Report
    BY DEF Nothing
  <2> HIDE DEF Report
  <2>5. ASSUME NEW t \in Threads, Poll(t) PROVE reported' \in [Actors -> Report]
    <3>1. reported' = reported \/ reported' = [reported EXCEPT ![t] = [event |-> event, timer |-> TimerExpired,
                          ready |-> Ready \cap sources, error |-> Ready \cap sources \cap gone]]
      BY <2>5 DEF Poll
    <3> QED
      BY <2>1, <2>2, <3>1
  <2>6. ASSUME NEW t \in Threads, NextFd(t) \/ Disconnect(t) PROVE reported' \in [Actors -> Report]
    <3>1. reported' = reported \/ \E h : reported' = [reported EXCEPT ![t].ready = reported[t].ready \ {h}]
      BY <2>6 DEF NextFd, Disconnect
    <3> QED
      BY <2>1, <3>1 DEF Report
  <2>7. ASSUME NEW a \in Actors, UnlockEvents(a) PROVE reported' \in [Actors -> Report]
    <3>1. reported' = [reported EXCEPT ![a] = Nothing]
      BY <2>7 DEF UnlockEvents
    <3> QED
      BY <2>1, <2>3, <3>1
  <2>8. reported' \in [Actors -> Report]
    BY <2>1, <2>5, <2>6, <2>7, ReportedFrame
  <2> QED
    BY <2>8 DEF Report
<1>6. polled' \subseteq Threads /\ fdOpen' \subseteq Threads /\ gone' \subseteq Threads /\ sources' \subseteq Threads
  <2>1. polled \subseteq Threads /\ fdOpen \subseteq Threads /\ gone \subseteq Threads /\ sources \subseteq Threads
    BY DEF DataTypes
  <2>2. UNCHANGED gone \/ (\E a : gone' = gone \ {on[a]}) \/ \E t \in Threads : gone' = gone \cup {t}
    BY GoneFrame DEF Unplug, CloseFd
  <2>3. ASSUME NEW t \in Threads, Open(t) \/ Handler(t) \/ NextFd(t)
        PROVE  polled' \subseteq Threads /\ fdOpen' \subseteq Threads /\ sources' \subseteq Threads
    BY <2>1, <2>3 DEF Open, Handler, NextFd
  <2>4. ASSUME NEW a \in Actors, CloseFd(a)
        PROVE  polled' \subseteq Threads /\ fdOpen' \subseteq Threads /\ sources' \subseteq Threads
    BY <2>1, <2>4 DEF CloseFd
  <2> QED
    BY <2>1, <2>2, <2>3, <2>4, FdFrame
<1>7. timer' \in 0..LastInstant
  <2>1. timer \in 0..LastInstant /\ flying \in Seq(Threads) /\ xfer \in [Threads -> TransferType]
        /\ now \in 1..LastInstant /\ \A t \in Threads : pc[t] = "submit" => now + Timeout[t] \in 0..LastInstant
    BY DEF DataTypes
  <2>2. ASSUME NEW t \in Threads, SubmitList(t) PROVE timer' \in 0..LastInstant
    BY <2>1, <2>2 DEF SubmitList, ArmedFor
  <2>3. ASSUME NEW list \in Seq(Threads), flying' = list PROVE NextTimeout(flying') \in 0..LastInstant
    BY <2>1, <2>3, NextTimeoutType
  <2>4. ASSUME NEW x, Unlist(x) PROVE timer' \in 0..LastInstant
    BY <2>1, <2>3, <2>4, <1>1 DEF Unlist
  <2>5. ASSUME NEW t \in Threads, HandleTimeout(t) PROVE timer' \in 0..LastInstant
    <3>1. (\E x \in Threads : TimeOut(t, x)) \/ TimeoutsDone(t)
      BY <2>5, HandleTimeoutCases DEF DataTypes
    <3>2. NextTimeout(flying) \in 0..LastInstant
      BY <2>1, NextTimeoutType
    <3> QED
      BY <2>1, <3>1, <3>2 DEF TimeOut, TimeoutsDone
  <2>6. ASSUME Tick PROVE timer' = timer
    BY <2>6 DEF Tick
  <2> QED
    BY <2>1, <2>2, <2>4, <2>5, <2>6, TimeFrame DEF SubmitFailed, UnlistDone
<1>8. now' \in 1..LastInstant /\ \A t \in Threads : pc'[t] = "submit" => now' + Timeout[t] =< LastInstant
  <2>1. now \in 1..LastInstant /\ \A t \in Threads : pc[t] = "submit" => now + Timeout[t] =< LastInstant
    BY DEF DataTypes
  <2>2. CASE Tick
    BY <2>1, <2>2 DEF Tick
  <2>3. CASE ~Tick
    <3>1. now' = now
      BY <2>3, TimeFrame DEF SubmitList, SubmitFailed, HandleTimeout, UnlistDone
    <3>2. ASSUME NEW t \in Threads, pc'[t] = "submit", pc[t] # "submit" PROVE now + Timeout[t] =< LastInstant
      <4>1. Call(t)
        BY <3>2, Moves
      <4> QED
        BY <4>1, <3>2 DEF Call, MayCall, ControlTypes
    <3> QED
      BY <2>1, <3>1, <3>2
  <2> QED
    BY <2>2, <2>3
<1>9. \A a \in Actors : pc'[a] \in {"unlist", "landed"} => status'[a] \in Statuses
  <2> SUFFICES ASSUME NEW a \in Actors, pc'[a] \in {"unlist", "landed"} PROVE status'[a] \in Statuses
    OBVIOUS
  <2>1. CASE pc'[a] # pc[a]
    <3>1. Reap(a) \/ Disconnect(a) \/ Cancelled(a) \/ UnlistDone(a)
      BY <2>1, Moves
    <3>2. pc'[a] = "landed" => UnlistDone(a)
      BY <2>1, Moves
    <3>3. CASE Reap(a)
      BY <3>3 DEF Reap, StatusOf, Statuses, ControlTypes
    <3>4. CASE Disconnect(a)
      <4>1. pc'[a] = "unlist" => status' = [status EXCEPT ![a] = "NO_DEVICE"]
        BY <3>4 DEF Disconnect, ControlTypes
      <4>2. pc'[a] # "landed"
        BY <3>4 DEF Disconnect, ControlTypes
      <4> QED
        BY <4>1, <4>2 DEF Statuses, ControlTypes
    <3>5. CASE Cancelled(a)
      BY <3>5 DEF Cancelled, Statuses, ControlTypes
    <3>6. CASE UnlistDone(a)
      <4>1. pc[a] = "unlist" /\ status' = status
        BY <3>6 DEF UnlistDone
      <4> QED
        BY <4>1 DEF DataTypes
    <3> QED
      BY <3>1, <3>3, <3>4, <3>5, <3>6
  <2>2. CASE pc'[a] = pc[a]
    <3>1. status[a] \in Statuses
      BY <2>2 DEF DataTypes
    <3>2. ASSUME NEW t \in Threads, Handler(t) \/ PollFails(t) \/ Callback(t) \/ Cancelled(t)
          PROVE  t # a /\ \E s : status' = [status EXCEPT ![t] = s]
      BY <3>2, <2>2 DEF Handler, PollFails, Callback, Cancelled, ControlTypes
    <3>3. ASSUME NEW t \in Threads, Reap(t)
          PROVE  t # a /\ \E s : status' = [status EXCEPT ![t] = s]
      BY <3>3, <2>2 DEF Reap, ControlTypes
    <3>4. ASSUME NEW t \in Threads, Disconnect(t)
          PROVE  status' = status \/ (t # a /\ \E s : status' = [status EXCEPT ![t] = s])
      BY <3>4, <2>2 DEF Disconnect, ControlTypes
    <3>5. ASSUME NEW b \in Actors, Broadcast(b) \/ CloseBegin(b)
          PROVE  b # a /\ \E s : status' = [status EXCEPT ![b] = s]
      BY <3>5, <2>2 DEF Broadcast, CloseBegin, ControlTypes
    <3> QED
      BY <3>1, <3>2, <3>3, <3>4, <3>5, StatusFrame DEF ControlTypes
  <2> QED
    BY <2>1, <2>2
<1>10. event' \in BOOLEAN
  <2>1. ASSUME NEW t \in Threads, Open(t) \/ Handler(t) \/ EventTrigger(t) \/ NextFd(t) PROVE event' \in BOOLEAN
    BY <2>1 DEF Open, Handler, EventTrigger, NextFd, Raise, Lower, DataTypes
  <2>2. ASSUME NEW a \in Actors, CloseBegin(a) \/ CloseFd(a) \/ CloseEnd(a) PROVE event' \in BOOLEAN
    BY <2>2 DEF CloseBegin, CloseFd, CloseEnd, Raise, Lower, DataTypes
  <2>3. CASE Interrupt
    BY <2>3 DEF Interrupt, Raise
  <2> QED
    BY <2>1, <2>2, <2>3, FlagFrame DEF DataTypes
<1> QED
  BY <1>1, <1>2, <1>3, <1>4, <1>5, <1>6, <1>7, <1>8, <1>9, <1>10 DEF DataTypes

\* The locks are held where LockInv says.
LEMMA LockInvStep ==
  ASSUME ControlTypes, DataTypes, LockInv, [Next]_vars
  PROVE  LockInv'
<1> USE DEF ControlTypes, LockInv, HasLock, LockedLabels, InBackend, Expiring
<1>1. ASSUME NEW t \in Threads, Call(t) PROVE LockInv'
  BY <1>1 DEF Call
<1>2. ASSUME NEW t \in Threads, SubmitList(t) PROVE LockInv'
  BY <1>2 DEF SubmitList
<1>3. ASSUME NEW t \in Threads, SubmitUrb(t) PROVE LockInv'
  BY <1>3 DEF SubmitUrb
<1>4. ASSUME NEW t \in Threads, MarkInFlight(t) PROVE LockInv'
  BY <1>4 DEF MarkInFlight
<1>5. ASSUME NEW t \in Threads, SubmitFailed(t) PROVE LockInv'
  BY <1>5 DEF SubmitFailed
<1>6. ASSUME NEW t \in Threads, Wait(t) PROVE LockInv'
  BY <1>6 DEF Wait
<1>7. ASSUME NEW t \in Threads, Open(t) \/ Returned(t) PROVE LockInv'
  BY <1>7 DEF Open, Returned
<1>8. ASSUME NEW t \in Threads, CancelAndRetry(t) \/ Result(t) PROVE LockInv'
  BY <1>8 DEF CancelAndRetry, Result
<1>9. ASSUME NEW t \in Threads, TakeEvents(t) PROVE LockInv'
  BY <1>9 DEF TakeEvents
<1>10. ASSUME NEW t \in Threads, Waiter(t) PROVE LockInv'
  BY <1>10 DEF Waiter
<1>11. ASSUME NEW t \in Threads, Wake(t) PROVE LockInv'
  BY <1>11 DEF Wake
<1>12. ASSUME NEW t \in Threads, LockTimeouts(t) PROVE LockInv'
  BY <1>12 DEF LockTimeouts
<1>13. ASSUME NEW t \in Threads, HandleTimeout(t) PROVE LockInv'
  <2>1. /\ pc[t] = "expire" /\ ((\E x \in Threads : Listed(x) /\ Expired(x) /\ TimeOut(t, x)) \/ TimeoutsDone(t))
        /\ UNCHANGED <<status, until, reported, result, calls, eventsLock, lock, waiting,
             handlerActive, completed, flying, useTimer, now, fdVars, flagVars, gone, faults>>
    BY <1>13, HandleTimeoutCases DEF DataTypes
  <2>2. ASSUME NEW x \in Threads, Listed(x), Expired(x), TimeOut(t, x) PROVE LockInv'
    BY <2>1, <2>2 DEF TimeOut
  <2>3. CASE TimeoutsDone(t)
    BY <2>1, <2>3 DEF TimeoutsDone
  <2> QED
    BY <2>1, <2>2, <2>3
<1>14. ASSUME NEW t \in Threads, TryLock(t) \/ MarkTimedOut(t) PROVE LockInv'
  BY <1>14 DEF TryLock, MarkTimedOut
<1>15. ASSUME NEW t \in Threads, Handler(t) PROVE LockInv'
  BY <1>15 DEF Handler
<1>16. ASSUME NEW t \in Threads, Poll(t) PROVE LockInv'
  BY <1>16 DEF Poll, PollTimedOut
<1>17. ASSUME NEW t \in Threads, EventTrigger(t) PROVE LockInv'
  BY <1>17 DEF EventTrigger
<1>18. ASSUME NEW t \in Threads, NextFd(t) PROVE LockInv'
  BY <1>18, ReadyAreThreads DEF NextFd
<1>19. ASSUME NEW t \in Threads, Reap(t) PROVE LockInv'
  BY <1>19, ReadyAreThreads DEF Reap, StatusOf
<1>20. ASSUME NEW t \in Threads, Disconnect(t) PROVE LockInv'
  BY <1>20 DEF Disconnect
<1>21. ASSUME NEW t \in Threads, Cancelled(t) \/ UnlistDone(t) PROVE LockInv'
  BY <1>21 DEF Cancelled, UnlistDone
<1>22. ASSUME NEW t \in Threads, Landed(t) \/ Callback(t) PROVE LockInv'
  BY <1>22 DEF Landed, Callback
<1>23. ASSUME NEW t \in Threads, Minute(t) PROVE LockInv'
  BY <1>23 DEF Minute, PollTimedOut
<1>24. ASSUME NEW t \in Threads, PollFails(t) PROVE LockInv'
  BY <1>24 DEF PollFails
<1>25. ASSUME NEW t \in Threads, Complete(t) \/ Unplug(t) PROVE LockInv'
  BY <1>25 DEF Complete, Unplug
<1>26. ASSUME NEW a \in Actors, CloseLock(a) PROVE LockInv'
  BY <1>26 DEF CloseLock
<1>27. ASSUME NEW a \in Actors, CloseDrop(a) PROVE LockInv'
  BY <1>27 DEF CloseDrop
<1>28. ASSUME NEW a \in Actors, UnlockEvents(a) PROVE LockInv'
  BY <1>28 DEF UnlockEvents
<1>29. ASSUME NEW a \in Actors, Broadcast(a) PROVE LockInv'
  BY <1>29 DEF Broadcast
<1>30. ASSUME NEW a \in Actors, CloseBegin(a) \/ CloseFd(a) \/ CloseEnd(a) PROVE LockInv'
  BY <1>30 DEF CloseBegin, CloseFd, CloseEnd
<1>31. ASSUME NEW c \in Closers, ChooseVictim(c) PROVE LockInv'
  BY <1>31 DEF ChooseVictim
<1>32. CASE Interrupt \/ Tick \/ Terminated \/ UNCHANGED vars
  BY <1>32 DEF Interrupt, Tick, Terminated
<1> QED
  BY <1>1, <1>2, <1>3, <1>4, <1>5, <1>6, <1>7, <1>8, <1>9, <1>10, <1>11, <1>12, <1>13,
     <1>14, <1>15, <1>16, <1>17, <1>18, <1>19, <1>20, <1>21, <1>22, <1>23, <1>24, <1>25,
     <1>26, <1>27, <1>28, <1>29, <1>30, <1>31, <1>32 DEF Next, CallStep, WaitStep,
     HandlerStep, CloseStep

\* A close goes through its steps and keeps its status up to the broadcast.
LEMMA CloseInvStep ==
  ASSUME ControlTypes, DataTypes, LockInv, CloseInv, [Next]_vars
  PROVE  CloseInv'
<1> USE DEF ControlTypes, CloseInv, CloserLabels, Closing
<1>1. ASSUME NEW t \in Threads, Call(t) PROVE CloseInv'
  BY <1>1 DEF Call
<1>2. ASSUME NEW t \in Threads, SubmitList(t) PROVE CloseInv'
  BY <1>2 DEF SubmitList
<1>3. ASSUME NEW t \in Threads, SubmitUrb(t) PROVE CloseInv'
  BY <1>3 DEF SubmitUrb
<1>4. ASSUME NEW t \in Threads, MarkInFlight(t) PROVE CloseInv'
  BY <1>4 DEF MarkInFlight
<1>5. ASSUME NEW t \in Threads, SubmitFailed(t) PROVE CloseInv'
  BY <1>5 DEF SubmitFailed
<1>6. ASSUME NEW t \in Threads, Wait(t) PROVE CloseInv'
  BY <1>6 DEF Wait
<1>7. ASSUME NEW t \in Threads, Open(t) \/ Returned(t) PROVE CloseInv'
  BY <1>7 DEF Open, Returned
<1>8. ASSUME NEW t \in Threads, CancelAndRetry(t) \/ Result(t) PROVE CloseInv'
  BY <1>8 DEF CancelAndRetry, Result
<1>9. ASSUME NEW t \in Threads, TakeEvents(t) PROVE CloseInv'
  BY <1>9 DEF TakeEvents
<1>10. ASSUME NEW t \in Threads, Waiter(t) PROVE CloseInv'
  BY <1>10 DEF Waiter
<1>11. ASSUME NEW t \in Threads, Wake(t) PROVE CloseInv'
  BY <1>11 DEF Wake
<1>12. ASSUME NEW t \in Threads, LockTimeouts(t) PROVE CloseInv'
  BY <1>12 DEF LockTimeouts
<1>13. ASSUME NEW t \in Threads, HandleTimeout(t) PROVE CloseInv'
  <2>1. /\ pc[t] = "expire" /\ ((\E x \in Threads : Listed(x) /\ Expired(x) /\ TimeOut(t, x)) \/ TimeoutsDone(t))
        /\ UNCHANGED <<status, until, reported, result, calls, eventsLock, lock, waiting,
             handlerActive, completed, flying, useTimer, now, fdVars, flagVars, gone, faults>>
    BY <1>13, HandleTimeoutCases DEF DataTypes
  <2>2. ASSUME NEW x \in Threads, Listed(x), Expired(x), TimeOut(t, x) PROVE CloseInv'
    BY <2>1, <2>2 DEF TimeOut
  <2>3. CASE TimeoutsDone(t)
    BY <2>1, <2>3 DEF TimeoutsDone
  <2> QED
    BY <2>1, <2>2, <2>3
<1>14. ASSUME NEW t \in Threads, TryLock(t) \/ MarkTimedOut(t) PROVE CloseInv'
  BY <1>14 DEF TryLock, MarkTimedOut
<1>15. ASSUME NEW t \in Threads, Handler(t) PROVE CloseInv'
  BY <1>15 DEF Handler
<1>16. ASSUME NEW t \in Threads, Poll(t) PROVE CloseInv'
  BY <1>16 DEF Poll, PollTimedOut
<1>17. ASSUME NEW t \in Threads, EventTrigger(t) PROVE CloseInv'
  BY <1>17 DEF EventTrigger
<1>18. ASSUME NEW t \in Threads, NextFd(t) PROVE CloseInv'
  BY <1>18, ReadyAreThreads DEF NextFd
<1>19. ASSUME NEW t \in Threads, Reap(t) PROVE CloseInv'
  BY <1>19, ReadyAreThreads DEF Reap, StatusOf
<1>20. ASSUME NEW t \in Threads, Disconnect(t) PROVE CloseInv'
  BY <1>20 DEF Disconnect
<1>21. ASSUME NEW t \in Threads, Cancelled(t) \/ UnlistDone(t) PROVE CloseInv'
  BY <1>21 DEF Cancelled, UnlistDone
<1>22. ASSUME NEW t \in Threads, Landed(t) \/ Callback(t) PROVE CloseInv'
  BY <1>22 DEF Landed, Callback
<1>23. ASSUME NEW t \in Threads, Minute(t) PROVE CloseInv'
  BY <1>23 DEF Minute, PollTimedOut
<1>24. ASSUME NEW t \in Threads, PollFails(t) PROVE CloseInv'
  BY <1>24 DEF PollFails
<1>25. ASSUME NEW t \in Threads, Complete(t) \/ Unplug(t) PROVE CloseInv'
  BY <1>25 DEF Complete, Unplug
<1>26. ASSUME NEW a \in Actors, CloseBegin(a) PROVE CloseInv'
  BY <1>26 DEF CloseBegin
<1>27. ASSUME NEW a \in Actors, CloseLock(a) PROVE CloseInv'
  BY <1>27 DEF CloseLock
<1>28. ASSUME NEW a \in Actors, CloseDrop(a) PROVE CloseInv'
  BY <1>28 DEF CloseDrop
<1>29. ASSUME NEW a \in Actors, CloseFd(a) PROVE CloseInv'
  BY <1>29 DEF CloseFd
<1>30. ASSUME NEW a \in Actors, CloseEnd(a) PROVE CloseInv'
  BY <1>30 DEF CloseEnd
<1>31. ASSUME NEW a \in Actors, UnlockEvents(a) PROVE CloseInv'
  BY <1>31 DEF UnlockEvents
<1>32. ASSUME NEW a \in Actors, Broadcast(a) PROVE CloseInv'
  BY <1>32 DEF Broadcast
<1>33. ASSUME NEW c \in Closers, ChooseVictim(c) PROVE CloseInv'
  BY <1>33 DEF ChooseVictim
<1>34. CASE Interrupt \/ Tick \/ Terminated \/ UNCHANGED vars
  BY <1>34 DEF Interrupt, Tick, Terminated
<1> QED
  BY <1>1, <1>2, <1>3, <1>4, <1>5, <1>6, <1>7, <1>8, <1>9, <1>10, <1>11, <1>12, <1>13,
     <1>14, <1>15, <1>16, <1>17, <1>18, <1>19, <1>20, <1>21, <1>22, <1>23, <1>24, <1>25,
     <1>26, <1>27, <1>28, <1>29, <1>30, <1>31, <1>32, <1>33, <1>34 DEF Next, CallStep,
     WaitStep, HandlerStep, CloseStep

\* The flags and the count of the closes agree, and only sleepers are waiting.
CloseSet == {a \in Actors : pc[a] \in Closing}

\* Only libusb_close begins and ends a close.
LEMMA CloseSetStep ==
  ASSUME ControlTypes, DataTypes, [Next]_vars
  PROVE  \/ UNCHANGED CloseSet
         \/ \E a \in Actors : CloseBegin(a) \/ CloseEnd(a)
<1> USE DEF ControlTypes, CloseSet, Closing
<1>1. ASSUME NEW t \in Threads, Open(t) \/ Call(t) \/ SubmitList(t) \/ SubmitUrb(t) PROVE
       UNCHANGED CloseSet
  BY <1>1 DEF Open, Call, SubmitList, SubmitUrb
<1>2. ASSUME NEW t \in Threads, MarkInFlight(t) \/ SubmitFailed(t) \/ Wait(t) \/ Returned(t)
       PROVE UNCHANGED CloseSet
  BY <1>2 DEF MarkInFlight, SubmitFailed, Wait, Returned
<1>3. ASSUME NEW t \in Threads, CancelAndRetry(t) \/ Result(t) PROVE UNCHANGED CloseSet
  BY <1>3 DEF CancelAndRetry, Result
<1>4. ASSUME NEW t \in Threads, TakeEvents(t) PROVE UNCHANGED CloseSet
  BY <1>4 DEF TakeEvents
<1>5. ASSUME NEW t \in Threads, LockTimeouts(t) PROVE UNCHANGED CloseSet
  BY <1>5 DEF LockTimeouts
<1>6. ASSUME NEW t \in Threads, HandleTimeout(t) PROVE UNCHANGED CloseSet
  <2>1. /\ pc[t] = "expire" /\ ((\E x \in Threads : Listed(x) /\ Expired(x) /\ TimeOut(t, x)) \/ TimeoutsDone(t))
        /\ UNCHANGED <<status, until, reported, result, calls, eventsLock, lock, waiting,
             handlerActive, completed, flying, useTimer, now, fdVars, flagVars, gone, faults>>
    BY <1>6, HandleTimeoutCases DEF DataTypes
  <2>2. ASSUME NEW x \in Threads, Listed(x), Expired(x), TimeOut(t, x) PROVE UNCHANGED CloseSet
    BY <2>1, <2>2 DEF TimeOut
  <2>3. CASE TimeoutsDone(t)
    BY <2>1, <2>3 DEF TimeoutsDone
  <2> QED
    BY <2>1, <2>2, <2>3
<1>7. ASSUME NEW t \in Threads, TryLock(t) \/ Waiter(t) \/ Wake(t) \/ MarkTimedOut(t) PROVE
       UNCHANGED CloseSet
  BY <1>7 DEF TryLock, Waiter, Wake, MarkTimedOut
<1>8. ASSUME NEW t \in Threads, NextFd(t) PROVE UNCHANGED CloseSet
  BY <1>8 DEF NextFd
<1>9. ASSUME NEW t \in Threads, Handler(t) \/ Poll(t) \/ EventTrigger(t) PROVE UNCHANGED
       CloseSet
  BY <1>9 DEF Handler, Poll, PollTimedOut, EventTrigger
<1>10. ASSUME NEW t \in Threads, Reap(t) \/ Disconnect(t) \/ Cancelled(t) PROVE UNCHANGED
       CloseSet
  BY <1>10 DEF Reap, Disconnect, Cancelled
<1>11. ASSUME NEW t \in Threads, UnlistDone(t) \/ Landed(t) \/ Callback(t) PROVE UNCHANGED
       CloseSet
  BY <1>11 DEF UnlistDone, Landed, Callback
<1>12. ASSUME NEW t \in Threads, Minute(t) \/ PollFails(t) \/ Complete(t) \/ Unplug(t) PROVE
       UNCHANGED CloseSet
  BY <1>12 DEF Minute, PollTimedOut, PollFails, Complete, Unplug
<1>13. ASSUME NEW a \in Actors, CloseLock(a) PROVE UNCHANGED CloseSet
  BY <1>13 DEF CloseLock
<1>14. ASSUME NEW a \in Actors, CloseDrop(a) PROVE UNCHANGED CloseSet
  BY <1>14 DEF CloseDrop
<1>15. ASSUME NEW a \in Actors, CloseFd(a) PROVE UNCHANGED CloseSet
  BY <1>15 DEF CloseFd
<1>16. ASSUME NEW a \in Actors, UnlockEvents(a) PROVE UNCHANGED CloseSet
  BY <1>16 DEF UnlockEvents
<1>17. ASSUME NEW a \in Actors, Broadcast(a) PROVE UNCHANGED CloseSet
  BY <1>17 DEF Broadcast
<1>18. ASSUME NEW c \in Closers, ChooseVictim(c) PROVE UNCHANGED CloseSet
  BY <1>18 DEF ChooseVictim
<1>19. CASE Interrupt \/ Tick \/ Terminated \/ UNCHANGED vars
  BY <1>19 DEF Interrupt, Tick, Terminated
<1> QED
  BY <1>1, <1>2, <1>3, <1>4, <1>5, <1>6, <1>7, <1>8, <1>9, <1>10, <1>11, <1>12, <1>13,
     <1>14, <1>15, <1>16, <1>17, <1>18, <1>19 DEF Next, CallStep, WaitStep, HandlerStep,
     CloseStep

LEMMA CloseSetFinite == IsFiniteSet(CloseSet) /\ Cardinality(CloseSet) \in Nat
<1>1. CloseSet \subseteq Actors
  BY DEF CloseSet
<1> QED
  BY <1>1, FS_Subset, FS_CardinalityType

\* Raising a flag makes the event readable, lowering the last one does not leave it so.
FlagsAgree == (event <=> eventFlags # {}) /\ eventFlags \subseteq {"SOURCES_MODIFIED", "DEVICE_CLOSE", "USER_INTERRUPT"}

LEMMA Raised ==
  ASSUME FlagsAgree, NEW f \in {"SOURCES_MODIFIED", "DEVICE_CLOSE", "USER_INTERRUPT"}, Raise(f)
  PROVE  FlagsAgree' /\ eventFlags' = eventFlags \cup {f}
<1>1. eventFlags' = eventFlags \cup {f}
  BY DEF Raise
<1>2. event'
  BY DEF Raise, FlagsAgree
<1> QED
  BY <1>1, <1>2 DEF FlagsAgree

LEMMA Lowered ==
  ASSUME FlagsAgree, NEW fs, Lower(fs)
  PROVE  FlagsAgree' /\ eventFlags' = eventFlags \ fs
<1>1. eventFlags' = eventFlags \ fs
  BY DEF Lower
<1>2. event' <=> eventFlags' # {}
  BY DEF Lower, FlagsAgree
<1> QED
  BY <1>1, <1>2 DEF FlagsAgree

\* device_close is counted up and down once per close, whichever overlap.
LEMMA FlagInvStep ==
  ASSUME ControlTypes, DataTypes, FlagInv, [Next]_vars
  PROVE  FlagInv'
<1> DEFINE Counted == deviceClose = Cardinality(CloseSet) /\ (deviceClose > 0 => "DEVICE_CLOSE" \in eventFlags)
<1>1. Counted' /\ FlagsAgree'
  <2>1. Counted /\ FlagsAgree /\ Cardinality(CloseSet) \in Nat
    BY CloseSetFinite DEF FlagInv, CloseSet, FlagsAgree
  <2>2. ASSUME NEW a \in Actors, CloseBegin(a) PROVE Counted' /\ FlagsAgree'
    <3>1. CloseSet' = CloseSet \cup {a} /\ a \notin CloseSet
      BY <2>2 DEF CloseBegin, CloseSet, Closing, ControlTypes
    <3>2. Cardinality(CloseSet') = Cardinality(CloseSet) + 1
      BY <3>1, CloseSetFinite, FS_AddElement
    <3>3. deviceClose' = deviceClose + 1
      BY <2>2 DEF CloseBegin
    <3>4. FlagsAgree' /\ "DEVICE_CLOSE" \in eventFlags'
      <4>1. CASE deviceClose = 0
        BY <2>1, <2>2, <4>1, Raised DEF CloseBegin
      <4>2. CASE deviceClose # 0
        <5>1. "DEVICE_CLOSE" \in eventFlags
          BY <2>1, <4>2
        <5>2. eventFlags' = eventFlags /\ event' = (event \/ eventFlags = {})
          BY <2>2, <4>2 DEF CloseBegin
        <5> QED
          BY <2>1, <5>1, <5>2 DEF FlagsAgree
      <4> QED
        BY <4>1, <4>2
    <3> QED
      BY <2>1, <3>2, <3>3, <3>4
  <2>3. ASSUME NEW a \in Actors, CloseEnd(a) PROVE Counted' /\ FlagsAgree'
    <3>1. CloseSet' = CloseSet \ {a} /\ a \in CloseSet
      BY <2>3 DEF CloseEnd, CloseSet, Closing, ControlTypes
    <3>2. Cardinality(CloseSet') = Cardinality(CloseSet) - 1
      BY <3>1, CloseSetFinite, FS_RemoveElement
    <3>3. deviceClose' = deviceClose - 1 /\ Lower(IF deviceClose = 1 THEN {"DEVICE_CLOSE"} ELSE {})
      BY <2>3 DEF CloseEnd
    <3>4. FlagsAgree' /\ eventFlags' = eventFlags \ (IF deviceClose = 1 THEN {"DEVICE_CLOSE"} ELSE {})
      BY <2>1, <3>3, Lowered
    <3> QED
      BY <2>1, <3>2, <3>3, <3>4
  <2>4. ASSUME UNCHANGED <<CloseSet, deviceClose>>, NEW f \in {"SOURCES_MODIFIED", "USER_INTERRUPT"},
               Raise(f) \/ Lower({f}) \/ UNCHANGED <<eventFlags, event>>
        PROVE  Counted' /\ FlagsAgree'
    <3>1. FlagsAgree' /\ ("DEVICE_CLOSE" \in eventFlags => "DEVICE_CLOSE" \in eventFlags')
      <4>1. f \in {"SOURCES_MODIFIED", "DEVICE_CLOSE", "USER_INTERRUPT"} /\ f # "DEVICE_CLOSE"
        OBVIOUS
      <4>2. CASE Raise(f)
        BY <2>1, <4>1, <4>2, Raised
      <4>3. CASE Lower({f})
        BY <2>1, <4>1, <4>3, Lowered
      <4>4. CASE UNCHANGED <<eventFlags, event>>
        BY <2>1, <4>4 DEF FlagsAgree
      <4> QED
        BY <2>4, <4>2, <4>3, <4>4
    <3> QED
      BY <2>1, <2>4, <3>1
  <2>5. ASSUME NEW t \in Threads, Open(t) \/ Handler(t) \/ EventTrigger(t) \/ NextFd(t)
        PROVE  deviceClose' = deviceClose /\ \E f \in {"SOURCES_MODIFIED", "USER_INTERRUPT"} :
                 Raise(f) \/ Lower({f}) \/ UNCHANGED <<eventFlags, event>>
    BY <2>5 DEF Open, Handler, EventTrigger, NextFd
  <2>6. ASSUME NEW a \in Actors, CloseFd(a)
        PROVE  deviceClose' = deviceClose /\ (Raise("SOURCES_MODIFIED") \/ UNCHANGED <<eventFlags, event>>)
    BY <2>6 DEF CloseFd
  <2>7. Interrupt => deviceClose' = deviceClose /\ Raise("USER_INTERRUPT")
    BY DEF Interrupt
  <2> HIDE DEF Counted
  <2>8. CASE UNCHANGED CloseSet
    BY <2>2, <2>3, <2>4, <2>5, <2>6, <2>7, <2>8, FlagFrame
  <2> QED
    BY <2>2, <2>3, <2>8, CloseSetStep
<1>2. waiting' \subseteq {t \in Threads : pc'[t] = "asleep"}
  <2>1. waiting \subseteq {t \in Threads : pc[t] = "asleep"}
    BY DEF FlagInv
  <2>2. ASSUME NEW t \in Threads, Waiter(t) \/ Wake(t) \/ Minute(t)
        PROVE  waiting' \subseteq {u \in Threads : pc'[u] = "asleep"}
    BY <2>1, <2>2 DEF Waiter, Wake, Minute, PollTimedOut, ControlTypes
  <2>3. CASE waiting' = waiting /\ ~\E t \in Threads : Waiter(t) \/ Wake(t) \/ Minute(t)
    <3>1. ASSUME NEW t \in Threads, pc[t] = "asleep" PROVE pc'[t] = "asleep"
      BY <2>3, <3>1, Moves
    <3> QED
      BY <2>1, <2>3, <3>1
  <2>4. ASSUME NEW a \in Actors, Broadcast(a) PROVE waiting' = {}
    BY <2>4 DEF Broadcast
  <2> QED
    BY <2>2, <2>3, <2>4, WaitingFrame
<1> QED
  BY <1>1, <1>2 DEF FlagInv, CloseSet, FlagsAgree

\* Whoever completes a transfer or stops handling events holds the events lock, and
\* broadcasts when it gives it up.
LEMMA WakeInvStep ==
  ASSUME ControlTypes, DataTypes, LockInv, FlagInv, FlagInv', WakeInv, [Next]_vars
  PROVE  WakeInv'
<1> DEFINE Waker == \E a \in Actors : eventsLock = a \/ pc[a] = "broadcast"
<1> SUFFICES ASSUME NEW t \in waiting', completed'[t] \/ ~EventHandlerActive' PROVE Waker'
  BY DEF WakeInv
<1>1. deviceClose \in Nat /\ deviceClose' \in Nat
  <2>1. deviceClose = Cardinality(CloseSet) /\ deviceClose' = Cardinality(CloseSet')
    BY DEF FlagInv, CloseSet
  <2>2. CloseSet' \subseteq Actors
    BY DEF CloseSet
  <2> QED
    BY <2>1, <2>2, CloseSetFinite, FS_Subset, FS_CardinalityType
<1>2. ASSUME NEW a \in Actors, UnlockEvents(a) PROVE Waker'
  BY <1>2 DEF UnlockEvents, ControlTypes
<1>3. ASSUME NEW a \in Actors, eventsLock = a PROVE Waker'
  <2>1. ASSUME NEW s \in Threads, TakeEvents(s) PROVE eventsLock' = eventsLock
    BY <2>1, <1>3 DEF TakeEvents
  <2>2. ASSUME NEW b \in Actors, CloseLock(b) PROVE eventsLock' = eventsLock
    BY <2>2, <1>3 DEF CloseLock
  <2> QED
    BY <1>2, <1>3, <2>1, <2>2, EventsLockFrame
<1>4. ASSUME NEW a \in Actors, Broadcast(a) PROVE FALSE
  BY <1>4 DEF Broadcast
<1>5. CASE t \notin waiting
  <2>1. Waiter(t) /\ t \in Threads
    BY <1>5, <1>4, WaitingFrame DEF Waiter, Wake, Minute
  <2>2. ~completed[t] /\ EventHandlerActive /\ UNCHANGED <<completed, deviceClose, handlerActive>>
    BY <1>5, <2>1 DEF Waiter
  <2> QED
    BY <2>2 DEF EventHandlerActive
<1>6. CASE t \in waiting
  <2>1. t \in Threads /\ pc[t] = "asleep"
    BY <1>6 DEF FlagInv
  <2>2. ASSUME completed'[t], ~completed[t] PROVE Waker'
    <3>1. ASSUME NEW s \in Threads, Returned(s) \/ Result(s) PROVE s # t /\ completed'[t] = completed[t]
      BY <3>1, <2>1 DEF Returned, Result, DataTypes
    <3>2. ASSUME NEW s \in Threads, Callback(s) PROVE eventsLock = s
      BY <3>2 DEF Callback, LockInv, HasLock, LockedLabels, InBackend
    <3> QED
      BY <1>3, <2>2, <3>1, <3>2, CompletedFrame
  <2>3. ASSUME ~EventHandlerActive', EventHandlerActive PROVE Waker'
    <3>1. CASE handlerActive
      BY <1>3, <3>1 DEF LockInv, ControlTypes
    <3>2. CASE deviceClose > 0
      <4>1. deviceClose' = 0
        BY <2>3, <1>1 DEF EventHandlerActive
      <4>2. ASSUME NEW a \in Actors, CloseEnd(a) PROVE Waker'
        <5>1. eventsLock = a
          BY <4>2 DEF CloseEnd, LockInv, HasLock, LockedLabels
        <5> QED
          BY <5>1, <1>3
      <4>3. ASSUME NEW a \in Actors, CloseBegin(a) PROVE deviceClose' > 0
        BY <4>3, <1>1 DEF CloseBegin
      <4>4. ASSUME NEW a \in Actors, CloseFd(a) PROVE deviceClose' = deviceClose
        BY <4>4 DEF CloseFd
      <4>5. ASSUME NEW s \in Threads, Open(s) \/ Handler(s) \/ EventTrigger(s) \/ NextFd(s) PROVE deviceClose' = deviceClose
        BY <4>5 DEF Open, Handler, EventTrigger, NextFd
      <4>6. Interrupt => deviceClose' = deviceClose
        BY DEF Interrupt
      <4> QED
        BY <3>2, <4>1, <4>2, <4>3, <4>4, <4>5, <4>6, FlagFrame
    <3> QED
      BY <2>3, <3>1, <3>2 DEF EventHandlerActive
  <2>4. ASSUME completed[t] \/ ~EventHandlerActive PROVE Waker'
    <3>1. PICK a \in Actors : eventsLock = a \/ pc[a] = "broadcast"
      BY <1>6, <2>4 DEF WakeInv
    <3>2. pc[a] = "broadcast" => pc'[a] = "broadcast"
      BY <1>4, Moves
    <3> QED
      BY <1>3, <3>1, <3>2
  <2> QED
    BY <2>2, <2>3, <2>4
<1> QED
  BY <1>5, <1>6

\* An actor's own place of work, report and way back are its own.
LEMMA OnKept ==
  ASSUME ControlTypes, DataTypes, [Next]_vars, NEW a \in Actors, on'[a] # on[a]
  PROVE  \/ Call(a) \/ HandleTimeout(a) \/ MarkTimedOut(a) \/ NextFd(a) \/ Reap(a)
         \/ Callback(a) \/ UnlockEvents(a) \/ (a \in Closers /\ ChooseVictim(a))
<1> USE DEF ControlTypes
<1>1. ASSUME NEW t \in Threads, Call(t) \/ MarkTimedOut(t) \/ NextFd(t) PROVE t = a
  BY <1>1 DEF Call, MarkTimedOut, NextFd
<1>2. ASSUME NEW t \in Threads, Reap(t) \/ Callback(t) PROVE t = a
  BY <1>2 DEF Reap, Callback
<1>3. ASSUME NEW t \in Threads, HandleTimeout(t) PROVE t = a
  <2>1. (\E x \in Threads : TimeOut(t, x)) \/ TimeoutsDone(t)
    BY <1>3, HandleTimeoutCases DEF DataTypes
  <2>2. ASSUME NEW x \in Threads, TimeOut(t, x) PROVE t = a
    BY <2>2 DEF TimeOut
  <2> QED
    BY <2>1, <2>2 DEF TimeoutsDone
<1>4. ASSUME NEW b \in Actors, UnlockEvents(b) PROVE b = a
  BY <1>4 DEF UnlockEvents
<1>5. ASSUME NEW c \in Closers, ChooseVictim(c) PROVE c = a
  BY <1>5 DEF ChooseVictim
<1> QED
  BY <1>1, <1>2, <1>3, <1>4, <1>5, OnFrame

LEMMA AfterKept ==
  ASSUME ControlTypes, DataTypes, [Next]_vars, NEW a \in Actors, after'[a] # after[a]
  PROVE  HandleTimeout(a) \/ Poll(a) \/ EventTrigger(a) \/ Minute(a) \/ UnlockEvents(a)
<1> USE DEF ControlTypes
<1>1. ASSUME NEW t \in Threads, Poll(t) \/ EventTrigger(t) \/ Minute(t) PROVE t = a
  BY <1>1 DEF Poll, EventTrigger, Minute, PollTimedOut
<1>2. ASSUME NEW t \in Threads, HandleTimeout(t) PROVE t = a
  <2>1. (\E x \in Threads : TimeOut(t, x)) \/ TimeoutsDone(t)
    BY <1>2, HandleTimeoutCases DEF DataTypes
  <2>2. ASSUME NEW x \in Threads, TimeOut(t, x) PROVE t = a
    BY <2>2 DEF TimeOut
  <2> QED
    BY <2>1, <2>2 DEF TimeoutsDone
<1>3. ASSUME NEW b \in Actors, UnlockEvents(b) PROVE b = a
  BY <1>3 DEF UnlockEvents
<1> QED
  BY <1>1, <1>2, <1>3, AfterFrame

LEMMA ReportedKept ==
  ASSUME DataTypes, [Next]_vars, NEW a \in Actors, reported'[a] # reported[a]
  PROVE  Poll(a) \/ NextFd(a) \/ Disconnect(a) \/ UnlockEvents(a)
<1>1. ASSUME NEW t \in Threads, Poll(t) PROVE t = a
  BY <1>1 DEF Poll, DataTypes
<1>2. ASSUME NEW t \in Threads, NextFd(t) PROVE t = a
  BY <1>2 DEF NextFd, DataTypes
<1>3. ASSUME NEW t \in Threads, Disconnect(t) PROVE t = a
  BY <1>3 DEF Disconnect, DataTypes
<1>4. ASSUME NEW b \in Actors, UnlockEvents(b) PROVE b = a
  BY <1>4 DEF UnlockEvents, DataTypes
<1> QED
  BY <1>1, <1>2, <1>3, <1>4, ReportedFrame

\* The events lock: one actor at a time polls, handles events or closes.
LEMMA OneAtWork ==
  ASSUME LockInv, NEW a \in Actors, NEW b \in Actors,
         pc[a] \in LockedLabels, pc[b] \in LockedLabels
  PROVE  a = b
  BY DEF LockInv, HasLock

\* What a step that is not the owner's has to leave alone.
Kept(u) ==
  /\ Resting(u)' <=> Resting(u)
  /\ xfer'[u].alive = xfer[u].alive
  /\ pc'[u] = pc[u] \/ (pc[u] \notin Submitting \cup {"wait", "result"} /\ pc'[u] \notin Submitting \cup {"result"})
  /\ (Listed(u)' <=> Listed(u)) \/ (~Listed(u)' /\ pc[u] \notin Submitting /\ (urb'[u] = "none" \/ TornDown(u)'))
  /\ xfer'[u].handle = xfer[u].handle \/ (~Listed(u)' /\ pc[u] \notin Submitting /\ ~completed'[u])
  /\ xfer'[u].inFlight = xfer[u].inFlight \/ (~Listed(u)' /\ pc[u] \notin Submitting)
  /\ \/ completed'[u] = completed[u]
     \/ completed'[u] /\ ~Listed(u)' /\ pc[u] \notin Submitting /\ xfer[u].alive /\ xfer'[u].handle
  /\ urb[u] = "none" => urb'[u] = "none"

LEMMA KeptOwner ==
  ASSUME NEW u, OwnerInv(u), Kept(u), TornDown(u) => TornDown(u)' \/ urb'[u] = "none"
  PROVE  OwnerInv(u)'
<1> USE DEF Submitting
<1>1. xfer'[u].alive <=> ~Resting(u)'
  BY DEF OwnerInv, Kept
<1>2. pc'[u] \in Submitting => xfer'[u].handle /\ ~xfer'[u].inFlight /\ ~completed'[u]
  BY DEF OwnerInv, Kept
<1>3. pc'[u] \in Submitting \ {"submit"} => Listed(u)'
  BY DEF OwnerInv, Kept
<1>4. pc'[u] = "result" => completed'[u]
  BY DEF OwnerInv, Kept
<1>5. Listed(u)' => /\ xfer'[u].alive /\ xfer'[u].handle /\ ~completed'[u]
                    /\ pc'[u] \in Submitting \/ xfer'[u].inFlight
                    /\ pc'[u] # "submit"
  BY DEF OwnerInv, Kept
<1>6. completed'[u] => xfer'[u].alive /\ (xfer'[u].handle \/ pc'[u] \in {"wait", "result"})
  BY DEF OwnerInv, Kept
<1>7. urb'[u] # "none" => TornDown(u)' \/ (Listed(u)' /\ pc'[u] \notin {"urb", "submitFailed"})
  BY DEF OwnerInv, Kept
<1> QED
  BY <1>1, <1>2, <1>3, <1>4, <1>5, <1>6, <1>7 DEF OwnerInv

\* Transfers live as their owners say.
LEMMA OwnerStep ==
  ASSUME ControlTypes, DataTypes, LockInv, CloseInv, TransferInv, [Next]_vars, NEW u \in Threads
  PROVE  OwnerInv(u)'
<1>0. \A t \in Threads : OwnerInv(t)
  BY DEF TransferInv
<1>00. \A a \in Actors, t \in Threads : TouchInv(a, t)
  BY DEF TransferInv
<1>1. ASSUME NEW s \in Threads, Open(s) PROVE OwnerInv(u)'
  <2>1. \A y : Listed(y)' <=> Listed(y)
    BY <1>1, ListKept DEF Open
  <2> QED
    BY <1>1, <2>1, <1>0 DEF Open, CloseInv, DataTypes, ControlTypes, OwnerInv, Resting,
       Closing, Submitting, TornDown
<1>2. ASSUME NEW s \in Threads, Call(s) PROVE OwnerInv(u)'
  <2>1. \A y : Listed(y)' <=> Listed(y)
    BY <1>2, ListKept DEF Call
  <2>2. TornDown(u) => TornDown(u)'
    BY <1>2 DEF Call, TornDown, ControlTypes
  <2>3. s # u => OwnerInv(u)'
    BY <1>2, <2>1, <2>2, <1>0 DEF Call, CloseInv, DataTypes, ControlTypes, OwnerInv, Resting, Closing, Submitting
  <2>4. CASE s = u /\ ~MayCall(u)
    BY <1>2, <2>1, <2>2, <2>4, <1>0 DEF Call, CloseInv, DataTypes, ControlTypes, OwnerInv, Resting, Closing, Submitting
  <2>5. CASE s = u /\ MayCall(u)
    <3>1. /\ pc[u] = "call" /\ pc' = [pc EXCEPT ![u] = "submit"] /\ xfer' = [xfer EXCEPT ![u] = FreshTransfer(u)]
          /\ UNCHANGED <<completed, urb, status>>
      BY <1>2, <2>5 DEF Call
    <3>2. pc'[u] = "submit" /\ xfer'[u] = FreshTransfer(u) /\ Resting(u) /\ status[u] # "CLOSING"
      BY <3>1 DEF DataTypes, ControlTypes, Resting, CloseInv, Closing
    <3>3. ~xfer[u].alive /\ ~Listed(u) /\ ~completed[u] /\ (urb[u] # "none" => TornDown(u))
      BY <3>2, <1>0 DEF OwnerInv
    <3>4. ~Resting(u)'
      BY <3>1, <3>2 DEF Resting, Closing
    <3> QED
      BY <3>1, <3>2, <3>3, <3>4, <2>1, <2>2 DEF OwnerInv, FreshTransfer, Submitting
  <2> QED
    BY <2>3, <2>4, <2>5
<1>3. ASSUME NEW s \in Threads, SubmitList(s) PROVE OwnerInv(u)'
  <2>1. \A y : Listed(y)' <=> Listed(y) \/ y = s
    BY <1>3, SubmitListed DEF SubmitList, DataTypes, TransferInv, OwnerInv
  <2>2. TornDown(u) => TornDown(u)'
    BY <1>3 DEF SubmitList, TornDown, ControlTypes
  <2>3. /\ pc[s] = "submit" /\ pc' = [pc EXCEPT ![s] = "urb"] /\ \E d : xfer' = [xfer EXCEPT ![s].deadline = d]
        /\ UNCHANGED <<completed, urb, status>>
    BY <1>3 DEF SubmitList
  <2>4. /\ xfer'[u].alive = xfer[u].alive /\ xfer'[u].handle = xfer[u].handle
        /\ xfer'[u].inFlight = xfer[u].inFlight
    BY <2>3 DEF DataTypes, TransferType
  <2>5. Resting(u)' <=> Resting(u)
    BY <2>3 DEF Resting, Closing, ControlTypes
  <2>6. pc'[u] = IF u = s THEN "urb" ELSE pc[u]
    BY <2>3 DEF ControlTypes
  <2>7. status[s] # "CLOSING"
    BY <2>3 DEF CloseInv, Closing
  <2>8. pc[s] = "submit" /\ ~Resting(s)
    BY <2>3, <2>7 DEF Resting, Closing
  <2> QED
    BY <2>1, <2>2, <2>3, <2>4, <2>5, <2>6, <2>8, <1>0 DEF OwnerInv, Submitting
<1>4. ASSUME NEW s \in Threads, SubmitUrb(s) PROVE OwnerInv(u)'
  <2>1. \A y : Listed(y)' <=> Listed(y)
    BY <1>4, ListKept DEF SubmitUrb
  <2> QED
    BY <1>4, <2>1, <1>0 DEF SubmitUrb, CloseInv, DataTypes, ControlTypes, OwnerInv, Resting,
       Closing, Submitting, TornDown
<1>5. ASSUME NEW s \in Threads, MarkInFlight(s) PROVE OwnerInv(u)'
  <2>1. \A y : Listed(y)' <=> Listed(y)
    BY <1>5, ListKept DEF MarkInFlight
  <2> QED
    BY <1>5, <2>1, <1>0 DEF MarkInFlight, CloseInv, DataTypes, ControlTypes, OwnerInv,
       Resting, Closing, Submitting, TornDown
<1>6. ASSUME NEW s \in Threads, SubmitFailed(s) PROVE OwnerInv(u)'
  <2>1. \A y : Listed(y)' <=> Listed(y) /\ y # s
    BY <1>6, Unlisted DEF SubmitFailed, Unlist, DataTypes
  <2> QED
    BY <1>6, <2>1, <1>0 DEF SubmitFailed, Freed, FreshTransfer, CloseInv, DataTypes,
       ControlTypes, OwnerInv, Resting, Closing, Submitting, TornDown
<1>7. ASSUME NEW s \in Threads, Wait(s) PROVE OwnerInv(u)'
  <2>1. \A y : Listed(y)' <=> Listed(y)
    BY <1>7, ListKept DEF Wait
  <2> QED
    BY <1>7, <2>1, <1>0 DEF Wait, CloseInv, DataTypes, ControlTypes, OwnerInv, Resting,
       Closing, Submitting, TornDown
<1>8. ASSUME NEW s \in Threads, Returned(s) PROVE OwnerInv(u)'
  <2>1. \A y : Listed(y)' <=> Listed(y)
    BY <1>8, ListKept DEF Returned
  <2>2. TornDown(u) => TornDown(u)'
    BY <1>8 DEF Returned, TornDown, ControlTypes
  <2>3. /\ pc[s] = "returned" /\ pc' = [pc EXCEPT ![s] = "wait"] /\ UNCHANGED <<urb, status>>
        /\ IF xfer[s].handle THEN UNCHANGED <<xfer, completed>>
           ELSE xfer' = [xfer EXCEPT ![s].status = "NO_DEVICE"] /\ completed' = [completed EXCEPT ![s] = TRUE]
    BY <1>8 DEF Returned
  <2>4. /\ xfer'[u].alive = xfer[u].alive /\ xfer'[u].handle = xfer[u].handle
        /\ xfer'[u].inFlight = xfer[u].inFlight
    <3>1. xfer' = xfer \/ xfer' = [xfer EXCEPT ![s].status = "NO_DEVICE"]
      BY <2>3
    <3>2. CASE xfer' = xfer \/ s # u
      BY <3>1, <3>2 DEF DataTypes
    <3>3. CASE s = u /\ xfer' = [xfer EXCEPT ![s].status = "NO_DEVICE"]
      BY <3>3 DEF DataTypes, TransferType
    <3> QED
      BY <3>1, <3>2, <3>3
  <2>5. completed'[u] => completed[u] \/ (u = s /\ ~xfer[u].handle)
    BY <2>3 DEF DataTypes
  <2>6. completed[u] => completed'[u]
    BY <2>3 DEF DataTypes
  <2>7. pc'[u] = IF u = s THEN "wait" ELSE pc[u]
    BY <2>3 DEF ControlTypes
  <2>8. (Resting(u)' <=> Resting(u)) /\ ~Resting(s)
    BY <2>3, <2>7 DEF Resting, Closing, CloseInv
  <2> QED
    BY <2>1, <2>2, <2>3, <2>4, <2>5, <2>6, <2>7, <2>8, <1>0 DEF OwnerInv, Submitting
<1>9. ASSUME NEW s \in Threads, CancelAndRetry(s) PROVE OwnerInv(u)'
  <2>1. \A y : Listed(y)' <=> Listed(y)
    BY <1>9, ListKept DEF CancelAndRetry
  <2> QED
    BY <1>9, <2>1, <1>0 DEF CancelAndRetry, CancelUrb, CancelSucceeds, CanCancel, CloseInv,
       DataTypes, ControlTypes, OwnerInv, Resting, Closing, Submitting, TornDown
<1>10. ASSUME NEW s \in Threads, Result(s) PROVE OwnerInv(u)'
  <2>1. \A y : Listed(y)' <=> Listed(y)
    BY <1>10, ListKept DEF Result
  <2> QED
    BY <1>10, <2>1, <1>0 DEF Result, Freed, FreshTransfer, CloseInv, DataTypes,
       ControlTypes, OwnerInv, Resting, Closing, Submitting, TornDown
<1>11. ASSUME NEW s \in Threads, TryLock(s) PROVE OwnerInv(u)'
  <2>1. \A y : Listed(y)' <=> Listed(y)
    BY <1>11, ListKept DEF TryLock
  <2> QED
    BY <1>11, <2>1, <1>0 DEF TryLock, CloseInv, DataTypes, ControlTypes, OwnerInv, Resting,
       Closing, Submitting, TornDown
<1>12. ASSUME NEW s \in Threads, TakeEvents(s) PROVE OwnerInv(u)'
  <2>1. \A y : Listed(y)' <=> Listed(y)
    BY <1>12, ListKept DEF TakeEvents
  <2> QED
    BY <1>12, <2>1, <1>0 DEF TakeEvents, CloseInv, DataTypes, ControlTypes, OwnerInv,
       Resting, Closing, Submitting, TornDown
<1>13. ASSUME NEW s \in Threads, Waiter(s) PROVE OwnerInv(u)'
  <2>1. \A y : Listed(y)' <=> Listed(y)
    BY <1>13, ListKept DEF Waiter
  <2> QED
    BY <1>13, <2>1, <1>0 DEF Waiter, CloseInv, DataTypes, ControlTypes, OwnerInv, Resting,
       Closing, Submitting, TornDown
<1>14. ASSUME NEW s \in Threads, Wake(s) PROVE OwnerInv(u)'
  <2>1. \A y : Listed(y)' <=> Listed(y)
    BY <1>14, ListKept DEF Wake
  <2> QED
    BY <1>14, <2>1, <1>0 DEF Wake, CloseInv, DataTypes, ControlTypes, OwnerInv, Resting,
       Closing, Submitting, TornDown
<1>15. ASSUME NEW s \in Threads, LockTimeouts(s) PROVE OwnerInv(u)'
  <2>1. \A y : Listed(y)' <=> Listed(y)
    BY <1>15, ListKept DEF LockTimeouts
  <2> QED
    BY <1>15, <2>1, <1>0 DEF LockTimeouts, CloseInv, DataTypes, ControlTypes, OwnerInv,
       Resting, Closing, Submitting, TornDown
<1>16. ASSUME NEW s \in Threads, HandleTimeout(s) PROVE OwnerInv(u)'
  <2>1. UNCHANGED flying
    BY <1>16 DEF HandleTimeout
  <2>2. \A y : Listed(y)' <=> Listed(y)
    BY <2>1, ListKept
  <2>3. pc[s] = "expire" /\ ((\E x \in Threads : Listed(x) /\ Expired(x) /\ TimeOut(s, x)) \/ TimeoutsDone(s))
        /\ UNCHANGED <<status, completed>>
    BY <1>16, HandleTimeoutCases DEF DataTypes
  <2>4. ASSUME NEW x \in Threads, Listed(x), Expired(x), TimeOut(s, x) PROVE OwnerInv(u)'
    <3>1. TornDown(u) => TornDown(u)'
      BY <2>3, <2>4 DEF TimeOut, TornDown, ControlTypes
    <3>2. Resting(u)' <=> Resting(u)
      BY <2>3, <2>4 DEF TimeOut, Resting, Closing, ControlTypes
    <3>3. (urb[u] = "none" => urb'[u] = "none") /\ completed' = completed
      BY <2>3, <2>4 DEF TimeOut, CancelUrb, CancelSucceeds, DataTypes
    <3>4. xfer'[u].alive = xfer[u].alive /\ xfer'[u].handle = xfer[u].handle /\ xfer'[u].inFlight = xfer[u].inFlight
      BY <2>4 DEF TimeOut, DataTypes, TransferType
    <3>5. pc'[u] = pc[u] \/ (pc[u] = "expire" /\ pc'[u] = "expired")
      BY <2>3, <2>4 DEF TimeOut, ControlTypes
    <3>6. Kept(u)
      BY <2>2, <3>2, <3>3, <3>4, <3>5 DEF Kept, Submitting
    <3> QED
      BY <1>0, <3>1, <3>6, KeptOwner
  <2>5. CASE TimeoutsDone(s)
    BY <2>2, <2>3, <2>5, <1>0 DEF TimeoutsDone, CloseInv, DataTypes, ControlTypes, OwnerInv, Resting, Closing, Submitting, TornDown
  <2> QED
    BY <2>3, <2>4, <2>5
<1>17. ASSUME NEW s \in Threads, MarkTimedOut(s) PROVE OwnerInv(u)'
  <2>1. \A y : Listed(y)' <=> Listed(y)
    BY <1>17, ListKept DEF MarkTimedOut
  <2> QED
    BY <1>17, <2>1, <1>0 DEF MarkTimedOut, CloseInv, DataTypes, ControlTypes, OwnerInv,
       Resting, Closing, Submitting, TornDown
<1>18. ASSUME NEW s \in Threads, Handler(s) PROVE OwnerInv(u)'
  <2>1. \A y : Listed(y)' <=> Listed(y)
    BY <1>18, ListKept DEF Handler
  <2>2. TornDown(u) => TornDown(u)'
    BY <1>18 DEF Handler, TornDown, ControlTypes
  <2>3. Resting(u)' <=> Resting(u)
    BY <1>18 DEF Handler, Resting, Closing, ControlTypes, CloseInv
  <2>4. Kept(u)
    BY <1>18, <2>1, <2>2, <2>3 DEF Handler, Kept, ControlTypes, DataTypes, TransferType, Submitting
  <2> QED
    BY <1>0, <2>2, <2>4, KeptOwner
<1>19. ASSUME NEW s \in Threads, Poll(s) PROVE OwnerInv(u)'
  <2>1. \A y : Listed(y)' <=> Listed(y)
    BY <1>19, ListKept DEF Poll, PollTimedOut
  <2> QED
    BY <1>19, <2>1, <1>0 DEF Poll, PollTimedOut, CloseInv, DataTypes, ControlTypes,
       OwnerInv, Resting, Closing, Submitting, TornDown
<1>20. ASSUME NEW s \in Threads, EventTrigger(s) PROVE OwnerInv(u)'
  <2>1. \A y : Listed(y)' <=> Listed(y)
    BY <1>20, ListKept DEF EventTrigger
  <2> QED
    BY <1>20, <2>1, <1>0 DEF EventTrigger, CloseInv, DataTypes, ControlTypes, OwnerInv,
       Resting, Closing, Submitting, TornDown
<1>21. ASSUME NEW s \in Threads, NextFd(s) PROVE OwnerInv(u)'
  <2>1. \A y : Listed(y)' <=> Listed(y)
    BY <1>21, ListKept DEF NextFd
  <2>2. /\ UNCHANGED <<xfer, completed, status, urb>> /\ pc[s] = "fds"
        /\ pc' = pc \/ \E l \in {"unlock", "disconnect"} : pc' = [pc EXCEPT ![s] = l]
        /\ \A a \in Actors \ {s} : on'[a] = on[a]
    <3>1. UNCHANGED <<xfer, completed, status, urb>> /\ pc[s] = "fds"
      BY <1>21 DEF NextFd
    <3>2. \/ on' = on /\ pc' = pc
          \/ on' = on /\ pc' = [pc EXCEPT ![s] = "unlock"]
          \/ (\E h \in reported[s].ready : on' = [on EXCEPT ![s] = h]) /\ pc' = [pc EXCEPT ![s] = "disconnect"]
      BY <1>21 DEF NextFd
    <3>3. pc' = pc \/ \E l \in {"unlock", "disconnect"} : pc' = [pc EXCEPT ![s] = l]
      BY <3>2
    <3>4. \A a \in Actors \ {s} : on'[a] = on[a]
      BY <3>2 DEF ControlTypes
    <3> QED
      BY <3>1, <3>3, <3>4
  <2>3. TornDown(u) => TornDown(u)'
    BY <2>2 DEF TornDown, ControlTypes
  <2>4. Resting(u)' <=> Resting(u)
    BY <2>2 DEF Resting, Closing, ControlTypes
  <2>5. Kept(u)
    BY <2>1, <2>2, <2>3, <2>4 DEF Kept, ControlTypes, DataTypes, TransferType, Submitting
  <2> QED
    BY <1>0, <2>3, <2>5, KeptOwner
<1>22. ASSUME NEW s \in Threads, Reap(s) PROVE OwnerInv(u)'
  <2>1. \A y : Listed(y)' <=> Listed(y)
    BY <1>22, ListKept DEF Reap
  <2>2. TornDown(u) => TornDown(u)'
    BY <1>22 DEF Reap, TornDown, ControlTypes
  <2>3. Resting(u)' <=> Resting(u)
    <3>1. pc[s] \in {"fds", "disconnect"} /\ \E st, l : st # "CLOSING" /\ l \in {"cancelled", "unlist"}
            /\ status' = [status EXCEPT ![s] = st] /\ pc' = [pc EXCEPT ![s] = l]
      BY <1>22 DEF Reap, StatusOf
    <3>2. status[s] # "CLOSING"
      BY <3>1 DEF CloseInv, Closing
    <3> QED
      BY <3>1, <3>2 DEF Resting, Closing, ControlTypes
  <2>4. Kept(u)
    BY <1>22, <2>1, <2>2, <2>3 DEF Reap, Kept, ControlTypes, DataTypes, TransferType, Submitting
  <2> QED
    BY <1>0, <2>2, <2>4, KeptOwner
<1>23. ASSUME NEW s \in Threads, Disconnect(s) PROVE OwnerInv(u)'
  <2>1. \A y : Listed(y)' <=> Listed(y)
    BY <1>23, ListKept DEF Disconnect
  <2>2. TornDown(u) => TornDown(u)'
    BY <1>23 DEF Disconnect, TornDown, ControlTypes
  <2>3. Resting(u)' <=> Resting(u)
    BY <1>23 DEF Disconnect, Resting, Closing, ControlTypes, CloseInv
  <2>4. Kept(u)
    BY <1>23, <2>1, <2>2, <2>3 DEF Disconnect, Kept, ControlTypes, DataTypes, TransferType, Submitting
  <2> QED
    BY <1>0, <2>2, <2>4, KeptOwner
<1>24. ASSUME NEW s \in Threads, Cancelled(s) PROVE OwnerInv(u)'
  <2>1. \A y : Listed(y)' <=> Listed(y)
    BY <1>24, ListKept DEF Cancelled
  <2>2. TornDown(u) => TornDown(u)'
    BY <1>24 DEF Cancelled, TornDown, ControlTypes
  <2>3. Resting(u)' <=> Resting(u)
    BY <1>24 DEF Cancelled, Resting, Closing, ControlTypes, CloseInv
  <2>4. Kept(u)
    BY <1>24, <2>1, <2>2, <2>3 DEF Cancelled, Kept, ControlTypes, DataTypes, TransferType, Submitting
  <2> QED
    BY <1>0, <2>2, <2>4, KeptOwner
<1>25. ASSUME NEW s \in Threads, UnlistDone(s) PROVE OwnerInv(u)'
  <2>1. \A y : Listed(y)' <=> Listed(y) /\ y # on[s]
    BY <1>25, Unlisted DEF UnlistDone, Unlist, DataTypes
  <2>2. TornDown(u) => TornDown(u)'
    BY <1>25 DEF UnlistDone, TornDown, ControlTypes
  <2>3. Resting(u)' <=> Resting(u)
    BY <1>25 DEF UnlistDone, Resting, Closing, ControlTypes, CloseInv
  <2>5. pc[s] = "unlist" /\ on[s] \in Threads \cup {NoOne} /\ NoOne \notin Threads
    BY <1>25 DEF UnlistDone, ControlTypes, Actors
  <2>6. on[s] = u => xfer[u].alive /\ xfer[u].handle /\ pc[u] \notin Submitting /\ urb[u] = "none"
    BY <2>5, <1>00 DEF TouchInv, Touches
  <2>7. on[s] = u => (Listed(u) <=> TRUE)
    BY <2>5, <1>00 DEF TouchInv, Touches
  <2>8. Kept(u)
    BY <1>25, <2>1, <2>2, <2>3, <2>5, <2>6, <2>7 DEF UnlistDone, Kept, ControlTypes, DataTypes, TransferType, Submitting
  <2> QED
    BY <1>0, <2>2, <2>8, KeptOwner
<1>26. ASSUME NEW s \in Threads, Landed(s) PROVE OwnerInv(u)'
  <2>1. \A y : Listed(y)' <=> Listed(y)
    BY <1>26, ListKept DEF Landed
  <2>2. TornDown(u) => TornDown(u)'
    BY <1>26 DEF Landed, TornDown, ControlTypes
  <2>3. Resting(u)' <=> Resting(u)
    BY <1>26 DEF Landed, Resting, Closing, ControlTypes, CloseInv
  <2>5. pc[s] = "landed" /\ on[s] \in Threads \cup {NoOne} /\ NoOne \notin Threads
    BY <1>26 DEF Landed, ControlTypes, Actors
  <2>6. on[s] = u => xfer[u].alive /\ xfer[u].handle /\ pc[u] \notin Submitting /\ urb[u] = "none"
    BY <2>5, <1>00 DEF TouchInv, Touches
  <2>7. on[s] = u => (Listed(u) <=> FALSE)
    BY <2>5, <1>00 DEF TouchInv, Touches
  <2>8. pc'[u] = pc[u] \/ (pc[u] = "landed" /\ pc'[u] = "callback")
    BY <1>26 DEF Landed, ControlTypes
  <2>9. UNCHANGED <<completed, urb>> /\ xfer' = [xfer EXCEPT ![on[s]].inFlight = FALSE, ![on[s]].status = status[s]]
    BY <1>26 DEF Landed
  <2>10. xfer'[u].alive = xfer[u].alive /\ xfer'[u].handle = xfer[u].handle
         /\ (xfer'[u].inFlight = xfer[u].inFlight \/ on[s] = u)
    <3>1. CASE on[s] = u
      BY <2>9, <3>1 DEF DataTypes, TransferType
    <3>2. CASE on[s] # u
      BY <2>9, <3>2 DEF DataTypes
    <3> QED
      BY <3>1, <3>2
  <2>11. Kept(u)
    BY <2>1, <2>3, <2>6, <2>7, <2>8, <2>9, <2>10 DEF Kept, Submitting
  <2> QED
    BY <1>0, <2>2, <2>11, KeptOwner
<1>27. ASSUME NEW s \in Threads, Callback(s) PROVE OwnerInv(u)'
  <2>1. \A y : Listed(y)' <=> Listed(y)
    BY <1>27, ListKept DEF Callback
  <2>2. TornDown(u) => TornDown(u)'
    BY <1>27 DEF Callback, TornDown, ControlTypes
  <2>3. Resting(u)' <=> Resting(u)
    BY <1>27 DEF Callback, Resting, Closing, ControlTypes, CloseInv
  <2>5. pc[s] = "callback" /\ on[s] \in Threads \cup {NoOne} /\ NoOne \notin Threads
    BY <1>27 DEF Callback, ControlTypes, Actors
  <2>6. on[s] = u => xfer[u].alive /\ xfer[u].handle /\ pc[u] \notin Submitting /\ urb[u] = "none"
    BY <2>5, <1>00 DEF TouchInv, Touches
  <2>7. on[s] = u => (Listed(u) <=> FALSE)
    BY <2>5, <1>00 DEF TouchInv, Touches
  <2>8. Kept(u)
    BY <1>27, <2>1, <2>2, <2>3, <2>5, <2>6, <2>7 DEF Callback, Kept, ControlTypes, DataTypes, TransferType, Submitting
  <2> QED
    BY <1>0, <2>2, <2>8, KeptOwner
<1>28. ASSUME NEW s \in Threads, Minute(s) PROVE OwnerInv(u)'
  <2>1. \A y : Listed(y)' <=> Listed(y)
    BY <1>28, ListKept DEF Minute, PollTimedOut
  <2> QED
    BY <1>28, <2>1, <1>0 DEF Minute, PollTimedOut, CloseInv, DataTypes, ControlTypes,
       OwnerInv, Resting, Closing, Submitting, TornDown
<1>29. ASSUME NEW s \in Threads, PollFails(s) PROVE OwnerInv(u)'
  <2>1. \A y : Listed(y)' <=> Listed(y)
    BY <1>29, ListKept DEF PollFails
  <2> QED
    BY <1>29, <2>1, <1>0 DEF PollFails, CloseInv, DataTypes, ControlTypes, OwnerInv,
       Resting, Closing, Submitting, TornDown
<1>30. ASSUME NEW s \in Threads, Complete(s) PROVE OwnerInv(u)'
  <2>1. \A y : Listed(y)' <=> Listed(y)
    BY <1>30, ListKept DEF Complete
  <2> QED
    BY <1>30, <2>1, <1>0 DEF Complete, CloseInv, DataTypes, ControlTypes, OwnerInv, Resting,
       Closing, Submitting, TornDown
<1>31. ASSUME NEW s \in Threads, Unplug(s) PROVE OwnerInv(u)'
  <2>1. \A y : Listed(y)' <=> Listed(y)
    BY <1>31, ListKept DEF Unplug
  <2> QED
    BY <1>31, <2>1, <1>0 DEF Unplug, CloseInv, DataTypes, ControlTypes, OwnerInv, Resting,
       Closing, Submitting, TornDown
<1>32. ASSUME NEW a \in Actors, CloseBegin(a) PROVE OwnerInv(u)'
  <2>1. \A y : Listed(y)' <=> Listed(y)
    BY <1>32, ListKept DEF CloseBegin
  <2> QED
    BY <1>32, <2>1, <1>0 DEF CloseBegin, CloseInv, DataTypes, ControlTypes, OwnerInv,
       Resting, Closing, Submitting, TornDown
<1>33. ASSUME NEW a \in Actors, CloseLock(a) PROVE OwnerInv(u)'
  <2>1. \A y : Listed(y)' <=> Listed(y)
    BY <1>33, ListKept DEF CloseLock
  <2> QED
    BY <1>33, <2>1, <1>0 DEF CloseLock, CloseInv, DataTypes, ControlTypes, OwnerInv,
       Resting, Closing, Submitting, TornDown
<1>34. ASSUME NEW a \in Actors, CloseDrop(a) PROVE OwnerInv(u)'
  <2>1. \A y : Listed(y)' <=> Listed(y) /\ y # on[a]
    BY <1>34, Unlisted, ListKept DEF CloseDrop, DataTypes, Listed
  <2>2. TornDown(u) => TornDown(u)'
    BY <1>34 DEF CloseDrop, TornDown, ControlTypes
  <2>3. Resting(u)' <=> Resting(u)
    BY <1>34 DEF CloseDrop, Resting, Closing, ControlTypes, CloseInv
  <2>4. pc[a] = "drop" /\ pc'[a] = "closeFd" /\ on'[a] = on[a]
    BY <1>34 DEF CloseDrop, ControlTypes
  <2>5. on[a] = u => pc[u] \notin Submitting /\ TornDown(u)'
    <3>1. ASSUME on[a] = u, a \in Threads PROVE pc[u] \notin Submitting
      BY <2>4, <3>1 DEF CloseInv, Closing, Submitting
    <3>2. ASSUME on[a] = u, a \in Closers PROVE pc[u] \notin Submitting
      BY <3>2 DEF TransferInv
    <3> QED
      BY <2>4, <3>1, <3>2 DEF Actors, TornDown
  <2>6. Listed(u) => ~completed[u]
    BY <1>0 DEF OwnerInv
  <2>7. /\ UNCHANGED <<completed, urb, status>> /\ pc' = [pc EXCEPT ![a] = "closeFd"]
        /\ UNCHANGED xfer \/ (Listed(on[a]) /\ xfer' = [xfer EXCEPT ![on[a]].handle = FALSE])
    BY <1>34 DEF CloseDrop, Listed
  <2>8. Listed(u)' <=> Listed(u) /\ u # on[a]
    BY <2>1
  <2>9. xfer'[u].alive = xfer[u].alive /\ xfer'[u].inFlight = xfer[u].inFlight
        /\ (xfer'[u].handle = xfer[u].handle \/ (on[a] = u /\ Listed(u)))
    <3>1. CASE xfer' = xfer
      BY <3>1
    <3>2. CASE Listed(on[a]) /\ on[a] # u /\ xfer' = [xfer EXCEPT ![on[a]].handle = FALSE]
      BY <3>2 DEF DataTypes
    <3>3. CASE Listed(on[a]) /\ on[a] = u /\ xfer' = [xfer EXCEPT ![u].handle = FALSE]
      BY <3>3 DEF DataTypes, TransferType
    <3> QED
      BY <2>7, <3>1, <3>2, <3>3
  <2>10. pc'[u] = pc[u] \/ (pc[u] = "drop" /\ pc'[u] = "closeFd")
    BY <2>4, <2>7 DEF ControlTypes
  <2>11. Kept(u)
    BY <2>3, <2>5, <2>6, <2>7, <2>8, <2>9, <2>10 DEF Kept, Submitting
  <2> QED
    BY <1>0, <2>2, <2>11, KeptOwner
<1>35. ASSUME NEW a \in Actors, CloseFd(a) PROVE OwnerInv(u)'
  <2>1. \A y : Listed(y)' <=> Listed(y)
    BY <1>35, ListKept DEF CloseFd
  <2> QED
    BY <1>35, <2>1, <1>0 DEF CloseFd, CloseInv, DataTypes, ControlTypes, OwnerInv, Resting,
       Closing, Submitting, TornDown
<1>36. ASSUME NEW a \in Actors, CloseEnd(a) PROVE OwnerInv(u)'
  <2>1. \A y : Listed(y)' <=> Listed(y)
    BY <1>36, ListKept DEF CloseEnd
  <2> QED
    BY <1>36, <2>1, <1>0 DEF CloseEnd, CloseInv, DataTypes, ControlTypes, OwnerInv, Resting,
       Closing, Submitting, TornDown
<1>37. ASSUME NEW a \in Actors, UnlockEvents(a) PROVE OwnerInv(u)'
  <2>1. \A y : Listed(y)' <=> Listed(y)
    BY <1>37, ListKept DEF UnlockEvents
  <2> QED
    BY <1>37, <2>1, <1>0 DEF UnlockEvents, CloseInv, DataTypes, ControlTypes, OwnerInv,
       Resting, Closing, Submitting, TornDown
<1>38. ASSUME NEW a \in Actors, Broadcast(a) PROVE OwnerInv(u)'
  <2>1. \A y : Listed(y)' <=> Listed(y)
    BY <1>38, ListKept DEF Broadcast
  <2> QED
    BY <1>38, <2>1, <1>0 DEF Broadcast, CloseInv, DataTypes, ControlTypes, OwnerInv,
       Resting, Closing, Submitting, TornDown
<1>39. ASSUME NEW c \in Closers, ChooseVictim(c) PROVE OwnerInv(u)'
  <2>1. \A y : Listed(y)' <=> Listed(y)
    BY <1>39, ListKept DEF ChooseVictim
  <2>2. TornDown(u) => TornDown(u)'
    BY <1>39 DEF ChooseVictim, TornDown, ControlTypes
  <2>3. Resting(u)' <=> Resting(u)
    BY <1>39 DEF ChooseVictim, Resting, Closing, ControlTypes, CloseInv
  <2>4. Kept(u)
    BY <1>39, <2>1, <2>2, <2>3 DEF ChooseVictim, Kept, ControlTypes, DataTypes, TransferType, Submitting
  <2> QED
    BY <1>0, <2>2, <2>4, KeptOwner
<1>40. CASE Interrupt \/ Tick \/ Terminated \/ UNCHANGED vars
  <2>1. \A y : Listed(y)' <=> Listed(y)
    BY <1>40, ListKept DEF Interrupt, Tick, Terminated
  <2> QED
    BY <1>40, <2>1, <1>0 DEF Interrupt, Tick, Terminated, CloseInv, DataTypes, ControlTypes,
       OwnerInv, Resting, Closing, Submitting, TornDown
<1> QED
  BY <1>1, <1>2, <1>3, <1>4, <1>5, <1>6, <1>7, <1>8, <1>9, <1>10, <1>11, <1>12, <1>13,
     <1>14, <1>15, <1>16, <1>17, <1>18, <1>19, <1>20, <1>21, <1>22, <1>23, <1>24, <1>25,
     <1>26, <1>27, <1>28, <1>29, <1>30, <1>31, <1>32, <1>33, <1>34, <1>35, <1>36, <1>37,
     <1>38, <1>39, <1>40 DEF Next, CallStep, WaitStep, HandlerStep, CloseStep

\* A transfer is touched by one at a time, and only while it is whole.
LEMMA TouchStep ==
  ASSUME ControlTypes, DataTypes, LockInv, CloseInv, TransferInv, [Next]_vars,
         NEW b \in Actors, NEW u \in Threads
  PROVE  TouchInv(b, u)'
<1>0. TouchInv(b, u) /\ OwnerInv(u) /\ \A a \in Actors : TouchInv(a, u)
  BY DEF TransferInv
<1>00. /\ pc[b] = "expired" => flyingLock = b /\ b # NoOne
       /\ \A s \in Actors : pc[s] \in LockedLabels /\ pc[b] \in Touches \ {"expired"} => s = b
  BY OneAtWork DEF LockInv, LockedLabels, InBackend, Touches
<1>1. ASSUME NEW s \in Threads, Open(s) PROVE TouchInv(b, u)'
  <2>1. \A y : Listed(y)' <=> Listed(y)
    BY <1>1, ListKept DEF Open
  <2> QED
    BY <1>1, <2>1, <1>0, <1>00 DEF Open, TouchInv, OwnerInv, Touches, Submitting,
       ControlTypes, DataTypes
<1>2. ASSUME NEW s \in Threads, Call(s) PROVE TouchInv(b, u)'
  <2>1. \A y : Listed(y)' <=> Listed(y)
    BY <1>2, ListKept DEF Call
  <2>2. pc[s] = "call" /\ (s = u => ~xfer[u].alive) /\ UNCHANGED <<completed, urb>>
    BY <1>2, <1>0 DEF Call, OwnerInv, Resting
  <2>3. pc'[b] \in Touches => pc'[b] = pc[b] /\ b # s
    BY <1>2 DEF Call, Touches, ControlTypes
  <2>4. s # u => pc'[u] = pc[u] /\ xfer'[u] = xfer[u]
    BY <1>2 DEF Call, ControlTypes, DataTypes
  <2>5. b # s => on'[b] = on[b]
    BY <1>2 DEF Call, ControlTypes
  <2> QED
    BY <2>1, <2>2, <2>3, <2>4, <2>5, <1>0 DEF TouchInv
<1>3. ASSUME NEW s \in Threads, SubmitList(s) PROVE TouchInv(b, u)'
  <2>1. \A y : Listed(y)' <=> Listed(y) \/ y = s
    BY <1>3, SubmitListed DEF SubmitList, DataTypes, TransferInv, OwnerInv
  <2> QED
    BY <1>3, <2>1, <1>0, <1>00 DEF SubmitList, TouchInv, OwnerInv, Touches, Submitting,
       ControlTypes, DataTypes
<1>4. ASSUME NEW s \in Threads, SubmitUrb(s) PROVE TouchInv(b, u)'
  <2>1. \A y : Listed(y)' <=> Listed(y)
    BY <1>4, ListKept DEF SubmitUrb
  <2> QED
    BY <1>4, <2>1, <1>0, <1>00 DEF SubmitUrb, TouchInv, OwnerInv, Touches, Submitting,
       ControlTypes, DataTypes
<1>5. ASSUME NEW s \in Threads, MarkInFlight(s) PROVE TouchInv(b, u)'
  <2>1. \A y : Listed(y)' <=> Listed(y)
    BY <1>5, ListKept DEF MarkInFlight
  <2> QED
    BY <1>5, <2>1, <1>0, <1>00 DEF MarkInFlight, TouchInv, OwnerInv, Touches, Submitting,
       ControlTypes, DataTypes
<1>6. ASSUME NEW s \in Threads, SubmitFailed(s) PROVE TouchInv(b, u)'
  <2>1. \A y : Listed(y)' <=> Listed(y) /\ y # s
    BY <1>6, Unlisted DEF SubmitFailed, Unlist, DataTypes
  <2> QED
    BY <1>6, <2>1, <1>0, <1>00 DEF SubmitFailed, Freed, FreshTransfer, TouchInv, OwnerInv,
       Touches, Submitting, ControlTypes, DataTypes
<1>7. ASSUME NEW s \in Threads, Wait(s) PROVE TouchInv(b, u)'
  <2>1. \A y : Listed(y)' <=> Listed(y)
    BY <1>7, ListKept DEF Wait
  <2> QED
    BY <1>7, <2>1, <1>0, <1>00 DEF Wait, TouchInv, OwnerInv, Touches, Submitting,
       ControlTypes, DataTypes
<1>8. ASSUME NEW s \in Threads, Returned(s) PROVE TouchInv(b, u)'
  <2>1. \A y : Listed(y)' <=> Listed(y)
    BY <1>8, ListKept DEF Returned
  <2> QED
    BY <1>8, <2>1, <1>0, <1>00 DEF Returned, TouchInv, OwnerInv, Touches, Submitting,
       ControlTypes, DataTypes
<1>9. ASSUME NEW s \in Threads, CancelAndRetry(s) PROVE TouchInv(b, u)'
  <2>1. \A y : Listed(y)' <=> Listed(y)
    BY <1>9, ListKept DEF CancelAndRetry
  <2> QED
    BY <1>9, <2>1, <1>0, <1>00 DEF CancelAndRetry, CancelUrb, CancelSucceeds, CanCancel,
       TouchInv, OwnerInv, Touches, Submitting, ControlTypes, DataTypes
<1>10. ASSUME NEW s \in Threads, Result(s) PROVE TouchInv(b, u)'
  <2>1. \A y : Listed(y)' <=> Listed(y)
    BY <1>10, ListKept DEF Result
  <2> QED
    BY <1>10, <2>1, <1>0, <1>00 DEF Result, Freed, FreshTransfer, TouchInv, OwnerInv,
       Touches, Submitting, ControlTypes, DataTypes
<1>11. ASSUME NEW s \in Threads, TryLock(s) PROVE TouchInv(b, u)'
  <2>1. \A y : Listed(y)' <=> Listed(y)
    BY <1>11, ListKept DEF TryLock
  <2> QED
    BY <1>11, <2>1, <1>0, <1>00 DEF TryLock, TouchInv, OwnerInv, Touches, Submitting,
       ControlTypes, DataTypes
<1>12. ASSUME NEW s \in Threads, TakeEvents(s) PROVE TouchInv(b, u)'
  <2>1. \A y : Listed(y)' <=> Listed(y)
    BY <1>12, ListKept DEF TakeEvents
  <2> QED
    BY <1>12, <2>1, <1>0, <1>00 DEF TakeEvents, TouchInv, OwnerInv, Touches, Submitting,
       ControlTypes, DataTypes
<1>13. ASSUME NEW s \in Threads, Waiter(s) PROVE TouchInv(b, u)'
  <2>1. \A y : Listed(y)' <=> Listed(y)
    BY <1>13, ListKept DEF Waiter
  <2> QED
    BY <1>13, <2>1, <1>0, <1>00 DEF Waiter, TouchInv, OwnerInv, Touches, Submitting,
       ControlTypes, DataTypes
<1>14. ASSUME NEW s \in Threads, Wake(s) PROVE TouchInv(b, u)'
  <2>1. \A y : Listed(y)' <=> Listed(y)
    BY <1>14, ListKept DEF Wake
  <2> QED
    BY <1>14, <2>1, <1>0, <1>00 DEF Wake, TouchInv, OwnerInv, Touches, Submitting,
       ControlTypes, DataTypes
<1>15. ASSUME NEW s \in Threads, LockTimeouts(s) PROVE TouchInv(b, u)'
  <2>1. \A y : Listed(y)' <=> Listed(y)
    BY <1>15, ListKept DEF LockTimeouts
  <2> QED
    BY <1>15, <2>1, <1>0, <1>00 DEF LockTimeouts, TouchInv, OwnerInv, Touches, Submitting,
       ControlTypes, DataTypes
<1>16. ASSUME NEW s \in Threads, HandleTimeout(s) PROVE TouchInv(b, u)'
  <2>1. UNCHANGED flying
    BY <1>16 DEF HandleTimeout
  <2>2. \A y : Listed(y)' <=> Listed(y)
    BY <2>1, ListKept
  <2>3. pc[s] = "expire" /\ ((\E x \in Threads : Listed(x) /\ Expired(x) /\ TimeOut(s, x)) \/ TimeoutsDone(s))
        /\ UNCHANGED <<status, completed>>
    BY <1>16, HandleTimeoutCases DEF DataTypes
  <2>4. ASSUME NEW x \in Threads, Listed(x), Expired(x), TimeOut(s, x) PROVE TouchInv(b, u)'
    BY <2>2, <2>3, <2>4, <1>0, <1>00 DEF TimeOut, CancelUrb, CancelSucceeds, CanCancel, TouchInv, OwnerInv, Touches, Submitting, ControlTypes, DataTypes
  <2>5. CASE TimeoutsDone(s)
    BY <2>2, <2>3, <2>5, <1>0, <1>00 DEF TimeoutsDone, TouchInv, OwnerInv, Touches, Submitting, ControlTypes, DataTypes
  <2> QED
    BY <2>3, <2>4, <2>5
<1>17. ASSUME NEW s \in Threads, MarkTimedOut(s) PROVE TouchInv(b, u)'
  <2>1. \A y : Listed(y)' <=> Listed(y)
    BY <1>17, ListKept DEF MarkTimedOut
  <2> QED
    BY <1>17, <2>1, <1>0, <1>00 DEF MarkTimedOut, TouchInv, OwnerInv, Touches, Submitting,
       ControlTypes, DataTypes
<1>18. ASSUME NEW s \in Threads, Handler(s) PROVE TouchInv(b, u)'
  <2>1. \A y : Listed(y)' <=> Listed(y)
    BY <1>18, ListKept DEF Handler
  <2> QED
    BY <1>18, <2>1, <1>0, <1>00 DEF Handler, TouchInv, OwnerInv, Touches, Submitting,
       ControlTypes, DataTypes
<1>19. ASSUME NEW s \in Threads, Poll(s) PROVE TouchInv(b, u)'
  <2>1. \A y : Listed(y)' <=> Listed(y)
    BY <1>19, ListKept DEF Poll, PollTimedOut
  <2> QED
    BY <1>19, <2>1, <1>0, <1>00 DEF Poll, PollTimedOut, TouchInv, OwnerInv, Touches,
       Submitting, ControlTypes, DataTypes
<1>20. ASSUME NEW s \in Threads, EventTrigger(s) PROVE TouchInv(b, u)'
  <2>1. \A y : Listed(y)' <=> Listed(y)
    BY <1>20, ListKept DEF EventTrigger
  <2> QED
    BY <1>20, <2>1, <1>0, <1>00 DEF EventTrigger, TouchInv, OwnerInv, Touches, Submitting,
       ControlTypes, DataTypes
<1>21. ASSUME NEW s \in Threads, NextFd(s) PROVE TouchInv(b, u)'
  <2>1. \A y : Listed(y)' <=> Listed(y)
    BY <1>21, ListKept DEF NextFd
  <2> QED
    BY <1>21, <2>1, <1>0, <1>00, ReadyAreThreads DEF NextFd, TouchInv, OwnerInv, Touches,
       Submitting, ControlTypes, DataTypes
<1>22. ASSUME NEW s \in Threads, Reap(s) PROVE TouchInv(b, u)'
  <2>1. \A y : Listed(y)' <=> Listed(y)
    BY <1>22, ListKept DEF Reap
  <2>2. PICK h \in reported[s].ready :
          /\ urb[h] # "none" /\ lock[h] = NoOne
          /\ on' = [on EXCEPT ![s] = h] /\ urb' = [urb EXCEPT ![h] = "none"]
          /\ pc' = [pc EXCEPT ![s] = IF urb[h] = "discarded" THEN "cancelled" ELSE "unlist"]
          /\ pc[s] \in {"fds", "disconnect"} /\ UNCHANGED <<xfer, completed>>
    BY <1>22 DEF Reap, Retrieved
  <2>3. pc[s] \in LockedLabels /\ ~TornDown(u)
    <3>1. pc[s] \in {"fds", "disconnect"}
      BY <1>22 DEF Reap, Disconnect
    <3>2. pc[s] \in LockedLabels /\ pc[s] # "closeFd" /\ "closeFd" \in LockedLabels
      BY <3>1 DEF LockedLabels, InBackend
    <3> QED
      BY <3>2, OneAtWork DEF TornDown
  <2>4. h \in Threads /\ pc'[s] \in {"cancelled", "unlist"} /\ on'[s] = h
    BY <2>2, ReadyAreThreads DEF ControlTypes
  <2>5. pc'[u] \in Submitting => pc[u] \in Submitting
    BY <2>2, <2>4 DEF ControlTypes, Submitting
  <2>6. urb'[u] = "none" \/ urb'[u] = urb[u]
    BY <2>2 DEF DataTypes
  <2>7. CASE b # s
    <3>1. pc'[b] = pc[b] /\ on'[b] = on[b]
      BY <2>2, <2>7 DEF ControlTypes
    <3> QED
      BY <3>1, <2>1, <2>2, <2>5, <2>6, <1>0 DEF TouchInv
  <2>8. CASE b = s /\ h = u
    <3>1. Listed(u) /\ pc[u] \notin {"urb", "submitFailed"}
      BY <2>2, <2>3, <2>8, <1>0 DEF OwnerInv
    <3>2. pc[u] # "mark" /\ lock[u] = NoOne
      BY <2>2, <2>8, <2>4 DEF LockInv
    <3>3. xfer[u].alive /\ xfer[u].handle /\ ~completed[u] /\ pc[u] # "submit"
      BY <3>1, <1>0 DEF OwnerInv
    <3>4. urb'[u] = "none"
      BY <2>2, <2>8 DEF DataTypes
    <3> QED
      BY <2>1, <2>2, <2>4, <2>5, <2>8, <3>1, <3>2, <3>3, <3>4 DEF TouchInv, Submitting
  <2>9. CASE b = s /\ h # u
    BY <2>4, <2>9 DEF TouchInv
  <2> QED
    BY <2>7, <2>8, <2>9
<1>23. ASSUME NEW s \in Threads, Disconnect(s) PROVE TouchInv(b, u)'
  <2>1. \A y : Listed(y)' <=> Listed(y)
    BY <1>23, ListKept DEF Disconnect
  <2>2. /\ pc[s] = "disconnect" /\ UNCHANGED <<xfer, completed, on>>
        /\ \/ Listed(on[s]) /\ lock[on[s]] = NoOne /\ xfer[on[s]].inFlight
              /\ urb' = [urb EXCEPT ![on[s]] = "none"] /\ pc' = [pc EXCEPT ![s] = "unlist"]
           \/ pc' = [pc EXCEPT ![s] = "fds"] /\ UNCHANGED urb
    BY <1>23 DEF Disconnect, Listed
  <2>3. pc'[u] \in Submitting => pc[u] \in Submitting
    BY <2>2 DEF ControlTypes, Submitting
  <2>4. urb'[u] = "none" \/ urb'[u] = urb[u]
    BY <2>2 DEF DataTypes
  <2>5. CASE b # s
    <3>1. pc'[b] = pc[b] /\ on'[b] = on[b]
      BY <2>2, <2>5 DEF ControlTypes
    <3> QED
      BY <3>1, <2>1, <2>2, <2>3, <2>4, <1>0 DEF TouchInv
  <2>6. ASSUME b = s, on'[b] = u, pc'[b] = "unlist" PROVE TouchInv(b, u)'
    <3>1. /\ on[s] = u /\ Listed(u) /\ xfer[u].inFlight /\ urb'[u] = "none"
      BY <2>2, <2>6 DEF ControlTypes, DataTypes
    <3>2. xfer[u].alive /\ xfer[u].handle /\ ~completed[u] /\ pc[u] \notin Submitting
      BY <3>1, <1>0 DEF OwnerInv
    <3> QED
      BY <2>1, <2>2, <2>3, <2>6, <3>1, <3>2 DEF TouchInv
  <2>7. CASE b = s /\ pc'[b] # "unlist"
    BY <2>2, <2>7 DEF TouchInv, Touches, ControlTypes
  <2> QED
    BY <2>5, <2>6, <2>7 DEF TouchInv
<1>24. ASSUME NEW s \in Threads, Cancelled(s) PROVE TouchInv(b, u)'
  <2>1. \A y : Listed(y)' <=> Listed(y)
    BY <1>24, ListKept DEF Cancelled
  <2> QED
    BY <1>24, <2>1, <1>0, <1>00 DEF Cancelled, TouchInv, OwnerInv, Touches, Submitting,
       ControlTypes, DataTypes
<1>25. ASSUME NEW s \in Threads, UnlistDone(s) PROVE TouchInv(b, u)'
  <2>1. \A y : Listed(y)' <=> Listed(y) /\ y # on[s]
    BY <1>25, Unlisted DEF UnlistDone, Unlist, DataTypes
  <2>2. /\ pc[s] = "unlist" /\ flyingLock = NoOne /\ pc' = [pc EXCEPT ![s] = "landed"]
        /\ UNCHANGED <<xfer, completed, on, urb>>
    BY <1>25 DEF UnlistDone
  <2>3. pc'[u] \in Submitting => pc[u] \in Submitting
    BY <2>2 DEF ControlTypes, Submitting
  <2>4. CASE b # s
    <3>1. pc'[b] = pc[b] /\ on'[b] = on[b] /\ pc[b] \notin Touches
      BY <2>2, <2>4, <1>00 DEF ControlTypes, LockedLabels, InBackend
    <3> QED
      BY <3>1 DEF TouchInv
  <2>5. CASE b = s
    <3>1. pc'[s] = "landed" /\ pc[s] \in Touches
      BY <2>2 DEF ControlTypes, Touches
    <3> QED
      BY <3>1, <2>1, <2>2, <2>3, <2>5, <1>0 DEF TouchInv
  <2> QED
    BY <2>4, <2>5
<1>26. ASSUME NEW s \in Threads, Landed(s) PROVE TouchInv(b, u)'
  <2>1. \A y : Listed(y)' <=> Listed(y)
    BY <1>26, ListKept DEF Landed
  <2> QED
    BY <1>26, <2>1, <1>0, <1>00 DEF Landed, TouchInv, OwnerInv, Touches, Submitting,
       ControlTypes, DataTypes
<1>27. ASSUME NEW s \in Threads, Callback(s) PROVE TouchInv(b, u)'
  <2>1. \A y : Listed(y)' <=> Listed(y)
    BY <1>27, ListKept DEF Callback
  <2>2. /\ pc[s] = "callback" /\ pc' = [pc EXCEPT ![s] = "fds"] /\ on' = [on EXCEPT ![s] = NoOne]
        /\ completed' = [completed EXCEPT ![on[s]] = TRUE] /\ UNCHANGED <<xfer, urb>>
    BY <1>27 DEF Callback
  <2>3. pc'[u] \in Submitting => pc[u] \in Submitting
    BY <2>2 DEF ControlTypes, Submitting
  <2>4. CASE b # s
    <3>1. pc'[b] = pc[b] /\ on'[b] = on[b]
      BY <2>2, <2>4 DEF ControlTypes
    <3>2. pc[b] \in Touches => pc[b] = "expired"
      BY <2>2, <2>4, <1>00 DEF LockedLabels, InBackend
    <3>3. on[s] = u => ~Listed(u)
      BY <2>2, <1>0 DEF TouchInv, Touches
    <3>4. on[b] = u /\ pc[b] = "expired" => Listed(u)
      BY <1>0 DEF TouchInv, Touches
    <3>5. on[s] # u => completed'[u] = completed[u]
      BY <2>2 DEF DataTypes
    <3> QED
      BY <3>1, <3>2, <3>3, <3>4, <3>5, <2>1, <2>2, <2>3, <1>0 DEF TouchInv
  <2>5. CASE b = s
    BY <2>2, <2>5 DEF TouchInv, Touches, ControlTypes
  <2> QED
    BY <2>4, <2>5
<1>28. ASSUME NEW s \in Threads, Minute(s) PROVE TouchInv(b, u)'
  <2>1. \A y : Listed(y)' <=> Listed(y)
    BY <1>28, ListKept DEF Minute, PollTimedOut
  <2> QED
    BY <1>28, <2>1, <1>0, <1>00 DEF Minute, PollTimedOut, TouchInv, OwnerInv, Touches,
       Submitting, ControlTypes, DataTypes
<1>29. ASSUME NEW s \in Threads, PollFails(s) PROVE TouchInv(b, u)'
  <2>1. \A y : Listed(y)' <=> Listed(y)
    BY <1>29, ListKept DEF PollFails
  <2> QED
    BY <1>29, <2>1, <1>0, <1>00 DEF PollFails, TouchInv, OwnerInv, Touches, Submitting,
       ControlTypes, DataTypes
<1>30. ASSUME NEW s \in Threads, Complete(s) PROVE TouchInv(b, u)'
  <2>1. \A y : Listed(y)' <=> Listed(y)
    BY <1>30, ListKept DEF Complete
  <2> QED
    BY <1>30, <2>1, <1>0, <1>00 DEF Complete, TouchInv, OwnerInv, Touches, Submitting,
       ControlTypes, DataTypes
<1>31. ASSUME NEW s \in Threads, Unplug(s) PROVE TouchInv(b, u)'
  <2>1. \A y : Listed(y)' <=> Listed(y)
    BY <1>31, ListKept DEF Unplug
  <2> QED
    BY <1>31, <2>1, <1>0, <1>00 DEF Unplug, TouchInv, OwnerInv, Touches, Submitting,
       ControlTypes, DataTypes
<1>32. ASSUME NEW a \in Actors, CloseBegin(a) PROVE TouchInv(b, u)'
  <2>1. \A y : Listed(y)' <=> Listed(y)
    BY <1>32, ListKept DEF CloseBegin
  <2> QED
    BY <1>32, <2>1, <1>0, <1>00 DEF CloseBegin, TouchInv, OwnerInv, Touches, Submitting,
       ControlTypes, DataTypes
<1>33. ASSUME NEW a \in Actors, CloseLock(a) PROVE TouchInv(b, u)'
  <2>1. \A y : Listed(y)' <=> Listed(y)
    BY <1>33, ListKept DEF CloseLock
  <2> QED
    BY <1>33, <2>1, <1>0, <1>00 DEF CloseLock, TouchInv, OwnerInv, Touches, Submitting,
       ControlTypes, DataTypes
<1>34. ASSUME NEW a \in Actors, CloseDrop(a) PROVE TouchInv(b, u)'
  <2>1. \A y : Listed(y)' <=> Listed(y) /\ y # on[a]
    BY <1>34, Unlisted, ListKept DEF CloseDrop, DataTypes, Listed
  <2>2. /\ pc[a] = "drop" /\ flyingLock = NoOne /\ pc' = [pc EXCEPT ![a] = "closeFd"]
        /\ UNCHANGED on
    BY <1>34 DEF CloseDrop
  <2>3. CASE b # a
    <3>1. pc'[b] = pc[b] /\ pc[b] \notin Touches
      BY <2>2, <2>3, <1>00 DEF ControlTypes, LockedLabels, InBackend
    <3> QED
      BY <3>1 DEF TouchInv
  <2>4. CASE b = a
    BY <2>2, <2>4 DEF TouchInv, Touches, ControlTypes
  <2> QED
    BY <2>3, <2>4
<1>35. ASSUME NEW a \in Actors, CloseFd(a) PROVE TouchInv(b, u)'
  <2>1. \A y : Listed(y)' <=> Listed(y)
    BY <1>35, ListKept DEF CloseFd
  <2> QED
    BY <1>35, <2>1, <1>0, <1>00 DEF CloseFd, TouchInv, OwnerInv, Touches, Submitting,
       ControlTypes, DataTypes
<1>36. ASSUME NEW a \in Actors, CloseEnd(a) PROVE TouchInv(b, u)'
  <2>1. \A y : Listed(y)' <=> Listed(y)
    BY <1>36, ListKept DEF CloseEnd
  <2> QED
    BY <1>36, <2>1, <1>0, <1>00 DEF CloseEnd, TouchInv, OwnerInv, Touches, Submitting,
       ControlTypes, DataTypes
<1>37. ASSUME NEW a \in Actors, UnlockEvents(a) PROVE TouchInv(b, u)'
  <2>1. \A y : Listed(y)' <=> Listed(y)
    BY <1>37, ListKept DEF UnlockEvents
  <2> QED
    BY <1>37, <2>1, <1>0, <1>00 DEF UnlockEvents, TouchInv, OwnerInv, Touches, Submitting,
       ControlTypes, DataTypes
<1>38. ASSUME NEW a \in Actors, Broadcast(a) PROVE TouchInv(b, u)'
  <2>1. \A y : Listed(y)' <=> Listed(y)
    BY <1>38, ListKept DEF Broadcast
  <2> QED
    BY <1>38, <2>1, <1>0, <1>00 DEF Broadcast, TouchInv, OwnerInv, Touches, Submitting,
       ControlTypes, DataTypes
<1>39. ASSUME NEW c \in Closers, ChooseVictim(c) PROVE TouchInv(b, u)'
  <2>1. \A y : Listed(y)' <=> Listed(y)
    BY <1>39, ListKept DEF ChooseVictim
  <2> QED
    BY <1>39, <2>1, <1>0, <1>00 DEF ChooseVictim, TouchInv, OwnerInv, Touches, Submitting,
       ControlTypes, DataTypes
<1>40. CASE Interrupt \/ Tick \/ Terminated \/ UNCHANGED vars
  <2>1. \A y : Listed(y)' <=> Listed(y)
    BY <1>40, ListKept DEF Interrupt, Tick, Terminated
  <2> QED
    BY <1>40, <2>1, <1>0, <1>00 DEF Interrupt, Tick, Terminated, TouchInv, OwnerInv,
       Touches, Submitting, ControlTypes, DataTypes
<1> QED
  BY <1>1, <1>2, <1>3, <1>4, <1>5, <1>6, <1>7, <1>8, <1>9, <1>10, <1>11, <1>12, <1>13,
     <1>14, <1>15, <1>16, <1>17, <1>18, <1>19, <1>20, <1>21, <1>22, <1>23, <1>24, <1>25,
     <1>26, <1>27, <1>28, <1>29, <1>30, <1>31, <1>32, <1>33, <1>34, <1>35, <1>36, <1>37,
     <1>38, <1>39, <1>40 DEF Next, CallStep, WaitStep, HandlerStep, CloseStep

\* A handle is not closed while its transfer is being submitted.
LEMMA SubmittingStep ==
  ASSUME ControlTypes, DataTypes, CloseInv, TransferInv, [Next]_vars, NEW c \in Closers, NEW u \in Threads, on'[c] = u
  PROVE  pc'[u] \notin Submitting
<1>1. c \in Actors /\ pc[c] \in CloserLabels
  BY DEF CloseInv
<1>2. CASE on[c] # u
  <2>1. ChooseVictim(c)
    BY <1>1, <1>2, OnKept DEF Call, HandleTimeout, MarkTimedOut, NextFd, Reap, Callback,
       UnlockEvents, ControlTypes, CloserLabels, Closing
  <2> QED
    BY <2>1, <1>2 DEF ChooseVictim, TransferInv, Submitting, ControlTypes
<1>3. CASE on[c] = u
  <2>1. pc[u] \notin Submitting
    BY <1>3 DEF TransferInv
  <2>2. ASSUME pc'[u] # pc[u], pc'[u] \in Submitting PROVE FALSE
    <3>1. pc'[u] = "submit"
      BY <2>1, <2>2, Moves DEF Submitting, SubmitList, SubmitUrb
    <3>2. Call(u)
      BY <2>2, <3>1, Moves
    <3> QED
      BY <1>3, <3>1, <3>2 DEF Call, MayCall, ControlTypes
  <2> QED
    BY <2>1, <2>2
<1> QED
  BY <1>2, <1>3

LEMMA TransferInvStep ==
  ASSUME ControlTypes, DataTypes, LockInv, CloseInv, TransferInv, [Next]_vars
  PROVE  TransferInv'
<1>1. \A t \in Threads : OwnerInv(t)'
  BY OwnerStep
<1>2. \A a \in Actors, t \in Threads : TouchInv(a, t)'
  BY TouchStep
<1>3. \A c \in Closers, t \in Threads : on'[c] = t => pc'[t] \notin Submitting
  BY SubmittingStep
<1> QED
  BY <1>1, <1>2, <1>3 DEF TransferInv

\* A descriptor leaves the event sources when its device is gone, or is closed.
LEMMA SourcesStep ==
  ASSUME ControlTypes, DataTypes, FdInv, [Next]_vars
  PROVE  sources' \subseteq fdOpen' /\ fdOpen' \ gone' \subseteq sources'
<1> DEFINE Kept1 == sources' \subseteq fdOpen' /\ fdOpen' \ gone' \subseteq sources'
<1> USE DEF FdInv
<1>1. ASSUME NEW t \in Threads, Open(t) PROVE Kept1
  BY <1>1 DEF Open
<1>2. ASSUME NEW t \in Threads, Handler(t) PROVE Kept1
  BY <1>2 DEF Handler
<1>3. ASSUME NEW t \in Threads, NextFd(t) PROVE Kept1
  BY <1>3 DEF NextFd, Reports
<1>4. ASSUME NEW t \in Threads, Unplug(t) PROVE Kept1
  BY <1>4 DEF Unplug
<1>5. ASSUME NEW a \in Actors, CloseFd(a) PROVE Kept1
  BY <1>5 DEF CloseFd
<1> QED
  BY <1>1, <1>2, <1>3, <1>4, <1>5, FdFrame, GoneFrame

\* What poll() reported stays true: descriptors are closed under the events lock only.
LEMMA ReportsStep ==
  ASSUME ControlTypes, DataTypes, LockInv, CloseInv, FdInv, [Next]_vars, NEW b \in Actors
  PROVE  Reports(b)'
<1>0. Reports(b) /\ pc[b] \in Labels /\ after[b] \in {"returned", "unlock", "fds"}
  BY DEF FdInv, ControlTypes
<1>00. after[b] # "returned" => pc[b] \in Expiring
  BY DEF LockInv
<1>1. reported'[b].ready \subseteq fdOpen' /\ reported'[b].error \subseteq gone'
  <2>1. ASSUME NEW a \in Actors, CloseFd(a) PROVE reported'[b] = Nothing
    <3>1. eventsLock = a /\ pc[a] = "closeFd" /\ reported' = reported
      BY <2>1 DEF CloseFd, LockInv, HasLock, LockedLabels
    <3>2. a # b => ~HasLock(b)
      BY <3>1 DEF LockInv
    <3> QED
      BY <3>1, <3>2, <1>0, <1>00 DEF Reports, HasLock, LockedLabels, InBackend, Expiring
  <2>2. CASE \E a \in Actors : CloseFd(a)
    BY <2>1, <2>2 DEF Nothing
  <2>3. CASE ~\E a \in Actors : CloseFd(a)
    <3>1. fdOpen \subseteq fdOpen' /\ gone \subseteq gone'
      BY <2>3, FdFrame, GoneFrame DEF Open, Handler, NextFd, Unplug
    <3>2. ASSUME Poll(b) PROVE reported'[b].ready \subseteq fdOpen /\ reported'[b].error \subseteq gone
      BY <3>2, <1>0 DEF Poll, Ready, FdInv, DataTypes, Reports
    <3>3. ASSUME NextFd(b) PROVE reported'[b].ready \subseteq reported[b].ready /\ reported'[b].error = reported[b].error
      BY <3>3 DEF NextFd, DataTypes
    <3>4. ASSUME Disconnect(b) PROVE reported'[b].ready \subseteq reported[b].ready /\ reported'[b].error = reported[b].error
      BY <3>4 DEF Disconnect, DataTypes
    <3>5. ASSUME UnlockEvents(b) PROVE reported'[b].ready = {} /\ reported'[b].error = {}
      BY <3>5 DEF UnlockEvents, DataTypes, Nothing
    <3> QED
      BY <1>0, <3>1, <3>2, <3>3, <3>4, <3>5, ReportedKept DEF Reports
  <2> QED
    BY <2>2, <2>3
<1>2. reported'[b] # Nothing =>
        pc'[b] \in InBackend \cup {"triggered", "unlock"} \/ after'[b] = "fds"
  <2> SUFFICES ASSUME reported'[b] # Nothing
               PROVE  pc'[b] \in InBackend \cup {"triggered", "unlock"} \/ after'[b] = "fds"
    OBVIOUS
  <2>1. CASE reported'[b] # reported[b]
    <3>1. ~UnlockEvents(b)
      BY DEF UnlockEvents, DataTypes
    <3> QED
      BY <2>1, <3>1, ReportedKept DEF Poll, NextFd, Disconnect, InBackend, ControlTypes
  <2>2. CASE reported'[b] = reported[b]
    <3>1. pc[b] \in InBackend \cup {"triggered", "unlock"} \/ after[b] = "fds"
      BY <2>2, <1>0 DEF Reports
    <3>2. ~UnlockEvents(b) /\ ~Poll(b) /\ ~Minute(b)
      BY <3>1, <1>00 DEF UnlockEvents, Poll, Minute, InBackend, Expiring, DataTypes
    <3>3. ASSUME HandleTimeout(b), after[b] = "fds" PROVE pc'[b] = "fds" \/ after'[b] = "fds"
      <4>1. pc[b] = "expire" /\ ((\E x \in Threads : TimeOut(b, x)) \/ TimeoutsDone(b))
        BY <3>3, HandleTimeoutCases DEF DataTypes
      <4> QED
        BY <3>3, <4>1 DEF TimeOut, TimeoutsDone, ControlTypes
    <3>4. ASSUME EventTrigger(b) PROVE pc'[b] = "fds" \/ after'[b] = "fds"
      BY <3>4 DEF EventTrigger, ControlTypes
    <3>5. CASE after[b] = "fds"
      BY <3>2, <3>3, <3>4, <3>5, AfterKept DEF InBackend
    <3>6. CASE pc[b] \in InBackend \cup {"triggered", "unlock"} /\ pc'[b] # pc[b]
      <4>1. \/ NextFd(b) \/ Reap(b) \/ Disconnect(b) \/ Cancelled(b) \/ UnlistDone(b)
            \/ Landed(b) \/ Callback(b) \/ EventTrigger(b)
        BY <3>2, <3>6, Moves DEF InBackend
      <4>2. ASSUME NextFd(b) \/ Cancelled(b) \/ UnlistDone(b) \/ Landed(b) \/ Callback(b)
            PROVE  pc'[b] \in InBackend \cup {"unlock"}
        BY <3>6, <4>2 DEF NextFd, Cancelled, UnlistDone, Landed, Callback, InBackend, ControlTypes
      <4>3. ASSUME Reap(b) \/ Disconnect(b) PROVE pc'[b] \in InBackend
        BY <3>6, <4>3 DEF Reap, Disconnect, InBackend, ControlTypes
      <4> QED
        BY <3>4, <4>1, <4>2, <4>3 DEF InBackend
    <3> QED
      BY <3>1, <3>5, <3>6
  <2> QED
    BY <2>1, <2>2
<1>3. pc'[b] \in InBackend \ {"fds"} => on'[b] \in reported'[b].ready
  <2> SUFFICES ASSUME pc'[b] \in InBackend \ {"fds"} PROVE on'[b] \in reported'[b].ready
    OBVIOUS
  <2>1. CASE pc'[b] = pc[b]
    <3>1. on'[b] = on[b]
      <4>1. ~Reap(b) /\ ~Callback(b)
        BY <2>1 DEF Reap, Callback, ControlTypes
      <4> QED
        BY <2>1, <4>1, OnKept DEF Call, HandleTimeout, MarkTimedOut, NextFd, UnlockEvents,
           ChooseVictim, InBackend
    <3>2. reported'[b] = reported[b]
      BY <2>1, ReportedKept DEF Poll, NextFd, Disconnect, UnlockEvents, InBackend, ControlTypes
    <3> QED
      BY <2>1, <3>1, <3>2, <1>0 DEF Reports
  <2>2. CASE NextFd(b)
    BY <2>2, ReadyAreThreads DEF NextFd, InBackend, ControlTypes
  <2>3. CASE Reap(b)
    BY <2>3, ReadyAreThreads DEF Reap, InBackend, ControlTypes
  <2>4. CASE Disconnect(b)
    BY <2>4, <1>0 DEF Disconnect, InBackend, ControlTypes, Reports
  <2>5. CASE Cancelled(b) \/ UnlistDone(b) \/ Landed(b)
    BY <2>5, <1>0 DEF Cancelled, UnlistDone, Landed, InBackend, Reports
  <2> QED
    BY <2>1, <2>2, <2>3, <2>4, <2>5, Moves DEF InBackend
<1> QED
  BY <1>1, <1>2, <1>3 DEF Reports

\* The poll set is rebuilt from the event sources when a flag says they were modified.
LEMMA PolledStep ==
  ASSUME ControlTypes, DataTypes, LockInv, FdInv, [Next]_vars
  PROVE  /\ "SOURCES_MODIFIED" \notin eventFlags' => polled' \subseteq sources'
         /\ \A a \in Actors : pc'[a] = "poll" => polled' \subseteq fdOpen'
<1> DEFINE UpToDate == "SOURCES_MODIFIED" \notin eventFlags => polled \subseteq sources
<1>1. UpToDate'
  <2> USE DEF FdInv
  <2>1. ASSUME NEW t \in Threads, Open(t) PROVE UpToDate'
    BY <2>1 DEF Open, Raise
  <2>2. ASSUME NEW t \in Threads, Handler(t) PROVE UpToDate'
    BY <2>2 DEF Handler, Lower
  <2>3. ASSUME NEW t \in Threads, NextFd(t) PROVE UpToDate'
    BY <2>3 DEF NextFd, Raise
  <2>4. ASSUME NEW t \in Threads, EventTrigger(t) PROVE UpToDate'
    BY <2>4 DEF EventTrigger, Lower
  <2>5. ASSUME NEW a \in Actors, CloseFd(a) PROVE UpToDate'
    BY <2>5 DEF CloseFd, Raise
  <2>6. ASSUME NEW a \in Actors, CloseBegin(a) \/ CloseEnd(a) PROVE UpToDate'
    BY <2>6 DEF CloseBegin, CloseEnd, Raise, Lower
  <2>7. CASE Interrupt
    BY <2>7 DEF Interrupt, Raise
  <2> QED
    BY <2>1, <2>2, <2>3, <2>4, <2>5, <2>6, <2>7, FdFrame, FlagFrame
<1>2. ASSUME NEW a \in Actors, pc'[a] = "poll" PROVE polled' \subseteq fdOpen'
  <2>1. CASE pc[a] = "poll"
    <3>1. polled \subseteq fdOpen
      BY <2>1 DEF FdInv
    <3>2. ASSUME NEW c \in Actors, CloseFd(c) PROVE FALSE
      BY <2>1, <3>2, OneAtWork DEF CloseFd, LockedLabels
    <3>3. ASSUME NEW t \in Threads, Handler(t) PROVE polled' \subseteq fdOpen'
      BY <3>1, <3>3 DEF Handler, FdInv
    <3> QED
      BY <3>1, <3>2, <3>3, FdFrame DEF Open, NextFd
  <2>2. CASE pc[a] # "poll"
    <3>1. Handler(a)
      BY <1>2, <2>2, Moves
    <3> QED
      BY <1>2, <2>2, <3>1 DEF Handler, FdInv, ControlTypes
  <2> QED
    BY <2>1, <2>2
<1> QED
  BY <1>1, <1>2

LEMMA FdInvStep ==
  ASSUME ControlTypes, DataTypes, LockInv, CloseInv, FdInv, [Next]_vars
  PROVE  FdInv'
<1>1. \A a \in Actors : Reports(a)'
  BY ReportsStep
<1> QED
  BY <1>1, SourcesStep, PolledStep DEF FdInv

\* The transfer of an unplugged device is found by the walk over a disconnection.
LEMMA GoneInvStep ==
  ASSUME ControlTypes, DataTypes, LockInv, TransferInv, FdInv, GoneInv, [Next]_vars
  PROVE  GoneInv'
<1> DEFINE Found(t) == \E a \in Actors : on[a] = t /\ pc[a] \in {"disconnect", "closeFd"}
<1> SUFFICES ASSUME NEW t \in Threads, t \in gone', t \notin sources', urb'[t] \in {"lost", "discarded"}
             PROVE  Found(t)'
  <2>1. gone' \subseteq Threads
    BY GoneFrame DEF Unplug, CloseFd, DataTypes
  <2> QED
    BY <2>1 DEF GoneInv
<1>0. urb'[t] # "none" /\ OwnerInv(t)
  BY DEF TransferInv
<1>1. ASSUME NEW a \in Actors, CloseFd(a) PROVE on[a] # t
  BY <1>1 DEF CloseFd
<1>2. CASE Found(t)
  <2>1. PICK a \in Actors : on[a] = t /\ pc[a] \in {"disconnect", "closeFd"}
    BY <1>2
  <2>2. CASE pc'[a] = pc[a]
    <3>1. ~Reap(a)
      BY <2>1, <2>2 DEF Reap, ControlTypes
    <3>2. on'[a] = on[a]
      BY <2>1, <3>1, OnKept DEF Call, HandleTimeout, MarkTimedOut, NextFd, Callback,
         UnlockEvents, ChooseVictim
    <3> QED
      BY <2>1, <2>2, <3>2
  <2>3. CASE pc'[a] # pc[a]
    <3>1. pc[a] = "disconnect" /\ (Reap(a) \/ Disconnect(a))
      BY <1>1, <2>1, <2>3, Moves
    <3>2. ~TornDown(t)
      BY <3>1, OneAtWork DEF TornDown, LockedLabels, InBackend
    <3>3. CASE Reap(a)
      BY <2>1, <3>1, <3>3, <1>0 DEF Reap, DataTypes
    <3>4. CASE Disconnect(a)
      <4>1. urb[t] # "none" /\ ~(Listed(t) /\ xfer[t].inFlight) /\ (Listed(t) => lock[t] = NoOne)
        BY <2>1, <3>4, <1>0 DEF Disconnect, DataTypes, Listed
      <4>2. Listed(t) /\ pc[t] \notin {"urb", "submitFailed"} /\ lock[t] = NoOne
        BY <3>2, <4>1, <1>0 DEF OwnerInv
      <4>3. pc[t] \in Submitting /\ pc[t] # "submit"
        BY <4>1, <4>2, <1>0 DEF OwnerInv
      <4> QED
        BY <4>2, <4>3 DEF Submitting, LockInv
    <3> QED
      BY <3>1, <3>3, <3>4
  <2> QED
    BY <2>2, <2>3
<1>3. CASE ~Found(t)
  <2>1. t \in gone
    <3>1. ASSUME Unplug(t) PROVE t \in sources'
      BY <3>1 DEF Unplug, FdInv
    <3>2. ASSUME t \notin gone PROVE Unplug(t)
      BY <3>2, GoneFrame DEF Unplug, CloseFd
    <3> QED
      BY <3>1, <3>2
  <2>2. ASSUME t \in sources PROVE Found(t)'
    <3>1. ASSUME NEW b \in Threads, NextFd(b) PROVE on'[b] = t /\ pc'[b] = "disconnect"
      BY <2>2, <3>1 DEF NextFd, ControlTypes
    <3>2. \E b \in Threads : NextFd(b)
      BY <1>1, <2>2, FdFrame DEF Open, Handler, CloseFd
    <3> QED
      BY <3>1, <3>2
  <2>3. ASSUME urb[t] \notin {"lost", "discarded"} PROVE FALSE
    <3>1. ASSUME NEW s \in Threads, SubmitUrb(s) PROVE FALSE
      BY <2>3, <3>1 DEF SubmitUrb, DataTypes
    <3>2. ASSUME NEW s \in Threads, CancelAndRetry(s) PROVE FALSE
      BY <2>1, <2>3, <3>2 DEF CancelAndRetry, CancelUrb, CancelSucceeds, DataTypes
    <3>3. ASSUME NEW s \in Threads, HandleTimeout(s) PROVE FALSE
      <4>1. (\E x \in Threads : TimeOut(s, x)) \/ TimeoutsDone(s)
        BY <3>3, HandleTimeoutCases DEF DataTypes
      <4>2. ASSUME NEW x \in Threads, TimeOut(s, x) PROVE urb'[t] = urb[t]
        <5>1. urb' = CancelUrb(x)
          BY <4>2 DEF TimeOut
        <5>2. CASE x = t
          BY <2>1, <5>1, <5>2 DEF CancelUrb, CancelSucceeds
        <5>3. CASE x # t
          BY <5>1, <5>3 DEF CancelUrb
        <5> QED
          BY <5>2, <5>3
      <4> QED
        BY <2>1, <2>3, <4>1, <4>2 DEF TimeoutsDone
    <3>4. ASSUME NEW s \in Threads, Reap(s) PROVE FALSE
      BY <2>3, <3>4, <1>0 DEF Reap, DataTypes
    <3>5. ASSUME NEW s \in Threads, Disconnect(s) PROVE FALSE
      BY <2>3, <3>5, <1>0 DEF Disconnect, DataTypes
    <3>6. ASSUME NEW s \in Threads, Complete(s) PROVE FALSE
      BY <2>3, <3>6 DEF Complete, DataTypes
    <3>7. ASSUME NEW s \in Threads, Unplug(s) PROVE FALSE
      BY <2>1, <2>3, <3>7 DEF Unplug, DataTypes
    <3>8. ASSUME NEW a \in Actors, CloseFd(a) PROVE FALSE
      BY <2>3, <3>8, <1>0 DEF CloseFd, DataTypes
    <3> QED
      BY <2>3, <3>1, <3>2, <3>3, <3>4, <3>5, <3>6, <3>7, <3>8, UrbFrame
  <2> QED
    BY <1>3, <2>1, <2>2, <2>3 DEF GoneInv
<1> QED
  BY <1>2, <1>3

\* handle_timeouts marks the transfer that it cancelled.
LEMMA ExpiredInvStep ==
  ASSUME ControlTypes, DataTypes, ExpiredInv, [Next]_vars
  PROVE  ExpiredInv'
<1> SUFFICES ASSUME NEW a \in Actors, pc'[a] = "expired" PROVE on'[a] \in Threads
  BY DEF ExpiredInv
<1>1. CASE pc[a] = "expired"
  <2>1. ~MarkTimedOut(a)
    BY DEF MarkTimedOut, ControlTypes
  <2> QED
    BY <1>1, <2>1, OnKept DEF ExpiredInv, Call, HandleTimeout, NextFd, Reap, Callback,
       UnlockEvents, ChooseVictim
<1>2. CASE pc[a] # "expired"
  <2>1. HandleTimeout(a)
    BY <1>2, Moves
  <2>2. pc[a] = "expire" /\ ((\E x \in Threads : TimeOut(a, x)) \/ TimeoutsDone(a))
    BY <2>1, HandleTimeoutCases DEF DataTypes
  <2>3. ~TimeoutsDone(a)
    BY DEF TimeoutsDone, ControlTypes
  <2> QED
    BY <2>2, <2>3 DEF TimeOut, ControlTypes
<1> QED
  BY <1>1, <1>2

-----------------------------------------------------------------------------
EventsInv ==
  /\ ControlTypes /\ DataTypes /\ LockInv /\ CloseInv /\ FlagInv /\ WakeInv
  /\ TransferInv /\ FdInv /\ GoneInv /\ ExpiredInv

LEMMA InitInv == Init => EventsInv
<1> SUFFICES ASSUME Init PROVE EventsInv
  OBVIOUS
<1> USE DEF Init
<1>1. ControlTypes /\ LockInv /\ CloseInv
  BY DEF ControlTypes, LockInv, CloseInv, Labels, LockedLabels, CloserLabels, Closing,
     Expiring, InBackend, Statuses, HasLock
<1>2. DataTypes
  <2>1. /\ flying \in Seq(Threads) /\ IsInjective(flying) /\ now \in 1..LastInstant
        /\ timer \in 0..LastInstant /\ reported \in [Actors -> [event : BOOLEAN, timer : BOOLEAN,
             ready : SUBSET Threads, error : SUBSET Threads]]
    BY DEF IsInjective, Nothing
  <2>2. xfer \in [Threads -> TransferType]
    BY FreshTypes
  <2>3. \A a \in Actors : pc[a] \notin {"submit", "unlist", "landed"}
    OBVIOUS
  <2> QED
    BY <2>1, <2>2, <2>3 DEF DataTypes, Retrieved
<1>3. FlagInv
  <2>1. {a \in Actors : pc[a] \in Closing} = {}
    BY DEF Closing
  <2>2. Cardinality({}) = 0
    BY FS_EmptySet
  <2>3. Cardinality({a \in Actors : pc[a] \in Closing}) = 0
    BY <2>1, <2>2, Zenon
  <2>4. event <=> eventFlags # {}
    OBVIOUS
  <2> QED
    BY <2>3, <2>4 DEF FlagInv
<1>4. WakeInv /\ GoneInv /\ ExpiredInv
  BY DEF WakeInv, GoneInv, ExpiredInv
<1>5. TransferInv
  <2>1. ~Contains(flying, NoOne) /\ \A t : ~Listed(t)
    BY DEF Listed, Contains
  <2>2. ASSUME NEW t \in Threads PROVE OwnerInv(t)
    BY <2>1 DEF OwnerInv, Resting, Submitting, Freed, FreshTransfer, Closing
  <2>3. ASSUME NEW a \in Actors, NEW t \in Threads PROVE TouchInv(a, t)
    BY DEF TouchInv
  <2> QED
    BY <2>2, <2>3 DEF TransferInv
<1>6. FdInv
  BY DEF FdInv, Reports, Nothing, InBackend
<1> QED
  BY <1>1, <1>2, <1>3, <1>4, <1>5, <1>6 DEF EventsInv

LEMMA StepInv == EventsInv /\ [Next]_vars => EventsInv'
<1> SUFFICES ASSUME EventsInv, [Next]_vars PROVE EventsInv'
  OBVIOUS
<1> USE DEF EventsInv
<1>1. \A t \in Threads : pc[t] = "submit" => ~Listed(t)
  BY DEF TransferInv, OwnerInv
<1>2. ControlTypes' /\ LockInv' /\ CloseInv' /\ FlagInv'
  BY ControlTypesStep, LockInvStep, CloseInvStep, FlagInvStep
<1>3. DataTypes'
  BY <1>1, DataTypesStep
<1>4. WakeInv'
  BY <1>2, WakeInvStep
<1>5. TransferInv' /\ FdInv' /\ GoneInv' /\ ExpiredInv'
  BY TransferInvStep, FdInvStep, GoneInvStep, ExpiredInvStep
<1> QED
  BY <1>2, <1>3, <1>4, <1>5

LEMMA AlwaysInv == Spec => []EventsInv
  BY InitInv, StepInv, PTL DEF Spec

\* Every variable keeps its type; no transfer is listed twice, and every close that
\* was announced is taken back.
THEOREM EventsTypes == Spec => []TypeOK
<1>1. EventsInv => TypeOK
  <2> SUFFICES ASSUME EventsInv PROVE TypeOK
    OBVIOUS
  <2>1. IsInjective(flying) /\ Range(flying) \subseteq Threads
    BY DEF EventsInv, DataTypes, Range
  <2>2. /\ on \in [Actors -> Threads \cup {NoOne}] /\ lock \in [Threads -> Threads \cup {NoOne}]
        /\ {flyingLock, eventsLock} \subseteq Actors \cup {NoOne}
    BY DEF EventsInv, ControlTypes
  <2>3. /\ waiting \subseteq Threads /\ eventFlags \subseteq {"SOURCES_MODIFIED", "DEVICE_CLOSE", "USER_INTERRUPT"}
        /\ deviceClose = Cardinality({a \in Actors : pc[a] \in {"closeLock", "drop", "closeFd", "closeEnd"}})
    BY DEF EventsInv, FlagInv, Closing
  <2>4. /\ xfer \in [Threads -> TransferType] /\ timer \in 0..LastInstant /\ now \in 1..LastInstant
        /\ polled \subseteq Threads /\ urb \in [Threads -> Retrieved \cup {"none", "submitted", "lost"}]
    BY DEF EventsInv, DataTypes
  <2>5. sources \subseteq fdOpen
    BY DEF EventsInv, FdInv
  <2> QED
    BY <2>1, <2>2, <2>3, <2>4, <2>5 DEF TypeOK
<1> QED
  BY <1>1, AlwaysInv, PTL

\* However many threads wait and close: the eventfd is readable exactly while a flag
\* is set, and a thread asleep as a waiter that need not sleep is about to be woken.
THEOREM WaitersAreWoken == Spec => []NoLostWakeup
<1>1. EventsInv => NoLostWakeup
  BY DEF EventsInv, FlagInv, WakeInv, NoLostWakeup
<1> QED
  BY <1>1, AlwaysInv, PTL

\* However the event handlers, the owners, the timeouts and the closers interleave: no
\* transfer is used after it was freed, no handle after it was closed.
THEOREM TransfersAreAlive == Spec => []NoUseAfterFree
<1>1. EventsInv => NoUseAfterFree
  <2> SUFFICES ASSUME EventsInv PROVE NoUseAfterFree
    OBVIOUS
  <2>0. (\A t \in Threads : OwnerInv(t)) /\ (\A a \in Actors, t \in Threads : TouchInv(a, t))
    BY DEF EventsInv, TransferInv
  <2>1. \A i \in 1..Len(flying) : xfer[flying[i]].alive
    BY <2>0 DEF EventsInv, DataTypes, OwnerInv, Listed, Contains
  <2>2. \A a \in Actors : pc[a] \in InBackend \ {"fds"} => on[a] \in fdOpen
    BY DEF EventsInv, FdInv, Reports
  <2>3. \A a \in Actors : pc[a] \in Touches => on[a] \in Threads
    BY <2>2 DEF EventsInv, DataTypes, ExpiredInv, Touches, InBackend
  <2>4. \A a \in Actors : pc[a] \in Touches => xfer[on[a]].alive
    BY <2>0, <2>3 DEF TouchInv
  <2>5. \A t \in Threads : urb[t] # "none" =>
          xfer[t].alive \/ \E a \in Actors : pc[a] = "closeFd" /\ on[a] = t
    BY <2>0 DEF OwnerInv, TornDown
  <2>6. \A t \in Threads : pc[t] = "poll" => polled \subseteq fdOpen
    BY DEF EventsInv, FdInv
  <2> QED
    BY <2>1, <2>2, <2>4, <2>5, <2>6 DEF NoUseAfterFree
<1> QED
  BY <1>1, AlwaysInv, PTL

\* However they interleave, the callback runs once for a transfer, and what a completed
\* transfer says of itself is not changed before its owner has read it.
THEOREM CallsCompleteOnce == Spec => CompletesOnce
<1> DEFINE Once(t) ==
      /\ \A a \in Threads : Callback(a) /\ on[a] = t => ~completed[t] /\ xfer[t].alive
      /\ completed[t] /\ xfer[t].alive /\ xfer'[t].alive => xfer'[t].status = xfer[t].status
<1>1. EventsInv /\ [Next]_vars => [\A t \in Threads : Once(t)]_vars
  <2> SUFFICES ASSUME EventsInv, [Next]_vars, NEW t \in Threads PROVE Once(t)
    OBVIOUS
  <2>0. /\ OwnerInv(t) /\ (\A a \in Actors : TouchInv(a, t)) /\ xfer \in [Threads -> TransferType]
        /\ xfer[t] \in TransferType
    BY DEF EventsInv, TransferInv, DataTypes
  <2>1. ASSUME NEW a \in Threads, Callback(a), on[a] = t PROVE ~completed[t] /\ xfer[t].alive
    BY <2>0, <2>1 DEF Callback, TouchInv, Touches
  <2>2. ASSUME completed[t], xfer[t].alive, xfer'[t].alive PROVE xfer'[t].status = xfer[t].status
    <3> USE <2>0 DEF TransferType
    <3>1. ASSUME NEW s \in Threads, Call(s) PROVE xfer'[t].status = xfer[t].status
      <4>1. s # t
        BY <2>2, <3>1 DEF Call, OwnerInv, Resting
      <4> QED
        BY <3>1, <4>1 DEF Call
    <3>2. ASSUME NEW s \in Threads, SubmitList(s) PROVE xfer'[t].status = xfer[t].status
      BY <3>2 DEF SubmitList
    <3>3. ASSUME NEW s \in Threads, MarkInFlight(s) PROVE xfer'[t].status = xfer[t].status
      BY <3>3 DEF MarkInFlight
    <3>4. ASSUME NEW s \in Threads, SubmitFailed(s) \/ Result(s) PROVE xfer'[t].status = xfer[t].status
      <4>1. s # t
        <5>1. ~Freed.alive
          BY DEF Freed, FreshTransfer
        <5>2. xfer' = [xfer EXCEPT ![s] = Freed]
          BY <3>4 DEF SubmitFailed, Result
        <5> QED
          BY <2>2, <5>1, <5>2 DEF EventsInv, DataTypes
      <4> QED
        BY <3>4, <4>1 DEF SubmitFailed, Result
    <3>5. ASSUME NEW s \in Threads, Returned(s) PROVE xfer'[t].status = xfer[t].status
      <4>1. CASE s # t
        BY <3>5, <4>1 DEF Returned
      <4>2. CASE s = t
        <5>1. xfer[t].handle
          BY <2>2, <3>5, <4>2 DEF Returned, OwnerInv
        <5> QED
          BY <3>5, <4>2, <5>1 DEF Returned
      <4> QED
        BY <4>1, <4>2
    <3>6. ASSUME NEW s \in Threads, CancelAndRetry(s) PROVE xfer'[t].status = xfer[t].status
      BY <3>6 DEF CancelAndRetry
    <3>7. ASSUME NEW s \in Threads, HandleTimeout(s) PROVE xfer'[t].status = xfer[t].status
      <4>1. (\E x \in Threads : TimeOut(s, x)) \/ TimeoutsDone(s)
        BY <3>7, HandleTimeoutCases DEF EventsInv, DataTypes
      <4>2. ASSUME NEW x \in Threads, TimeOut(s, x) PROVE xfer'[t].status = xfer[t].status
        <5>1. CASE x = t
          BY <4>2, <5>1 DEF TimeOut
        <5>2. CASE x # t
          BY <4>2, <5>2 DEF TimeOut
        <5> QED
          BY <5>1, <5>2
      <4> QED
        BY <4>1, <4>2 DEF TimeoutsDone
    <3>8. ASSUME NEW s \in Threads, MarkTimedOut(s) PROVE xfer'[t].status = xfer[t].status
      BY <3>8 DEF MarkTimedOut
    <3>9. ASSUME NEW s \in Threads, Landed(s) PROVE xfer'[t].status = xfer[t].status
      <4>1. on[s] # t
        BY <2>2, <3>9 DEF Landed, TouchInv, Touches
      <4> QED
        BY <3>9, <4>1 DEF Landed
    <3>10. ASSUME NEW a \in Actors, CloseDrop(a) PROVE xfer'[t].status = xfer[t].status
      BY <3>10 DEF CloseDrop
    <3> QED
      BY <3>1, <3>2, <3>3, <3>4, <3>5, <3>6, <3>7, <3>8, <3>9, <3>10, XferFrame
  <2> QED
    BY <2>1, <2>2
<1> QED
  BY <1>1, AlwaysInv, PTL DEF Spec, CompletesOnce

\* Whenever a device is unplugged, the transfer it leaves behind is still going to be
\* ended by the disconnection, or by the close of its handle.
THEOREM GoneIsFound == Spec => []GoneIsNotForgotten
<1>1. EventsInv => GoneIsNotForgotten
  BY DEF EventsInv, GoneInv, GoneIsNotForgotten, InBackend
<1> QED
  BY <1>1, AlwaysInv, PTL

-----------------------------------------------------------------------------
\* What a step does to the fields of a transfer.
Renews(u) == Call(u) \/ SubmitFailed(u) \/ Result(u)
Blank(x) == x.deadline = 0 /\ ~x.timedOut /\ x.status = "COMPLETED"

LEMMA BlankTransfers == Blank(Freed) /\ \A t : Blank(FreshTransfer(t))
  BY DEF Blank, Freed, FreshTransfer

LEMMA XferKept ==
  ASSUME ControlTypes, DataTypes, [Next]_vars, NEW u \in Threads
  PROVE  \/ Renews(u) /\ (Blank(xfer'[u]) \/ xfer'[u] = xfer[u])
         \/ /\ SubmitList(u)
            /\ xfer'[u].deadline = (IF Timeout[u] = 0 THEN 0 ELSE now + Timeout[u])
            /\ xfer'[u].timedOut = xfer[u].timedOut /\ xfer'[u].status = xfer[u].status
         \/ /\ xfer'[u].deadline = xfer[u].deadline
            /\ xfer[u].handled => xfer'[u].handled
            /\ \/ xfer'[u].timedOut = xfer[u].timedOut
               \/ xfer'[u].timedOut /\ \E a \in Threads : pc[a] = "expired" /\ on[a] = u
            /\ \/ xfer'[u].status \in {xfer[u].status, "NO_DEVICE"}
               \/ \E a \in Threads : Landed(a) /\ on[a] = u /\ xfer'[u].status = status[a]
<1> DEFINE Done ==
             /\ xfer'[u].deadline = xfer[u].deadline
             /\ xfer[u].handled => xfer'[u].handled
             /\ \/ xfer'[u].timedOut = xfer[u].timedOut
                \/ xfer'[u].timedOut /\ \E a \in Threads : pc[a] = "expired" /\ on[a] = u
             /\ \/ xfer'[u].status \in {xfer[u].status, "NO_DEVICE"}
                \/ \E a \in Threads : Landed(a) /\ on[a] = u /\ xfer'[u].status = status[a]
<1>0. xfer \in [Threads -> TransferType]
  BY DEF DataTypes
<1>1. ASSUME NEW t \in Threads, Renews(t), t = u
      PROVE  Blank(xfer'[u]) \/ xfer'[u] = xfer[u]
  BY <1>0, <1>1, BlankTransfers DEF Renews, Call, SubmitFailed, Result
<1>2. ASSUME NEW t \in Threads, Renews(t), t # u PROVE Done
  BY <1>0, <1>2 DEF Renews, Call, SubmitFailed, Result
<1>3. ASSUME NEW t \in Threads, SubmitList(t)
      PROVE  \/ /\ t = u /\ xfer'[u].deadline = (IF Timeout[u] = 0 THEN 0 ELSE now + Timeout[u])
                /\ xfer'[u].timedOut = xfer[u].timedOut /\ xfer'[u].status = xfer[u].status
             \/ Done
  BY <1>0, <1>3 DEF SubmitList, TransferType
<1>4. ASSUME NEW t \in Threads, MarkInFlight(t) \/ Returned(t) \/ CancelAndRetry(t) PROVE Done
  <2>1. ASSUME MarkInFlight(t) PROVE Done
    BY <1>0, <2>1 DEF MarkInFlight, TransferType
  <2>2. ASSUME Returned(t) PROVE Done
    BY <1>0, <2>2 DEF Returned, TransferType
  <2>3. ASSUME CancelAndRetry(t) PROVE Done
    <3> DEFINE c == xfer[t].cancelling \/ CanCancel(t)
    <3>1. xfer' = [xfer EXCEPT ![t].cancelling = c]
      BY <2>3 DEF CancelAndRetry
    <3> HIDE DEF c
    <3> QED
      BY <1>0, <3>1 DEF TransferType
  <2> QED
    BY <1>4, <2>1, <2>2, <2>3
<1>5. ASSUME NEW t \in Threads, HandleTimeout(t) PROVE Done
  <2>1. ASSUME NEW x \in Threads, TimeOut(t, x) PROVE Done
    <3> DEFINE c == xfer[x].cancelling \/ CanCancel(x)
    <3>1. xfer' = [xfer EXCEPT ![x].handled = TRUE, ![x].cancelling = c]
      BY <2>1 DEF TimeOut
    <3> HIDE DEF c
    <3> QED
      BY <1>0, <3>1 DEF TransferType
  <2>2. ASSUME TimeoutsDone(t) PROVE Done
    BY <2>2 DEF TimeoutsDone
  <2> QED
    BY <1>5, <2>1, <2>2, HandleTimeoutCases DEF DataTypes
<1>6. ASSUME NEW t \in Threads, MarkTimedOut(t) PROVE Done
  <2>1. xfer' = [xfer EXCEPT ![on[t]].timedOut = TRUE] /\ pc[t] = "expired"
    BY <1>6 DEF MarkTimedOut
  <2>2. CASE on[t] = u
    <3>1. xfer'[u] = [xfer[u] EXCEPT !.timedOut = TRUE]
      BY <1>0, <2>1, <2>2
    <3>2. /\ xfer'[u].deadline = xfer[u].deadline /\ xfer'[u].handled = xfer[u].handled
          /\ xfer'[u].status = xfer[u].status /\ xfer'[u].timedOut
      BY <1>0, <3>1 DEF TransferType
    <3> QED
      BY <2>1, <2>2, <3>2
  <2>3. CASE on[t] # u
    BY <1>0, <2>1, <2>3
  <2> QED
    BY <2>2, <2>3
<1>7. ASSUME NEW t \in Threads, Landed(t) PROVE Done
  <2>1. xfer' = [xfer EXCEPT ![on[t]].inFlight = FALSE, ![on[t]].status = status[t]]
    BY <1>7 DEF Landed
  <2>2. CASE on[t] = u
    BY <1>0, <1>7, <2>1, <2>2 DEF TransferType
  <2>3. CASE on[t] # u
    BY <1>0, <2>1, <2>3
  <2> QED
    BY <2>2, <2>3
<1>8. ASSUME NEW a \in Actors, CloseDrop(a) PROVE Done
  <2>1. xfer' = [xfer EXCEPT ![on[a]].handle = FALSE] \/ xfer' = xfer
    BY <1>8 DEF CloseDrop
  <2> QED
    BY <1>0, <2>1 DEF TransferType
<1>9. ASSUME UNCHANGED xfer PROVE Done
  BY <1>9
<1> QED
  BY <1>1, <1>2, <1>3, <1>4, <1>5, <1>6, <1>7, <1>8, <1>9, XferFrame DEF Renews

\* What completes a transfer works on one.
TouchedIsThread == \A a \in Actors : pc[a] \in {"cancelled", "unlist", "landed", "callback"} => on[a] \in Threads

\* An actor's status is its own.
LEMMA StatusKept ==
  ASSUME ControlTypes, [Next]_vars, NEW a \in Actors, status'[a] # status[a]
  PROVE  \/ Handler(a) \/ PollFails(a) \/ Reap(a) \/ Disconnect(a) \/ Cancelled(a)
         \/ Callback(a) \/ Broadcast(a) \/ CloseBegin(a)
<1> USE DEF ControlTypes
<1>1. ASSUME NEW t \in Threads, Handler(t) \/ PollFails(t) \/ Reap(t) PROVE t = a
  BY <1>1 DEF Handler, PollFails, Reap
<1>2. ASSUME NEW t \in Threads, Disconnect(t) \/ Cancelled(t) \/ Callback(t) PROVE t = a
  BY <1>2 DEF Disconnect, Cancelled, Callback
<1>3. ASSUME NEW b \in Actors, Broadcast(b) \/ CloseBegin(b) PROVE b = a
  BY <1>3 DEF Broadcast, CloseBegin
<1> QED
  BY <1>1, <1>2, <1>3, StatusFrame

-----------------------------------------------------------------------------
\* Errors have a reason: something failed, or the time was over.  The reason of a
\* discarded URB is at first only known to the thread that is about to mark it.
Reason(u) == xfer[u].timedOut \/ faults > 0 \/ \E a \in Actors : pc[a] = "expired" /\ on[a] = u

FaultInv ==
  /\ faults \in Nat
  /\ \A a \in Actors : status[a] \in {"FAILED", "CANCELLED"} \/ pc[a] = "error" => faults > 0
  /\ \A c \in Closers : on[c] # NoOne => faults > 0
  /\ \A u \in Threads : xfer[u].status = "CANCELLED" \/ result[u] = "IO" => faults > 0
  /\ \A u \in Threads : urb[u] = "discarded" => Reason(u)
  /\ \A a \in Actors : pc[a] = "cancelled" => Reason(on[a])

TimeOver(u) == Timeout[u] # 0 /\ now > Timeout[u]
OverInv ==
  /\ result \in [Threads -> {"none", "OK", "TIMEOUT", "PIPE", "NO_DEVICE", "IO"}]
  /\ \A u \in Threads : xfer[u].deadline # 0 => Timeout[u] # 0 /\ xfer[u].deadline > Timeout[u]
  /\ \A u \in Threads :
       xfer[u].timedOut \/ xfer[u].status = "TIMED_OUT" \/ result[u] = "TIMEOUT" => TimeOver(u)
  /\ \A a \in Actors : pc[a] = "expired" => TimeOver(on[a])
  /\ \A a \in Actors : status[a] = "TIMED_OUT" =>
       pc[a] \in {"unlist", "landed", "callback"} /\ TimeOver(on[a])

\* The clock never goes back.
LEMMA StaysOver ==
  ASSUME DataTypes, [Next]_vars, NEW u \in Threads, TimeOver(u)
  PROVE  TimeOver(u)'
<1>1. now' = now \/ now' = now + 1
  <2>1. ASSUME NEW t \in Threads, SubmitList(t) \/ SubmitFailed(t) \/ HandleTimeout(t) \/ UnlistDone(t)
        PROVE  now' = now
    BY <2>1 DEF SubmitList, SubmitFailed, HandleTimeout, UnlistDone
  <2> QED
    BY <2>1, TimeFrame DEF Tick
<1> QED
  BY <1>1 DEF TimeOver, DataTypes

LEMMA OverInvStep ==
  ASSUME ControlTypes, DataTypes, ExpiredInv, TouchedIsThread, OverInv, [Next]_vars
  PROVE  OverInv'
<1>0. \A u \in Threads : TimeOver(u) => TimeOver(u)'
  BY StaysOver
<1>1. ASSUME NEW u \in Threads, xfer'[u].deadline # 0
      PROVE  Timeout[u] # 0 /\ xfer'[u].deadline > Timeout[u]
  <2>1. CASE xfer'[u].deadline = xfer[u].deadline
    BY <1>1, <2>1 DEF OverInv
  <2>2. CASE xfer'[u].deadline = (IF Timeout[u] = 0 THEN 0 ELSE now + Timeout[u])
    BY <1>1, <2>2 DEF DataTypes
  <2> QED
    BY <1>1, <2>1, <2>2, XferKept DEF Blank
<1>2. ASSUME NEW u \in Threads, xfer'[u].timedOut PROVE TimeOver(u)'
  <2>1. CASE xfer[u].timedOut
    BY <2>1, StaysOver DEF OverInv
  <2>2. ASSUME NEW a \in Threads, pc[a] = "expired", on[a] = u PROVE TimeOver(u)'
    <3>1. TimeOver(on[a])
      BY <2>2 DEF OverInv
    <3>2. TimeOver(u)
      BY <3>1, <2>2 DEF TimeOver
    <3> QED
      BY <3>2, StaysOver
  <2> QED
    BY <1>2, <2>1, <2>2, XferKept DEF Blank
<1>3. ASSUME NEW u \in Threads, xfer'[u].status = "TIMED_OUT" PROVE TimeOver(u)'
  <2>1. CASE xfer[u].status = "TIMED_OUT"
    BY <2>1, StaysOver DEF OverInv
  <2>2. ASSUME NEW a \in Threads, on[a] = u, status[a] = "TIMED_OUT" PROVE TimeOver(u)'
    <3>1. TimeOver(on[a])
      BY <2>2 DEF OverInv
    <3>2. TimeOver(u)
      BY <3>1, <2>2 DEF TimeOver
    <3> QED
      BY <3>2, StaysOver
  <2> QED
    BY <1>3, <2>1, <2>2, XferKept DEF Blank
<1>4. ASSUME NEW u \in Threads, result'[u] = "TIMEOUT" PROVE TimeOver(u)'
  <2>1. CASE result[u] = "TIMEOUT"
    BY <2>1, StaysOver DEF OverInv
  <2>2. CASE result[u] # "TIMEOUT"
    <3>1. PICK t \in Threads : Call(t) \/ SubmitUrb(t) \/ Result(t)
      BY <1>4, <2>2, ResultFrame
    <3>2. Result(u)
      <4>1. ~Call(t)
        BY <1>4, <2>2 DEF Call, OverInv
      <4>2. ~SubmitUrb(t)
        BY <1>4, <2>2 DEF SubmitUrb, OverInv
      <4> QED
        BY <1>4, <2>2, <3>1, <4>1, <4>2 DEF Result, OverInv
    <3>3. xfer[u].status = "TIMED_OUT"
      BY <1>4, <2>2, <3>2 DEF Result, ResultOf, OverInv
    <3> QED
      BY <3>3, StaysOver DEF OverInv
  <2> QED
    BY <2>1, <2>2
<1>5. ASSUME NEW a \in Actors, pc'[a] = "expired" PROVE TimeOver(on[a])'
  <2>1. CASE pc[a] = "expired"
    <3>1. on'[a] = on[a]
      <4>1. ~MarkTimedOut(a)
        BY <1>5 DEF MarkTimedOut, ControlTypes
      <4> QED
        BY <2>1, <4>1, OnKept DEF Call, HandleTimeout, NextFd, Reap, Callback, UnlockEvents,
           ChooseVictim
    <3>2. on[a] \in Threads /\ TimeOver(on[a])
      BY <2>1 DEF ExpiredInv, OverInv
    <3>3. \A u \in Threads : TimeOver(u) => TimeOver(u)'
      BY StaysOver
    <3> QED
      BY <3>1, <3>2, <3>3 DEF TimeOver
  <2>2. CASE pc[a] # "expired"
    <3>1. HandleTimeout(a)
      BY <1>5, <2>2, Moves
    <3>2. PICK x \in Threads : Expired(x) /\ TimeOut(a, x)
      <4>1. ~TimeoutsDone(a)
        BY <1>5, <3>1 DEF TimeoutsDone, ControlTypes
      <4> QED
        BY <3>1, <4>1, HandleTimeoutCases DEF DataTypes
    <3>3. on'[a] = x
      BY <1>5, <2>2, <3>2 DEF TimeOut, ControlTypes
    <3>4. TimeOver(x)
      BY <3>2 DEF Expired, Pending, OverInv, TimeOver, DataTypes, TransferType
    <3>5. TimeOver(x)'
      BY <3>4, StaysOver
    <3> QED
      BY <3>3, <3>5 DEF TimeOver
  <2> QED
    BY <2>1, <2>2
<1>6. ASSUME NEW a \in Actors, status'[a] = "TIMED_OUT"
      PROVE  pc'[a] \in {"unlist", "landed", "callback"} /\ TimeOver(on[a])'
  <2>1. CASE status[a] = "TIMED_OUT"
    <3>1. pc[a] \in {"unlist", "landed", "callback"} /\ TimeOver(on[a])
      BY <2>1 DEF OverInv
    <3>2. ~Callback(a)
      BY <1>6 DEF Callback, ControlTypes
    <3>3. pc'[a] \in {"unlist", "landed", "callback"}
      BY <3>1, <3>2, Moves DEF UnlistDone, Landed, Cancelled, ControlTypes
    <3>4. on'[a] = on[a]
      BY <3>1, <3>2, OnKept DEF Call, HandleTimeout, MarkTimedOut, NextFd, Reap, UnlockEvents,
         ChooseVictim
    <3>5. on[a] \in Threads
      BY <3>1 DEF TouchedIsThread
    <3> QED
      BY <3>1, <3>3, <3>4, <3>5, <1>0 DEF TimeOver
  <2>2. CASE status[a] # "TIMED_OUT"
    <3>1. Reap(a) \/ Cancelled(a)
      BY <1>6, <2>2, StatusKept DEF Handler, PollFails, Disconnect, Callback, Broadcast, CloseBegin, ControlTypes
    <3>2. ~Reap(a)
      BY <1>6 DEF Reap, StatusOf, ControlTypes
    <3>3. Cancelled(a) /\ xfer[on[a]].timedOut
      BY <1>6, <3>1, <3>2 DEF Cancelled, ControlTypes
    <3>4. pc'[a] = "unlist" /\ on'[a] = on[a] /\ on[a] \in Threads
      BY <3>3 DEF Cancelled, ControlTypes, TouchedIsThread
    <3> QED
      BY <3>3, <3>4, <1>0 DEF OverInv, TimeOver
  <2> QED
    BY <2>1, <2>2
<1>7. result' \in [Threads -> {"none", "OK", "TIMEOUT", "PIPE", "NO_DEVICE", "IO"}]
  BY ResultFrame DEF OverInv, Call, SubmitUrb, Result, ResultOf
<1> QED
  BY <1>1, <1>2, <1>3, <1>4, <1>5, <1>6, <1>7 DEF OverInv

\* A reason stays a reason while the transfer is not renewed.
LEMMA ReasonKept ==
  ASSUME ControlTypes, DataTypes, FaultInv, [Next]_vars, NEW u \in Threads, Reason(u),
         Renews(u) => xfer'[u] = xfer[u] \/ faults > 0
  PROVE  Reason(u)'
<1>1. CASE faults > 0
  BY <1>1, FaultsFrame, FaultsAssumption DEF Reason, FaultInv
<1>2. CASE xfer[u].timedOut /\ ~(faults > 0)
  BY <1>2, XferKept DEF Reason
<1>3. ASSUME NEW a \in Actors, pc[a] = "expired", on[a] = u PROVE Reason(u)'
  <2>1. CASE MarkTimedOut(a)
    BY <1>3, <2>1 DEF MarkTimedOut, Reason, DataTypes, TransferType
  <2>2. CASE ~MarkTimedOut(a)
    <3>1. pc'[a] = "expired"
      BY <1>3, <2>2, Moves
    <3>2. on'[a] = on[a]
      BY <1>3, <2>2, OnKept DEF Call, HandleTimeout, NextFd, Reap, Callback, UnlockEvents,
         ChooseVictim
    <3> QED
      BY <1>3, <3>1, <3>2 DEF Reason
  <2> QED
    BY <2>1, <2>2
<1> QED
  BY <1>1, <1>2, <1>3 DEF Reason

LEMMA FaultInvStep ==
  ASSUME EventsInv, FaultInv, OverInv, [Next]_vars
  PROVE  FaultInv'
<1>0. /\ ControlTypes /\ DataTypes /\ LockInv /\ CloseInv /\ TransferInv
      /\ faults \in Nat /\ faults' \in Nat /\ (faults > 0 => faults' > 0)
  BY FaultsFrame, FaultsAssumption DEF EventsInv, FaultInv
<1>1. ASSUME NEW a \in Actors, status'[a] \in {"FAILED", "CANCELLED"} PROVE faults' > 0
  <2>1. CASE status[a] = status'[a]
    BY <1>0, <1>1, <2>1 DEF FaultInv
  <2>2. CASE status[a] # status'[a]
    <3>1. PollFails(a) \/ Reap(a) \/ Cancelled(a)
      BY <1>0, <1>1, <2>2, StatusKept DEF Handler, Disconnect, Callback, Broadcast, CloseBegin,
         ControlTypes
    <3>2. CASE PollFails(a)
      BY <1>0, <3>2, FaultsAssumption DEF PollFails, Disturbance
    <3>3. ~Reap(a)
      BY <1>0, <1>1 DEF Reap, StatusOf, ControlTypes
    <3>4. CASE Cancelled(a)
      <4>1. pc[a] = "cancelled" /\ flyingLock = NoOne /\ ~xfer[on[a]].timedOut
        BY <1>0, <1>1, <3>4 DEF Cancelled, ControlTypes
      <4>2. \A b \in Actors : pc[b] # "expired"
        BY <1>0, <4>1 DEF LockInv
      <4>3. Reason(on[a])
        BY <4>1 DEF FaultInv
      <4> QED
        BY <1>0, <4>1, <4>2, <4>3 DEF Reason
    <3> QED
      BY <3>1, <3>2, <3>3, <3>4
  <2> QED
    BY <2>1, <2>2
<1>2. ASSUME NEW a \in Actors, pc'[a] = "error" PROVE faults' > 0
  <2>1. CASE pc[a] = "error"
    BY <1>0, <2>1 DEF FaultInv
  <2>2. CASE pc[a] # "error"
    <3>1. Broadcast(a)
      BY <1>0, <1>2, <2>2, Moves
    <3>2. status[a] = "FAILED"
      BY <1>0, <1>2, <3>1 DEF Broadcast, ControlTypes
    <3> QED
      BY <1>0, <3>2 DEF FaultInv
  <2> QED
    BY <2>1, <2>2
<1>3. ASSUME NEW c \in Closers, on'[c] # NoOne PROVE faults' > 0
  <2>1. CASE on[c] # NoOne
    BY <1>0, <2>1 DEF FaultInv
  <2>2. CASE on[c] = NoOne
    <3>1. pc[c] \in CloserLabels
      BY <1>0 DEF CloseInv
    <3>2. UnlockEvents(c) \/ ChooseVictim(c)
      BY <1>0, <1>3, <2>2, <3>1, OnKept DEF Call, HandleTimeout, MarkTimedOut, NextFd, Reap,
         Callback, CloserLabels, Closing
    <3>3. ~UnlockEvents(c)
      BY <1>0, <1>3, <2>2 DEF UnlockEvents, ControlTypes
    <3> QED
      BY <1>0, <1>3, <2>2, <3>2, <3>3, FaultsAssumption DEF ChooseVictim, Disturbance
  <2> QED
    BY <2>1, <2>2
<1>4. ASSUME NEW u \in Threads, xfer'[u].status = "CANCELLED" PROVE faults' > 0
  BY <1>0, <1>4, XferKept DEF Blank, FaultInv
<1>5. ASSUME NEW u \in Threads, result'[u] = "IO" PROVE faults' > 0
  <2>1. CASE result[u] = "IO"
    BY <1>0, <2>1 DEF FaultInv
  <2>2. CASE result[u] # "IO"
    <3>1. PICK t \in Threads : Call(t) \/ SubmitUrb(t) \/ Result(t)
      BY <1>5, <2>2, ResultFrame
    <3>2. ~Call(t)
      BY <1>5, <2>2 DEF Call, OverInv
    <3>3. CASE SubmitUrb(t)
      BY <1>0, <1>5, <2>2, <3>3, FaultsAssumption DEF SubmitUrb, Disturbance, OverInv
    <3>4. CASE Result(t)
      <4>1. ResultOf(xfer[u].status) = "IO"
        BY <1>5, <2>2, <3>4 DEF Result, OverInv
      <4>2. xfer[u].status \in {"COMPLETED", "TIMED_OUT", "STALL", "NO_DEVICE", "CANCELLED"}
        BY <1>0 DEF DataTypes, TransferType
      <4> QED
        BY <1>0, <4>1, <4>2 DEF ResultOf, FaultInv
    <3> QED
      BY <3>1, <3>2, <3>3, <3>4
  <2> QED
    BY <2>1, <2>2
<1>6. ASSUME NEW u \in Threads, urb'[u] = "discarded" PROVE Reason(u)'
  <2>1. CASE urb[u] = "discarded"
    <3>1. Reason(u)
      BY <2>1 DEF FaultInv
    <3>2. ASSUME Renews(u), xfer'[u] # xfer[u] PROVE faults > 0
      <4>1. OwnerInv(u)
        BY <1>0 DEF TransferInv
      <4>2. TornDown(u)
        <5>1. CASE Call(u)
          BY <2>1, <4>1, <5>1 DEF OwnerInv, Call, Resting
        <5>2. CASE SubmitFailed(u)
          BY <2>1, <4>1, <5>2 DEF OwnerInv, SubmitFailed
        <5>3. CASE Result(u)
          BY <2>1, <4>1, <5>3 DEF OwnerInv, Result
        <5> QED
          BY <3>2, <5>1, <5>2, <5>3 DEF Renews
      <4>3. PICK a \in Actors : pc[a] = "closeFd" /\ on[a] = u
        BY <4>2 DEF TornDown
      <4>4. pc[u] # "closeFd"
        BY <3>2 DEF Renews, Call, SubmitFailed, Result
      <4>5. a \in Closers
        BY <1>0, <4>3, <4>4 DEF CloseInv, Closing, Actors
      <4> QED
        BY <4>3, <4>5 DEF FaultInv
    <3> QED
      BY <1>0, <3>1, <3>2, ReasonKept
  <2>2. CASE urb[u] # "discarded"
    <3>1. CASE \E t \in Threads : CancelAndRetry(t)
      <4>1. \E t \in Threads : pc[t] = "error"
        BY <3>1 DEF CancelAndRetry
      <4> QED
        BY <1>0, <4>1 DEF Reason, FaultInv
    <3>2. ASSUME NEW t \in Threads, HandleTimeout(t) PROVE Reason(u)'
      <4>1. PICK x \in Threads : TimeOut(t, x)
        <5>1. ~TimeoutsDone(t)
          BY <1>6, <2>2 DEF TimeoutsDone
        <5> QED
          BY <1>0, <3>2, <5>1, HandleTimeoutCases DEF DataTypes
      <4>2. u = x /\ CancelSucceeds(x)
        BY <1>0, <1>6, <2>2, <4>1 DEF TimeOut, CancelUrb, DataTypes
      <4>3. on'[t] = u /\ pc'[t] = "expired"
        BY <1>0, <4>1, <4>2 DEF TimeOut, ControlTypes
      <4> QED
        BY <4>3 DEF Reason
    <3>3. ASSUME NEW t \in Threads, SubmitUrb(t) \/ Reap(t) \/ Disconnect(t) \/ Complete(t) \/ Unplug(t)
          PROVE  urb'[u] # "discarded"
      BY <1>0, <2>2, <3>3 DEF SubmitUrb, Reap, Disconnect, Complete, Unplug, DataTypes
    <3>4. ASSUME NEW a \in Actors, CloseFd(a) PROVE urb'[u] # "discarded"
      BY <1>0, <2>2, <3>4 DEF CloseFd, DataTypes
    <3> QED
      BY <1>6, <2>2, <3>1, <3>2, <3>3, <3>4, UrbFrame
  <2> QED
    BY <2>1, <2>2
<1>7. ASSUME NEW a \in Actors, pc'[a] = "cancelled" PROVE Reason(on[a])'
  <2>1. CASE pc[a] = "cancelled"
    <3>0. on[a] \in Threads
      BY <2>1 DEF EventsInv, FdInv, Reports, DataTypes, InBackend
    <3>2. PICK u \in Threads : u = on[a]
      BY <3>0
    <3>1. on'[a] = u
      BY <1>0, <2>1, <3>2, OnKept DEF Call, HandleTimeout, MarkTimedOut, NextFd, Reap, Callback,
         UnlockEvents, ChooseVictim
    <3>3. Reason(u)
      BY <2>1, <3>2 DEF FaultInv, Reason
    <3>4. ~Renews(u)
      <4>1. OwnerInv(u) /\ TouchInv(a, u)
        BY <1>0, <3>2 DEF TransferInv
      <4>2. xfer[u].alive /\ ~completed[u] /\ pc[u] \notin Submitting
        BY <2>1, <3>2, <4>1 DEF TouchInv, Touches
      <4> QED
        BY <4>1, <4>2 DEF OwnerInv, Renews, Call, SubmitFailed, Result, Submitting, Resting
    <3>5. Reason(u)'
      BY <1>0, <3>2, <3>3, <3>4, ReasonKept
    <3> QED
      BY <3>1, <3>5 DEF Reason
  <2>2. CASE pc[a] # "cancelled"
    <3>1. Reap(a)
      BY <1>0, <1>7, <2>2, Moves
    <3>2. PICK h \in Threads : urb[h] = "discarded" /\ on'[a] = h
      BY <1>0, <1>7, <3>1, ReadyAreThreads DEF Reap, ControlTypes
    <3>3. Reason(h)
      BY <3>2 DEF FaultInv
    <3>4. Renews(h) => xfer'[h] = xfer[h]
      BY <3>1 DEF Reap
    <3>5. Reason(h)'
      BY <1>0, <3>3, <3>4, ReasonKept
    <3> QED
      BY <3>2, <3>5 DEF Reason
  <2> QED
    BY <2>1, <2>2
<1> QED
  BY <1>0, <1>1, <1>2, <1>3, <1>4, <1>5, <1>6, <1>7 DEF FaultInv

-----------------------------------------------------------------------------
\* The timer: transfers without a deadline are at the end of the list, and a first
\* transfer whose timeout was not handled has armed the timer, or an earlier one
\* has.  Nobody else needs it: the others are looked at when the first one is.
TimerInv ==
  /\ \A i, j \in 1..Len(flying) :
       i < j /\ xfer[flying[i]].deadline = 0 => xfer[flying[j]].deadline = 0
  /\ useTimer /\ flying # <<>> /\ Pending(flying[1]) =>
       timer # 0 /\ timer =< xfer[flying[1]].deadline
  /\ \A c \in Closers : on[c] \in Victims \cup {NoOne}

\* The first timeout that was not handled is that of the first transfer, if its was not.
LEMMA NextTimeoutOfFirst ==
  ASSUME NEW list \in Seq(Threads), list # <<>>, Pending(list[1])
  PROVE  NextTimeout(list) = xfer[list[1]].deadline
<1> DEFINE I == {i \in 1..Len(list) : Pending(list[i])}
<1>1. I \in SUBSET Nat /\ 1 \in I
  OBVIOUS
<1>2. SelectInSeq(list, Pending) = Min(I)
  BY <1>1 DEF SelectInSeq
<1>3. \A i \in I : i \in Nat /\ i >= 1
  OBVIOUS
<1> HIDE DEF I
<1>4. Min(I) = 1
  <2> DEFINE m == Min(I)
  <2>1. m \in I /\ m =< 1
    <3>1. Min(I) \in I /\ \A i \in I : Min(I) =< i
      BY <1>1, MinInSet
    <3> QED
      BY <1>1, <3>1
  <2> HIDE DEF m
  <2>2. m \in Nat /\ m >= 1
    BY <1>3, <2>1
  <2>3. m = 1
    BY <2>1, <2>2
  <2> QED
    BY <2>3 DEF m
<1> QED
  BY <1>2, <1>4 DEF NextTimeout

LEMMA NextTimeoutPending ==
  ASSUME NEW list \in Seq(Threads), NextTimeout(list) # 0
  PROVE  \E i \in 1..Len(list) : Pending(list[i]) /\ NextTimeout(list) = xfer[list[i]].deadline
<1> DEFINE I == {i \in 1..Len(list) : Pending(list[i])}
           k == SelectInSeq(list, Pending)
<1>1. I \in SUBSET Nat /\ (I # {} => Min(I) \in I)
  <2>1. I \in SUBSET Nat
    OBVIOUS
  <2> HIDE DEF I
  <2> QED
    BY <2>1, MinInSet
<1>2. k = IF I # {} THEN Min(I) ELSE 0
  BY DEF SelectInSeq
<1>3. NextTimeout(list) = IF k = 0 THEN 0 ELSE xfer[list[k]].deadline
  BY DEF NextTimeout
<1> HIDE DEF k
<1> QED
  BY <1>1, <1>2, <1>3

\* add_to_flying_list puts a deadline behind deadlines only, and none at the end.
LEMMA PlaceOfDeadline ==
  ASSUME flying \in Seq(Threads), NEW d
  PROVE  /\ d = 0 => PlaceOf(d) = Len(flying) + 1
         /\ \A i \in 1..Len(flying) : i < PlaceOf(d) /\ d # 0 => xfer[flying[i]].deadline # 0
<1> DEFINE I == {i \in 1..Len(flying) : Later(flying[i], d)}
           k == SelectInSeq(flying, LAMBDA x : Later(x, d))
<1>1. I \in SUBSET Nat /\ (I # {} => Min(I) \in I /\ \A i \in I : Min(I) =< i)
  <2>1. I \in SUBSET Nat
    OBVIOUS
  <2> HIDE DEF I
  <2> QED
    BY <2>1, MinInSet
<1>2. k = IF I # {} THEN Min(I) ELSE 0
  BY DEF SelectInSeq
<1>3. PlaceOf(d) = IF d = 0 \/ k = 0 THEN Len(flying) + 1 ELSE k
  BY DEF PlaceOf
<1>4. ASSUME NEW i \in 1..Len(flying), i < PlaceOf(d), d # 0 PROVE xfer[flying[i]].deadline # 0
  <2>1. i \notin I
    <3>1. CASE I = {}
      BY <3>1
    <3>2. CASE I # {}
      <4>1. Min(I) \in I /\ k = Min(I) /\ \A j \in I : Min(I) =< j
        BY <1>1, <1>2, <3>2
      <4>2. k \in 1..Len(flying)
        BY <4>1
      <4> HIDE DEF I, k
      <4> QED
        BY <1>3, <1>4, <4>1, <4>2
    <3> QED
      BY <3>1, <3>2
  <2> QED
    BY <2>1 DEF Later
<1> QED
  BY <1>3, <1>4

\* A transfer that is and stays on the list keeps its deadline.
LEMMA ListedKept ==
  ASSUME EventsInv, [Next]_vars, NEW u \in Threads, Listed(u), Listed(u)'
  PROVE  xfer'[u].deadline = xfer[u].deadline /\ (xfer[u].handled => xfer'[u].handled)
<1>1. /\ ControlTypes /\ DataTypes /\ OwnerInv(u)
  BY DEF EventsInv, TransferInv
<1>2. ~Call(u) /\ ~Result(u) /\ ~SubmitList(u)
  BY <1>1 DEF OwnerInv, Resting, Call, Result, SubmitList
<1>3. ~SubmitFailed(u)
  <2>1. SubmitFailed(u) => ~Listed(u)'
    BY <1>1, Unlisted DEF SubmitFailed, Unlist, DataTypes
  <2> QED
    BY <2>1
<1> QED
  BY <1>1, <1>2, <1>3, XferKept DEF Renews

\* A list that lost one transfer has the others in their order.
LEMMA StillSorted ==
  ASSUME EventsInv, TimerInv, [Next]_vars, NEW x \in Threads, Listed(x),
         NEW r, flying' = r, r = RemoveFirst(flying, x)
  PROVE  /\ \A i, j \in 1..Len(r) :
              i < j /\ xfer'[r[i]].deadline = 0 => xfer'[r[j]].deadline = 0
         /\ flying[1] # x => r # <<>> /\ r[1] = flying[1]
         /\ xfer[x].deadline = 0 /\ flying[1] = x =>
              \A i \in 1..Len(r) : xfer'[r[i]].deadline = 0
<1>1. flying \in Seq(Threads) /\ IsInjective(flying) /\ Contains(flying, x)
  BY DEF EventsInv, DataTypes, Listed
<1>2. /\ \A i, j \in 1..Len(r) : i < j =>
           \E k, l \in 1..Len(flying) : k < l /\ r[i] = flying[k] /\ r[j] = flying[l]
      /\ flying[1] # x => Len(r) > 0 /\ r[1] = flying[1]
      /\ flying[1] = x => \A i \in 1..Len(r) : i + 1 \in 1..Len(flying) /\ r[i] = flying[i + 1]
  <2>1. InOrder(r, flying, x)
    BY <1>1, RemoveOrder
  <2> QED
    BY <2>1 DEF InOrder
<1>3. r \in Seq(Threads) /\ \A y : Contains(r, y) => Contains(flying, y)
  BY <1>1, RemoveList
<1>4. ASSUME NEW i \in 1..Len(r) PROVE xfer'[r[i]].deadline = xfer[r[i]].deadline
  <2>1. r[i] \in Threads /\ Contains(r, r[i])
    BY <1>3 DEF Contains
  <2>2. Listed(r[i]) /\ Listed(r[i])'
    BY <1>3, <2>1 DEF Listed
  <2> QED
    BY <2>1, <2>2, ListedKept
<1>5. ASSUME NEW i \in 1..Len(r), NEW j \in 1..Len(r), i < j, xfer'[r[i]].deadline = 0
      PROVE  xfer'[r[j]].deadline = 0
  <2>1. PICK k \in 1..Len(flying), l \in 1..Len(flying) :
          k < l /\ r[i] = flying[k] /\ r[j] = flying[l]
    BY <1>2, <1>5
  <2> QED
    BY <1>4, <1>5, <2>1 DEF TimerInv
<1>6. ASSUME xfer[x].deadline = 0, flying[1] = x, NEW i \in 1..Len(r)
      PROVE  xfer'[r[i]].deadline = 0
  <2>1. i + 1 \in 1..Len(flying) /\ r[i] = flying[i + 1] /\ 1 \in 1..Len(flying)
    BY <1>2, <1>6
  <2>2. xfer[flying[i + 1]].deadline = 0
    BY <1>6, <2>1 DEF TimerInv
  <2> QED
    BY <1>4, <2>1, <2>2
<1> QED
  BY <1>2, <1>3, <1>5, <1>6

\* remove_from_flying_list arms the timer for the next first transfer.
LEMMA UnlistArms ==
  ASSUME EventsInv, TimerInv, [Next]_vars, NEW x \in Threads, Unlist(x), useTimer,
         NEW r, flying' = r, NEW y \in Threads, r # <<>>, r[1] = y, Pending(y)'
  PROVE  timer' # 0 /\ timer' =< xfer'[y].deadline
<1>1. /\ flying \in Seq(Threads) /\ IsInjective(flying) /\ r = RemoveFirst(flying, x)
      /\ xfer' \in [Threads -> TransferType]
  BY StepInv DEF EventsInv, DataTypes, Unlist
<1>2. r \in Seq(Threads) /\ \A z : Contains(r, z) => Contains(flying, z)
  BY <1>1, RemoveList
<1>3. Listed(y) /\ Listed(y)' /\ Len(r) > 0
  <2>1. Contains(r, y) /\ Len(r) > 0
    BY <1>2 DEF Contains
  <2> QED
    BY <1>2, <2>1 DEF Listed
<1>4. xfer'[y].deadline = xfer[y].deadline /\ Pending(y) /\ xfer'[y].deadline # 0
  BY <1>3, ListedKept DEF Pending
<1>5. CASE ~Listed(x) \/ flying[1] # x
  <2>1. flying # <<>>
    BY <1>1, <1>3 DEF Listed, Contains
  <2>2. flying[1] = y /\ flying[1] # x
    <3>1. CASE Listed(x)
      BY <1>1, <1>5, <3>1, StillSorted
    <3>2. CASE ~Listed(x)
      BY <1>1, <2>1, <3>2 DEF RemoveFirst, Listed, Contains
    <3> QED
      BY <3>1, <3>2
  <2>3. timer' = timer
    BY <1>1, <2>1, <2>2 DEF Unlist
  <2> QED
    BY <1>4, <2>1, <2>2, <2>3 DEF TimerInv
<1>6. CASE Listed(x) /\ flying[1] = x
  <2>0. 1 \in 1..Len(r) /\ flying # <<>>
    BY <1>1, <1>2, <1>3, <1>6 DEF Listed, Contains
  <2>1. xfer[x].deadline # 0
    BY <1>1, <1>4, <1>6, <2>0, StillSorted
  <2>2. timer' = NextTimeout(r)
    BY <1>1, <1>6, <2>0, <2>1 DEF Unlist
  <2>3. NextTimeout(r) = xfer[y].deadline
    BY <1>2, <1>4, NextTimeoutOfFirst
  <2> QED
    BY <1>1, <1>4, <2>2, <2>3 DEF TransferType
<1> QED
  BY <1>5, <1>6

\* Only handles without a timeout are closed under the thread that waits on them.
ClosedUntimed == \A v \in Victims : Timeout[v] = 0

\* A submission that becomes the first one arms the timer.
LEMMA SubmitArms ==
  ASSUME EventsInv, TimerInv, NEW t \in Threads, SubmitList(t), ~Listed(t),
         NEW r, flying' = r
  PROVE  /\ \A i, j \in 1..Len(r) :
              i < j /\ xfer'[r[i]].deadline = 0 => xfer'[r[j]].deadline = 0
         /\ useTimer /\ xfer'[r[1]].deadline # 0 /\ ~xfer'[r[1]].handled =>
              timer' # 0 /\ timer' =< xfer'[r[1]].deadline
<1> DEFINE d == IF Timeout[t] = 0 THEN 0 ELSE now + Timeout[t]
           n == PlaceOf(d)
<1>1. /\ xfer' = [xfer EXCEPT ![t].deadline = d] /\ r = InsertAt(flying, n, t)
      /\ timer' = IF useTimer /\ d # 0 /\ n = 1 THEN d ELSE timer
  BY DEF SubmitList, ArmedFor
<1>2. /\ flying \in Seq(Threads) /\ Len(flying) \in Nat
      /\ xfer \in [Threads -> TransferType] /\ d \in Nat
  BY DEF EventsInv, DataTypes
<1>3. n \in 1..Len(flying) + 1 /\ (d = 0 => n = Len(flying) + 1)
  BY <1>2, LaterIndex, PlaceOfDeadline
<1>4. \A i \in 1..Len(flying) : i < n /\ d # 0 => xfer[flying[i]].deadline # 0
  BY <1>2, PlaceOfDeadline
<1> HIDE DEF d, n
<1>5. /\ r \in Seq(Threads) /\ Len(r) = Len(flying) + 1
      /\ \A j \in 1..Len(flying) + 1 :
           r[j] = IF j < n THEN flying[j] ELSE IF j = n THEN t ELSE flying[j - 1]
  <2>1. InsertAt(flying, n, t) \in Seq(Threads) /\ Len(InsertAt(flying, n, t)) = Len(flying) + 1
    BY <1>2, <1>3, InsertElements
  <2>2. \A j \in 1..Len(flying) + 1 :
          InsertAt(flying, n, t)[j] = IF j < n THEN flying[j] ELSE IF j = n THEN t ELSE flying[j - 1]
    BY <1>2, <1>3, InsertElements
  <2> QED
    BY <1>1, <2>1, <2>2
<1>6. /\ xfer'[t].deadline = d
      /\ \A i \in 1..Len(flying) : flying[i] \in Threads /\ xfer'[flying[i]] = xfer[flying[i]]
  <2>1. ASSUME NEW i \in 1..Len(flying) PROVE flying[i] \in Threads /\ flying[i] # t
    BY <1>2 DEF Listed, Contains
  <2> QED
    BY <1>1, <1>2, <2>1 DEF TransferType
<1>7. \A i, j \in 1..Len(flying) :
        i < j /\ xfer[flying[i]].deadline = 0 => xfer[flying[j]].deadline = 0
  BY DEF TimerInv
<1>8. ASSUME NEW i \in 1..Len(r), NEW j \in 1..Len(r), i < j, xfer'[r[i]].deadline = 0
      PROVE  xfer'[r[j]].deadline = 0
  <2> DEFINE k == IF i < n THEN i ELSE i - 1
             l == IF j < n THEN j ELSE j - 1
  <2>1. i # n => k \in 1..Len(flying) /\ r[i] = flying[k]
    BY <1>2, <1>3, <1>5
  <2>2. j # n => l \in 1..Len(flying) /\ r[j] = flying[l]
    <3>1. j \in 1..Len(flying) + 1
      BY <1>5
    <3>2. j # n => l \in 1..Len(flying)
      BY <1>2, <1>3, <3>1
    <3> QED
      BY <1>5, <3>1, <3>2
  <2>3. CASE i # n /\ j # n
    <3>1. k < l
      BY <1>3, <1>5, <1>8, <2>3
    <3> HIDE DEF k, l
    <3> QED
      BY <1>6, <1>7, <1>8, <2>1, <2>2, <2>3, <3>1
  <2>4. CASE i = n
    <3>1. r[i] = t /\ d = 0
      BY <1>3, <1>5, <1>6, <1>8, <2>4
    <3> QED
      BY <1>3, <1>5, <1>8, <2>4, <3>1
  <2>5. CASE j = n
    <3>1. r[j] = t /\ i < n /\ k = i /\ i # n
      BY <1>3, <1>5, <1>8, <2>5
    <3>2. xfer[flying[i]].deadline = 0 /\ i \in 1..Len(flying)
      BY <1>6, <1>8, <2>1, <3>1
    <3> QED
      BY <1>4, <1>6, <3>1, <3>2
  <2> QED
    BY <2>3, <2>4, <2>5
<1>9. ASSUME useTimer, xfer'[r[1]].deadline # 0, ~xfer'[r[1]].handled
      PROVE  timer' # 0 /\ timer' =< xfer'[r[1]].deadline
  <2>1. CASE n = 1
    <3>1. r[1] = t /\ d # 0
      BY <1>2, <1>5, <1>6, <1>9, <2>1
    <3> QED
      BY <1>1, <1>2, <1>6, <1>9, <2>1, <3>1
  <2>2. CASE n # 1
    <3>0. 1 \in 1..Len(flying) /\ 1 \in 1..Len(flying) + 1 /\ 1 < n
      BY <1>2, <1>3, <2>2
    <3>1. r[1] = flying[1] /\ timer' = timer
      BY <1>1, <1>5, <2>2, <3>0
    <3>3. flying # <<>>
      BY <3>0
    <3>2. Pending(flying[1]) /\ xfer'[r[1]] = xfer[flying[1]]
      BY <1>6, <1>9, <3>0, <3>1 DEF Pending
    <3> QED
      BY <1>9, <3>1, <3>2, <3>3 DEF TimerInv
  <2> QED
    BY <2>1, <2>2
<1> QED
  BY <1>8, <1>9

\* While the list stays as it is, so do its deadlines.
LEMMA SameList ==
  ASSUME EventsInv, TimerInv, [Next]_vars, flying' = flying
  PROVE  /\ \A i, j \in 1..Len(flying) :
              i < j /\ xfer'[flying[i]].deadline = 0 => xfer'[flying[j]].deadline = 0
         /\ \A i \in 1..Len(flying) :
              /\ xfer'[flying[i]].deadline = xfer[flying[i]].deadline
              /\ ~xfer'[flying[i]].handled => ~xfer[flying[i]].handled
<1>1. flying \in Seq(Threads)
  BY DEF EventsInv, DataTypes
<1>2. ASSUME NEW i \in 1..Len(flying)
      PROVE  /\ xfer'[flying[i]].deadline = xfer[flying[i]].deadline
             /\ xfer[flying[i]].handled => xfer'[flying[i]].handled
  <2>1. PICK u \in Threads : u = flying[i]
    BY <1>1
  <2>2. Listed(u) /\ Listed(u)'
    BY <1>1, <2>1 DEF Listed, Contains
  <2> QED
    BY <2>1, <2>2, ListedKept
<1> QED
  BY <1>2 DEF TimerInv

LEMMA TimerInvStep ==
  ASSUME EventsInv, OverInv, TimerInv, ClosedUntimed, [Next]_vars
  PROVE  TimerInv'
<1>0. /\ EventsInv' /\ useTimer' = useTimer
      /\ ControlTypes /\ DataTypes /\ CloseInv /\ TransferInv
  BY StepInv, UseTimerFrame DEF EventsInv
<1>1. PICK r : flying' = r
  OBVIOUS
<1>2. r \in Seq(Threads) /\ flying \in Seq(Threads) /\ IsInjective(flying)
  BY <1>0, <1>1 DEF EventsInv, DataTypes
<1> DEFINE Sorted == \A i, j \in 1..Len(r) : i < j /\ xfer'[r[i]].deadline = 0 => xfer'[r[j]].deadline = 0
           Armed == useTimer /\ r # <<>> /\ xfer'[r[1]].deadline # 0 /\ ~xfer'[r[1]].handled =>
                      timer' # 0 /\ timer' =< xfer'[r[1]].deadline
\* The list and the timer as they were.
<1>3. ASSUME r = flying
      PROVE  Sorted /\ (timer' = timer => Armed)
  <2>1. flying' = flying
    BY <1>1, <1>3
  <2>2. /\ \A i, j \in 1..Len(flying) :
             i < j /\ xfer'[flying[i]].deadline = 0 => xfer'[flying[j]].deadline = 0
        /\ \A i \in 1..Len(flying) :
             /\ xfer'[flying[i]].deadline = xfer[flying[i]].deadline
             /\ ~xfer'[flying[i]].handled => ~xfer[flying[i]].handled
    BY <2>1, SameList
  <2>3. flying # <<>> => 1 \in 1..Len(flying)
    BY <1>2
  <2>4. timer' = timer => Armed
    BY <1>3, <2>2, <2>3 DEF TimerInv, Pending
  <2> QED
    BY <1>3, <2>2, <2>4
\* A transfer leaves the list.
<1>4. ASSUME NEW x \in Threads, Unlist(x) PROVE Sorted /\ Armed
  <2>1. r = RemoveFirst(flying, x)
    BY <1>1, <1>4 DEF Unlist
  <2>2. Sorted
    <3>1. CASE Listed(x)
      BY <1>1, <2>1, <3>1, StillSorted
    <3>2. CASE ~Listed(x)
      <4>1. r = flying
        BY <2>1, <3>2 DEF RemoveFirst, Listed, Contains
      <4> QED
        BY <4>1, <1>3
    <3> QED
      BY <3>1, <3>2
  <2>3. Armed
    <3> SUFFICES ASSUME useTimer, r # <<>>, xfer'[r[1]].deadline # 0, ~xfer'[r[1]].handled
                 PROVE  timer' # 0 /\ timer' =< xfer'[r[1]].deadline
      OBVIOUS
    <3>1. PICK y \in Threads : y = r[1]
      BY <1>2
    <3>2. Pending(y)'
      BY <3>1 DEF Pending
    <3>3. timer' # 0 /\ timer' =< xfer'[y].deadline
      BY <1>1, <1>4, <3>1, <3>2, UnlistArms
    <3> QED
      BY <3>1, <3>3
  <2> QED
    BY <2>2, <2>3
<1>5. ASSUME NEW t \in Threads, SubmitList(t) PROVE Sorted /\ Armed
  <2>1. ~Listed(t)
    BY <1>0, <1>5 DEF SubmitList, TransferInv, OwnerInv
  <2> QED
    BY <1>1, <1>5, <2>1, SubmitArms
<1>6. ASSUME NEW t \in Threads, SubmitFailed(t) \/ UnlistDone(t) PROVE Sorted /\ Armed
  <2>1. CASE SubmitFailed(t)
    BY <2>1, <1>4 DEF SubmitFailed
  <2>2. CASE UnlistDone(t)
    <3>1. on[t] \in Threads /\ Unlist(on[t])
      BY <1>0, <2>2 DEF UnlistDone, EventsInv, FdInv, Reports, DataTypes, InBackend
    <3> QED
      BY <3>1, <1>4
  <2> QED
    BY <1>6, <2>1, <2>2
<1>7. ASSUME NEW a \in Actors, CloseDrop(a) PROVE Sorted /\ Armed
  <2>1. timer' = timer
    BY <1>7 DEF CloseDrop
  <2>2. CASE ~Listed(on[a])
    BY <1>1, <1>3, <1>7, <2>1, <2>2 DEF CloseDrop, Listed
  <2>3. CASE Listed(on[a])
    <3>1. PICK h \in Threads : h = on[a]
      BY <1>2, <2>3 DEF Listed, Contains
    <3>2. h # a
      <4>1. xfer[h].alive
        BY <1>0, <2>3, <3>1 DEF TransferInv, OwnerInv
      <4>2. pc[a] = "drop"
        BY <1>7 DEF CloseDrop
      <4> QED
        BY <1>0, <3>1, <4>1, <4>2 DEF TransferInv, OwnerInv, Resting, Closing
    <3>3. a \in Closers /\ h \in Victims
      BY <1>0, <1>7, <3>1, <3>2 DEF CloseDrop, CloseInv, Closing, TimerInv, Actors
    <3>4. xfer[h].deadline = 0
      BY <3>3 DEF ClosedUntimed, OverInv
    <3>5. r = RemoveFirst(flying, h) /\ Listed(h)
      BY <1>1, <1>7, <2>3, <3>1 DEF CloseDrop, Listed
    <3>6. /\ Sorted /\ (flying[1] # h => r # <<>> /\ r[1] = flying[1])
          /\ flying[1] = h => \A i \in 1..Len(r) : xfer'[r[i]].deadline = 0
      BY <1>1, <3>4, <3>5, StillSorted
    <3>7. ASSUME useTimer, r # <<>>, xfer'[r[1]].deadline # 0, ~xfer'[r[1]].handled
          PROVE  timer' # 0 /\ timer' =< xfer'[r[1]].deadline
      <4>1. 1 \in 1..Len(r)
        BY <1>2, <3>7
      <4>2. flying[1] # h /\ r[1] = flying[1] /\ flying # <<>>
        <5>1. flying # <<>>
          BY <3>5 DEF Listed, Contains
        <5> QED
          BY <3>6, <3>7, <4>1, <5>1
      <4>3. PICK y \in Threads : y = r[1]
        BY <1>2, <4>1
      <4>4. Listed(y) /\ Listed(y)'
        <5>1. 1 \in 1..Len(flying)
          BY <1>2, <4>2
        <5> QED
          BY <1>1, <4>1, <4>2, <4>3, <5>1 DEF Listed, Contains
      <4>5. xfer'[y].deadline = xfer[y].deadline /\ ~xfer[y].handled
        BY <3>7, <4>3, <4>4, ListedKept
      <4> QED
        BY <2>1, <3>7, <4>2, <4>3, <4>5 DEF TimerInv, Pending
    <3> QED
      BY <3>6, <3>7
  <2> QED
    BY <2>2, <2>3
<1>8. ASSUME NEW t \in Threads, HandleTimeout(t) PROVE Sorted /\ Armed
  <2>1. flying' = flying /\ r = flying
    BY <1>1, <1>8 DEF HandleTimeout
  <2>2. CASE timer' = timer
    BY <1>3, <2>1, <2>2
  <2>3. CASE timer' # timer
    <3>1. timer' = NextTimeout(flying) /\ xfer' = xfer
      BY <1>0, <1>8, <2>3, HandleTimeoutCases DEF TimeOut, TimeoutsDone, DataTypes
    <3>2. ASSUME r # <<>>, xfer'[r[1]].deadline # 0, ~xfer'[r[1]].handled
          PROVE  timer' # 0 /\ timer' =< xfer'[r[1]].deadline
      <4>1. flying # <<>> /\ Pending(flying[1])
        BY <2>1, <3>1, <3>2 DEF Pending
      <4>2. timer' = xfer[flying[1]].deadline
        BY <1>2, <3>1, <4>1, NextTimeoutOfFirst
      <4>3. xfer[flying[1]].deadline \in Nat
        BY <1>0, <1>2, <4>1 DEF DataTypes, TransferType
      <4> QED
        BY <2>1, <3>1, <3>2, <4>2, <4>3
    <3> QED
      BY <1>3, <2>1, <3>2
  <2> QED
    BY <2>2, <2>3
<1>9. Sorted /\ Armed
  <2>1. CASE UNCHANGED flying
    <3>1. r = flying
      BY <1>1, <2>1
    <3>2. CASE timer' = timer
      BY <1>3, <3>1, <3>2
    <3>3. CASE timer' # timer
      <4>1. ~Tick
        BY <3>3 DEF Tick
      <4> QED
        BY <3>3, <4>1, <1>5, <1>6, <1>8, TimeFrame
    <3> QED
      BY <3>2, <3>3
  <2> QED
    BY <2>1, <1>5, <1>6, <1>7, FlyingFrame
<1>10. ASSUME NEW c \in Closers PROVE on'[c] \in Victims \cup {NoOne}
  <2>1. CASE on'[c] = on[c]
    BY <2>1 DEF TimerInv
  <2>2. CASE on'[c] # on[c]
    <3>1. pc[c] \in CloserLabels
      BY <1>0 DEF CloseInv
    <3>2. UnlockEvents(c) \/ ChooseVictim(c)
      BY <1>0, <2>2, <3>1, OnKept DEF Call, HandleTimeout, MarkTimedOut, NextFd, Reap,
         Callback, CloserLabels, Closing
    <3>3. ~UnlockEvents(c)
      BY <1>0, <2>2 DEF UnlockEvents, ControlTypes
    <3> QED
      BY <1>0, <2>2, <3>2, <3>3 DEF ChooseVictim, ControlTypes
  <2> QED
    BY <2>1, <2>2
<1> QED
  BY <1>0, <1>1, <1>9, <1>10 DEF TimerInv, Pending

-----------------------------------------------------------------------------
\* The invariants hold in every state; the one about the timer on the instances
\* it is about.
TimeoutInv == EventsInv /\ FaultInv /\ OverInv

LEMMA InitTimeouts == Init => TimeoutInv /\ TimerInv
<1> SUFFICES ASSUME Init PROVE TimeoutInv /\ TimerInv
  OBVIOUS
<1>1. EventsInv
  BY InitInv
<1>2. FaultInv /\ OverInv
  BY DEF Init, FaultInv, OverInv, Freed, FreshTransfer
<1>3. TimerInv
  BY DEF Init, TimerInv
<1> QED
  BY <1>1, <1>2, <1>3 DEF TimeoutInv

LEMMA StepTimeouts == TimeoutInv /\ [Next]_vars => TimeoutInv'
<1> SUFFICES ASSUME TimeoutInv, [Next]_vars PROVE TimeoutInv'
  OBVIOUS
<1>1. EventsInv' /\ FaultInv'
  BY StepInv, FaultInvStep DEF TimeoutInv
<1>2. TouchedIsThread
  BY DEF TimeoutInv, EventsInv, FdInv, Reports, DataTypes, InBackend, TouchedIsThread
<1>3. OverInv'
  BY <1>2, OverInvStep DEF TimeoutInv, EventsInv
<1> QED
  BY <1>1, <1>3 DEF TimeoutInv

LEMMA TimerCovers ==
  ASSUME EventsInv, TimerInv
  PROVE  TimerCoversTimeouts
<1> SUFFICES ASSUME useTimer, NextTimeout(flying) # 0
             PROVE  \/ timer # 0 /\ timer =< NextTimeout(flying)
                    \/ xfer[Head(flying)].handled
  BY DEF TimerCoversTimeouts
<1>1. flying \in Seq(Threads)
  BY DEF EventsInv, DataTypes
<1>2. PICK i \in 1..Len(flying) : Pending(flying[i])
  BY <1>1, NextTimeoutPending
<1>3. flying # <<>> /\ 1 \in 1..Len(flying) /\ Head(flying) = flying[1]
  BY <1>1, <1>2
<1>4. xfer[flying[1]].deadline # 0
  <2>1. CASE i = 1
    BY <1>2, <2>1 DEF Pending
  <2>2. CASE i # 1
    BY <1>2, <1>3, <2>2 DEF Pending, TimerInv
  <2> QED
    BY <2>1, <2>2
<1>5. CASE ~xfer[flying[1]].handled
  <2>1. Pending(flying[1])
    BY <1>4, <1>5 DEF Pending
  <2>2. NextTimeout(flying) = xfer[flying[1]].deadline
    BY <1>1, <1>3, <2>1, NextTimeoutOfFirst
  <2> QED
    BY <1>3, <2>1, <2>2 DEF TimerInv
<1> QED
  BY <1>3, <1>5

LEMMA AlwaysTimeouts == Spec => []TimeoutInv
  BY InitTimeouts, StepTimeouts, PTL DEF Spec

\* However many threads share the event handling, and whatever is closed or fails:
\* a call that ends with LIBUSB_ERROR_TIMEOUT has a timeout and its time was over,
\* and one that ends with LIBUSB_ERROR_IO had something fail.
THEOREM ReasonsAreTrue == Spec => []TimeoutsAreTrue
<1>1. TimeoutInv => TimeoutsAreTrue
  BY DEF TimeoutInv, FaultInv, OverInv, TimeOver, TimeoutsAreTrue
<1> QED
  BY <1>1, AlwaysTimeouts, PTL

\* As long as only handles without a timeout are closed under their thread, the timer
\* is armed for the earliest timeout too, for every number of threads and timeouts.
THEOREM TimerIsArmed == ClosedUntimed => (Spec => []TimeoutsAreKept)
<1> SUFFICES ASSUME ClosedUntimed PROVE Spec => []TimeoutsAreKept
  OBVIOUS
<1>1. TimeoutInv /\ TimerInv /\ [Next]_vars => TimerInv'
  BY TimerInvStep DEF TimeoutInv
<1>2. TimeoutInv /\ TimerInv => TimerCoversTimeouts
  BY TimerCovers DEF TimeoutInv
<1>3. TimeoutInv /\ TimerInv => TimeoutsAreKept
  BY <1>2 DEF TimeoutsAreKept, TimeoutInv, FaultInv, OverInv, TimeOver, TimeoutsAreTrue
<1> QED
  BY <1>1, <1>3, InitTimeouts, AlwaysTimeouts, PTL DEF Spec
=============================================================================
