------------------------- MODULE UsbDevicesProofs -------------------------
(***************************************************************************)
(* Proofs about UsbDevices, for any number of devices, hubs, application   *)
(* threads, callbacks and changes of the bus, and all scripts of calls:    *)
(* every reference of a device has an owner and is dropped once, nothing   *)
(* freed is used, no session id is listed twice, and the list is what is   *)
(* plugged in whenever the socket is empty and nobody is at work.          *)
(*                                                                         *)
(* The inductive invariant is SafeInv.  Its core is Refs, the count of a   *)
(* device is the number of its holders; the other conjuncts say what each  *)
(* step relies on: what linux_hotplug_lock was taken for, what a thread    *)
(* aims at, that a device is said to have left once, and that a message    *)
(* without a reference is followed by one that has a reference.  BusInv    *)
(* relates the list to the bus: it counts the events in the socket, and    *)
(* what is under way, as already told.                                     *)
(*                                                                         *)
(* StableStart (nothing is unplugged before libusb_init_context returns)   *)
(* is a hypothesis of the theorems: usbi_hotplug_notification drops the    *)
(* messages of that time, and the reference of a device that left then     *)
(* with them (src/src/libusb/hotplug.c:261).                               *)
(***************************************************************************)
EXTENDS UsbDevices, FiniteSetTheorems, SequenceTheorems, TLAPS

-----------------------------------------------------------------------------
\* --- the inductive invariant

\* Types: what a variable may hold.
Pointers == Devs \cup {NoDev}
Device == [id : Ids \cup {NoId}, parent : Pointers, ref : Nat, attached : BOOLEAN,
           wrapped : BOOLEAN, state : {"unused", "alive", "freed"}]
MessageType == [event : {"ARRIVED", "LEFT"}, dev : Devs]
EventType == [act : {"add", "remove"}, id : Ids]
Steps == {"idle", "next", "enumerate", "parent", "connect", "arrived", "disconnect", "left", "unref"}
Owners == Apps \cup {Monitor, Main, Events, NoOne}
Labels == {"idle", "poll", "walk", "callback", "enumerate", "opening", "early", "failed"}

BusType == plugged \subseteq Ids /\ queue \in Seq(EventType) /\ changes \in 0..Changes
DevType == dev \in [Devs -> Device]
ListType == listed \in Seq(Devs) /\ leaving \in Seq(Devs) /\ IsInjective(listed) /\ IsInjective(leaving)
MsgType == msgs \in Seq(MessageType) /\ ready \in BOOLEAN
HpType == hp \in [owner : Owners, step : Steps, id : Ids \cup {NoId}, todo : SUBSET Ids,
                  new : Pointers, child : Pointers]
AppType == /\ pc \in [Apps -> Labels] /\ mine \in [Apps -> SUBSET Devs] /\ open \in [Apps -> SUBSET Devs]
           /\ target \in [Apps -> Pointers \cup Cbs]
CbType == /\ cbs \in Seq(Cbs) /\ cb \in [Cbs -> {"unused", "armed", "marked", "freed"}] /\ swept \in BOOLEAN
EvType == /\ ev \in [step : {"idle", "message", "callbacks", "call", "sweep"}, msgs : Seq(MessageType),
                     rest : Seq(Cbs)]
          /\ lost \subseteq Apps \X Devs
PhaseType == phase \in {"init", "scan", "scanned", "ready", "messages", "devices", "end"}

Types == BusType /\ DevType /\ ListType /\ MsgType /\ HpType /\ AppType /\ CbType /\ EvType /\ PhaseType

\* What each phase of the context rules out.
Exits == {"messages", "devices", "end"}
PhaseInv ==
  /\ ready <=> phase \in {"ready"} \cup Exits
  /\ phase # "ready" => ev.step = "idle" /\ \A t \in Apps : pc[t] = "idle"
  /\ phase \in Exits => hp.owner = NoOne
  /\ hp.owner = Main => phase = "scan"
  /\ phase \in {"devices", "end"} => msgs = <<>>
  /\ ~ready => \A k \in DOMAIN queue : queue[k].act = "add"
  /\ ~ready => hp.step \notin {"disconnect", "left", "unref"}

\* The hub of a device is the device with the id of its hub, and was once in use.
Families ==
  \A c \in Devs :
    /\ dev[c].state = "unused" => dev[c].parent = NoDev
    /\ dev[c].state # "unused" => dev[c].id \in Ids
    /\ dev[c].wrapped => dev[c].parent = NoDev
    /\ LET p == dev[c].parent
       IN p # NoDev => /\ Parent[dev[c].id] \in Ids /\ dev[p].id = Parent[dev[c].id]
                       /\ dev[p].state # "unused"

\* The count of a device is the number of its holders.
Refs == \A d \in Devs : dev[d].ref = Holders(d) /\ (Alive(d) <=> dev[d].ref > 0)

\* What is under way inside linux_hotplug_lock: the device that is connected or
\* disconnected, the child that waits for its hub.
HpInv ==
  /\ hp.owner = NoOne <=> hp.step = "idle"
  /\ hp.step = "idle" => hp = Idle
  /\ hp.step \in {"idle", "next", "enumerate", "disconnect", "parent"} => hp.new = NoDev
  /\ hp.step \in {"connect", "arrived", "left", "unref"} => hp.new \in Devs /\ ~dev[hp.new].wrapped
  /\ hp.step \notin {"parent", "connect", "arrived"} => hp.child = NoDev
  /\ hp.step = "parent" => hp.child # NoDev /\ Parent[hp.id] \in Ids /\ ListedAs(Parent[hp.id]) = NoDev
  /\ hp.step \in {"enumerate", "disconnect"} => hp.id \in Ids
  /\ hp.step = "connect" => ~dev[hp.new].attached /\ hp.new \notin Range(listed) /\ NewId(dev[hp.new].id)
  /\ hp.step = "arrived" => hp.new \in Range(listed)
  /\ hp.step \in {"left", "unref"} => hp.new \notin Range(listed)
  /\ hp.child # NoDev => /\ dev[hp.child].id = hp.id /\ hp.id \in Ids /\ NewId(hp.id) /\ hp.child \notin Range(listed)
                         /\ ~dev[hp.child].attached /\ ~dev[hp.child].wrapped
                         /\ dev[hp.child].parent = NoDev
                         /\ hp.new # NoDev => dev[hp.new].id = Parent[hp.id] /\ Parent[hp.id] \in Ids

\* What a thread refers to beside its list and its handles.
TargetInv ==
  \A t \in Apps :
    /\ pc[t] \in {"opening", "early", "failed"} => target[t] \in Devs /\ target[t] \notin open[t]
    /\ pc[t] \in {"callback", "enumerate"} => target[t] \in Cbs
    /\ pc[t] = "idle" => target[t] = NoDev
    /\ pc[t] \in {"poll", "walk"} => target[t] \in Cbs \cup {NoDev}
    /\ pc[t] \in {"poll", "walk"} => mine[t] = {}

\* The list names an id once, and attached is what it says.
ListInv ==
  /\ \A d, e \in Range(listed) : dev[d].id = dev[e].id => d = e
  /\ \A d \in Range(listed) : ~dev[d].wrapped
  /\ phase \notin {"devices", "end"} => \A d \in Devs : ~dev[d].wrapped => (dev[d].attached <=> d \in Range(listed))

\* A device is said to have left once, and only when it is not listed any more.
Said(d) == Leavings(msgs, d) + Leavings(ev.msgs, d)
SaidInv ==
  \A d \in Devs :
    /\ Said(d) <= 1
    /\ d \in Range(Kept) => Said(d) = 0
    /\ hp.child = d => Said(d) = 0
    /\ hp.new = d /\ hp.step \in {"connect", "left"} => Said(d) = 0

\* A message that a device arrived holds no reference: the device is listed, is on
\* its way out, or a later message says that it left.
Standing(d) == d \in Range(listed) \/ (hp.step = "left" /\ hp.new = d)
ArrivedInv ==
  /\ \A k \in DOMAIN msgs : msgs[k].event = "ARRIVED" =>
       \/ Standing(msgs[k].dev)
       \/ \E j \in DOMAIN msgs : j > k /\ msgs[j] = Message("LEFT", msgs[k].dev)
  /\ \A k \in DOMAIN ev.msgs : ev.msgs[k].event = "ARRIVED" =>
       \/ Standing(ev.msgs[k].dev)
       \/ \E j \in DOMAIN ev.msgs : j > k /\ ev.msgs[j] = Message("LEFT", ev.msgs[k].dev)
       \/ \E j \in DOMAIN msgs : msgs[j] = Message("LEFT", ev.msgs[k].dev)

\* The callbacks: those of the list are armed or marked, and the walk of the event
\* thread has some of the list before it.
CbInv ==
  /\ IsInjective(cbs)
  /\ \A c \in Cbs : c \in Range(cbs) <=> cb[c] \in {"armed", "marked"}
  /\ Range(ev.rest) \subseteq Range(cbs) /\ IsInjective(ev.rest)
  /\ ev.step = "call" => ev.rest # <<>>
  /\ ev.step \notin {"callbacks", "call"} => ev.rest = <<>>
  /\ ev.step \in {"callbacks", "call"} => ev.msgs # <<>>
  /\ ev.step \in {"idle", "sweep"} => ev.msgs = <<>>
  /\ \A t \in Apps : target[t] \in Cbs => cb[target[t]] = "armed"

SafeInv == /\ Types /\ PhaseInv /\ Families /\ Refs /\ HpInv /\ TargetInv /\ ListInv /\ SaidInv /\ ArrivedInv /\ CbInv

-----------------------------------------------------------------------------
\* --- sequences and counts

LEMMA LeastIndex ==
  ASSUME NEW I \in SUBSET Nat, I # {}
  PROVE  Min(I) \in I /\ \A i \in I : Min(I) =< i
<1> DEFINE Less == {p \in Nat \X Nat : p[1] < p[2]}
<1>1. IsWellFoundedOn(Less, Nat)
  BY NatLessThanWellFounded, Zenon DEF OpToRel
<1>2. PICK m \in I : \A i \in I : <<i, m>> \notin Less
  <2> HIDE DEF Less
  <2> QED
    BY <1>1, WFMin
<1>3. ASSUME NEW i \in I PROVE m =< i
  <2>1. CASE i < m
    <3>1. <<i, m>> \in Less
      BY <2>1
    <3> QED
      BY <1>2, <3>1
  <2> QED
    BY <2>1
<1> QED
  BY <1>3 DEF Min

\* What RemoveAt leaves, element by element.
LEMMA RemoveElements ==
  ASSUME NEW S, NEW s \in Seq(S), NEW i \in 1..Len(s)
  PROVE  /\ RemoveAt(s, i) \in Seq(S)
         /\ Len(RemoveAt(s, i)) = Len(s) - 1
         /\ \A j \in 1..Len(s) - 1 : RemoveAt(s, i)[j] = IF j < i THEN s[j] ELSE s[j + 1]
<1> DEFINE a == SubSeq(s, 1, i - 1)
           b == SubSeq(s, i + 1, Len(s))
<1>1. a \in Seq(S) /\ Len(a) = i - 1 /\ \A j \in 1..i - 1 : a[j] = s[j]
  OBVIOUS
<1>2. b \in Seq(S) /\ Len(b) = Len(s) - i /\ \A j \in 1..Len(s) - i : b[j] = s[i + j]
  OBVIOUS
<1> HIDE DEF a, b
<1>3. a \o b \in Seq(S) /\ Len(a \o b) = Len(s) - 1 /\ Len(s) \in Nat
  <2>1. Len(s) \in Nat
    OBVIOUS
  <2>2. a \o b \in Seq(S) /\ Len(a \o b) = Len(a) + Len(b)
    BY <1>1, <1>2, ConcatProperties
  <2> QED
    BY <2>1, <2>2, <1>1, <1>2
<1>4. RemoveAt(s, i) = a \o b
  BY DEF RemoveAt, a, b
<1>5. ASSUME NEW j \in 1..Len(s) - 1 PROVE (a \o b)[j] = IF j < i THEN s[j] ELSE s[j + 1]
  <2>1. CASE j < i
    BY <2>1, <1>1, <1>2, ConcatProperties
  <2>2. CASE j >= i
    <3>1. (a \o b)[j] = b[j - Len(a)]
      BY <2>2, <1>1, <1>2, ConcatProperties
    <3>2. j - Len(a) = j - i + 1 /\ j - i + 1 \in 1..Len(s) - i
      BY <2>2, <1>1
    <3>3. i + (j - i + 1) = j + 1
      OBVIOUS
    <3> QED
      BY <2>2, <3>1, <3>2, <3>3, <1>2
  <2> QED
    BY <2>1, <2>2, <1>3
<1> QED
  BY <1>3, <1>4, <1>5

LEMMA RangeIs ==
  ASSUME NEW S, NEW s \in Seq(S)
  PROVE  /\ \A x : x \in Range(s) <=> \E i \in 1..Len(s) : s[i] = x
         /\ Range(s) \subseteq S
BY DEF Range

\* list_del: the others stay, in a list without repetition.
LEMMA Unlisted ==
  ASSUME NEW S, NEW s \in Seq(S), IsInjective(s), NEW x
  PROVE  /\ RemoveFirst(s, x) \in Seq(S)
         /\ IsInjective(RemoveFirst(s, x))
         /\ \A y : y \in Range(RemoveFirst(s, x)) <=> y \in Range(s) /\ y # x
<1>0. Len(s) \in Nat /\ DOMAIN s = 1..Len(s)
  OBVIOUS
<1>1. CASE \E i \in 1..Len(s) : s[i] = x
  <2> DEFINE i == SelectInSeq(s, LAMBDA v : v = x)
             r == RemoveFirst(s, x)
  <2>1. i \in 1..Len(s) /\ s[i] = x
    <3> DEFINE I == {k \in 1..Len(s) : s[k] = x}
    <3>1. I \in SUBSET Nat /\ I # {}
      BY <1>1
    <3>2. i = Min(I)
      BY <3>1 DEF SelectInSeq
    <3> HIDE DEF i
    <3>3. Min(I) \in I
      BY <3>1, LeastIndex
    <3> QED
      BY <3>2, <3>3
  <2>2. r = RemoveAt(s, i)
    BY <1>1 DEF RemoveFirst
  <2> HIDE DEF i, r
  <2>3. /\ r \in Seq(S) /\ Len(r) = Len(s) - 1
        /\ \A j \in 1..Len(s) - 1 : r[j] = IF j < i THEN s[j] ELSE s[j + 1]
    BY <2>1, <2>2, RemoveElements
  <2>4. \A j, k \in 1..Len(s) : s[j] = s[k] => j = k
    BY DEF IsInjective
  <2>5. IsInjective(r)
    <3>1. ASSUME NEW j \in 1..Len(s) - 1, NEW k \in 1..Len(s) - 1, r[j] = r[k] PROVE j = k
      <4> DEFINE jj == IF j < i THEN j ELSE j + 1
                 kk == IF k < i THEN k ELSE k + 1
      <4>1. jj \in 1..Len(s) /\ kk \in 1..Len(s) /\ r[j] = s[jj] /\ r[k] = s[kk]
        BY <2>1, <2>3
      <4>2. jj = kk
        BY <4>1, <3>1, <2>4
      <4> QED
        BY <4>2, <2>1
    <3> QED
      BY <3>1, <2>3 DEF IsInjective
  <2>6. ASSUME NEW y, y \in Range(r) PROVE y \in Range(s) /\ y # x
    <3>1. PICK j \in 1..Len(s) - 1 : r[j] = y
      BY <2>3, <2>6 DEF Range
    <3>2. PICK k \in 1..Len(s) : k # i /\ s[k] = y
      BY <2>1, <2>3, <3>1
    <3> QED
      BY <2>1, <2>4, <3>2 DEF Range
  <2>7. ASSUME NEW y, y \in Range(s), y # x PROVE y \in Range(r)
    <3>1. PICK j \in 1..Len(s) : s[j] = y /\ j # i
      BY <2>1, <2>7 DEF Range
    <3>2. CASE j < i
      BY <3>1, <3>2, <2>1, <2>3 DEF Range
    <3>3. CASE j > i
      <4>1. j - 1 \in 1..Len(r) /\ ~(j - 1 < i) /\ (j - 1) + 1 = j
        BY <3>3, <2>1, <2>3
      <4>2. r[j - 1] = s[j]
        BY <4>1, <2>3
      <4> QED
        BY <3>1, <4>1, <4>2, <2>3 DEF Range
    <3> QED
      BY <3>1, <3>2, <3>3, <2>1
  <2> QED
    BY <2>3, <2>5, <2>6, <2>7 DEF r
<1>2. CASE ~\E i \in 1..Len(s) : s[i] = x
  BY <1>0, <1>2 DEF RemoveFirst, Range
<1> QED
  BY <1>1, <1>2

\* list_add
LEMMA Prepended ==
  ASSUME NEW S, NEW s \in Seq(S), NEW x \in S
  PROVE  /\ <<x>> \o s \in Seq(S)
         /\ \A y : y \in Range(<<x>> \o s) <=> y = x \/ y \in Range(s)
         /\ IsInjective(s) /\ x \notin Range(s) => IsInjective(<<x>> \o s)
<1> DEFINE a == <<x>>
           r == a \o s
<1>1. a \in Seq(S) /\ Len(a) = 1 /\ a[1] = x /\ Len(s) \in Nat
  OBVIOUS
<1> HIDE DEF a
<1>2. r \in Seq(S) /\ Len(r) = 1 + Len(s) /\ \A i \in 1..1 + Len(s) : r[i] = IF i <= 1 THEN a[i] ELSE s[i - 1]
  BY SMTT(30), <1>1, ConcatProperties
<1> HIDE DEF r
<1>3. r[1] = x /\ \A i \in 1..Len(s) : r[i + 1] = s[i]
  <2>1. ASSUME NEW i \in 1..Len(s) PROVE r[i + 1] = s[i]
    <3>1. i + 1 \in 1..1 + Len(s) /\ ~(i + 1 <= 1) /\ (i + 1) - 1 = i
      BY <1>1
    <3> QED
      BY <3>1, <1>2
  <2> QED
    BY <2>1, <1>1, <1>2
<1>4. ASSUME NEW i \in 1..Len(r), i # 1 PROVE i - 1 \in 1..Len(s) /\ r[i] = s[i - 1]
  BY <1>1, <1>2, <1>4
<1>5. \A y : y \in Range(r) <=> y = x \/ y \in Range(s)
  <2>1. ASSUME NEW y, y \in Range(r) PROVE y = x \/ y \in Range(s)
    <3>1. PICK i \in 1..Len(r) : r[i] = y
      BY <2>1, <1>2 DEF Range
    <3> QED
      BY <3>1, <1>3, <1>4 DEF Range
  <2>2. ASSUME NEW y, y \in Range(s) PROVE y \in Range(r)
    <3>1. PICK i \in 1..Len(s) : s[i] = y
      BY <2>2 DEF Range
    <3>2. i + 1 \in 1..Len(r) /\ r[i + 1] = y
      BY <3>1, <1>1, <1>2, <1>3
    <3> QED
      BY <3>2, <1>2 DEF Range
  <2>3. x \in Range(r)
    BY <1>1, <1>2, <1>3 DEF Range
  <2> QED
    BY <2>1, <2>2, <2>3
<1>6. ASSUME IsInjective(s), x \notin Range(s) PROVE IsInjective(r)
  <2>1. ASSUME NEW i \in 1..Len(r), NEW j \in 1..Len(r), r[i] = r[j] PROVE i = j
    <3>1. CASE i = 1 /\ j # 1
      <4>1. s[j - 1] = x /\ j - 1 \in 1..Len(s)
        BY <3>1, <2>1, <1>3, <1>4
      <4> QED
        BY <4>1, <1>6 DEF Range
    <3>2. CASE j = 1 /\ i # 1
      <4>1. s[i - 1] = x /\ i - 1 \in 1..Len(s)
        BY <3>2, <2>1, <1>3, <1>4
      <4> QED
        BY <4>1, <1>6 DEF Range
    <3>3. CASE i # 1 /\ j # 1
      <4>1. s[i - 1] = s[j - 1] /\ i - 1 \in 1..Len(s) /\ j - 1 \in 1..Len(s)
        BY <3>3, <2>1, <1>4
      <4>2. i - 1 = j - 1
        BY <4>1, <1>6 DEF IsInjective
      <4> QED
        BY <4>2
    <3> QED
      BY <3>1, <3>2, <3>3
  <2> QED
    BY <2>1, <1>2 DEF IsInjective
<1> QED
  BY <1>2, <1>5, <1>6 DEF a, r

\* The first one is taken.
LEMMA Taken ==
  ASSUME NEW S, NEW s \in Seq(S), s # <<>>
  PROVE  /\ Head(s) \in S /\ Tail(s) \in Seq(S) /\ Len(Tail(s)) = Len(s) - 1 /\ Len(s) \in Nat \ {0}
         /\ Head(s) = s[1] /\ \A i \in 1..Len(s) - 1 : Tail(s)[i] = s[i + 1]
         /\ \A y : y \in Range(s) <=> y = Head(s) \/ y \in Range(Tail(s))
         /\ IsInjective(s) => IsInjective(Tail(s)) /\ Head(s) \notin Range(Tail(s))
<1> DEFINE r == Tail(s)
<1>1. /\ Head(s) \in S /\ r \in Seq(S) /\ Len(r) = Len(s) - 1 /\ Len(s) \in Nat \ {0}
      /\ Head(s) = s[1] /\ \A i \in 1..Len(s) - 1 : r[i] = s[i + 1]
  BY HeadTailProperties, EmptySeq
<1> HIDE DEF r
<1>2. ASSUME NEW i \in 1..Len(s), i # 1 PROVE i - 1 \in 1..Len(r) /\ r[i - 1] = s[i]
  <2>1. i - 1 \in 1..Len(s) - 1 /\ (i - 1) + 1 = i
    BY <1>1, <1>2
  <2> QED
    BY <2>1, <1>1
<1>3. \A y : y \in Range(s) <=> y = Head(s) \/ y \in Range(r)
  <2>1. ASSUME NEW y, y \in Range(s) PROVE y = Head(s) \/ y \in Range(r)
    <3>1. PICK i \in 1..Len(s) : s[i] = y
      BY <2>1 DEF Range
    <3> QED
      BY <3>1, <1>1, <1>2 DEF Range
  <2>2. ASSUME NEW y, y \in Range(r) PROVE y \in Range(s)
    <3>1. PICK i \in 1..Len(r) : r[i] = y
      BY <2>2, <1>1 DEF Range
    <3>2. i + 1 \in 1..Len(s) /\ s[i + 1] = y
      BY <3>1, <1>1
    <3> QED
      BY <3>2 DEF Range
  <2>3. Head(s) \in Range(s)
    BY <1>1 DEF Range
  <2> QED
    BY <2>1, <2>2, <2>3
<1>4. ASSUME IsInjective(s) PROVE IsInjective(r) /\ Head(s) \notin Range(r)
  <2>1. \A i, j \in 1..Len(s) : s[i] = s[j] => i = j
    BY <1>4 DEF IsInjective
  <2>2. ASSUME NEW i \in 1..Len(r), NEW j \in 1..Len(r), r[i] = r[j] PROVE i = j
    <3>1. i + 1 \in 1..Len(s) /\ j + 1 \in 1..Len(s) /\ s[i + 1] = s[j + 1]
      BY <2>2, <1>1
    <3>2. i + 1 = j + 1
      BY <3>1, <2>1
    <3> QED
      BY <3>2
  <2>3. ASSUME NEW i \in 1..Len(r), r[i] = Head(s) PROVE FALSE
    <3>1. i + 1 \in 1..Len(s) /\ s[i + 1] = s[1] /\ 1 \in 1..Len(s)
      BY <2>3, <1>1
    <3>2. i + 1 = 1
      BY <3>1, <2>1
    <3> QED
      BY <3>2
  <2> QED
    BY <2>2, <2>3, <1>1 DEF IsInjective, Range
<1> QED
  BY <1>1, <1>3, <1>4 DEF r

\* --- messages that a device left

LEMMA LeavingsNat ==
  ASSUME NEW q \in Seq(MessageType), NEW d
  PROVE  Leavings(q, d) \in Nat /\ (Leavings(q, d) > 0 <=> \E k \in 1..Len(q) : q[k] = Message("LEFT", d))
<1> DEFINE I == {k \in DOMAIN q : q[k] = Message("LEFT", d)}
<1>1. IsFiniteSet(1..Len(q)) /\ I \in SUBSET (1..Len(q)) /\ DOMAIN q = 1..Len(q)
  BY FS_Interval
<1>2. IsFiniteSet(I)
  BY <1>1, FS_Subset
<1>3. Cardinality(I) \in Nat /\ (Cardinality(I) = 0 <=> I = {})
  BY <1>2, FS_CardinalityType, FS_EmptySet
<1> QED
  BY <1>1, <1>3 DEF Leavings

LEMMA LeavingsEmpty ==
  ASSUME NEW d
  PROVE  Leavings(<<>>, d) = 0
<1>1. {k \in DOMAIN <<>> : <<>>[k] = Message("LEFT", d)} = {}
  OBVIOUS
<1> QED
  BY <1>1, FS_EmptySet DEF Leavings

LEMMA LeavingsAppend ==
  ASSUME NEW q \in Seq(MessageType), NEW m \in MessageType, NEW d
  PROVE  Leavings(Append(q, m), d) = Leavings(q, d) + (IF m = Message("LEFT", d) THEN 1 ELSE 0)
<1> DEFINE I == {k \in DOMAIN q : q[k] = Message("LEFT", d)}
           r == Append(q, m)
           J == {k \in DOMAIN r : r[k] = Message("LEFT", d)}
           n == Len(q) + 1
<1>1. Len(q) \in Nat /\ DOMAIN q = 1..Len(q) /\ r \in Seq(MessageType) /\ Len(r) = n
      /\ (\A i \in 1..Len(q) : r[i] = q[i]) /\ r[n] = m
  BY AppendProperties
<1>2. IsFiniteSet(I)
  <2>1. IsFiniteSet(1..Len(q)) /\ I \in SUBSET (1..Len(q))
    BY <1>1, FS_Interval
  <2> QED
    BY <2>1, FS_Subset
<1>3. n \notin I
  BY <1>1
<1>4. \A k : k \in J <=> k \in I \/ (k = n /\ m = Message("LEFT", d))
  <2> HIDE DEF r
  <2>1. DOMAIN r = 1..n /\ \A k : k \in 1..n <=> k \in 1..Len(q) \/ k = n
    BY <1>1
  <2> QED
    BY <2>1, <1>1
<1>7. Leavings(q, d) = Cardinality(I) /\ Leavings(r, d) = Cardinality(J)
  BY DEF Leavings
<1>5. CASE m = Message("LEFT", d)
  <2>1. J = I \cup {n}
    <3> HIDE DEF I, J, n
    <3> QED
      BY <1>4, <1>5
  <2> HIDE DEF I, J, n
  <2>2. Cardinality(J) = Cardinality(I) + 1
    BY <1>2, <1>3, <2>1, FS_AddElement
  <2> QED
    BY <2>2, <1>5, <1>7
<1>6. CASE m # Message("LEFT", d)
  <2>1. J = I
    <3> HIDE DEF I, J, n
    <3> QED
      BY <1>4, <1>6
  <2>2. Cardinality(I) \in Nat
    BY <1>2, FS_CardinalityType
  <2> HIDE DEF I, J, n
  <2> QED
    BY <2>1, <2>2, <1>6, <1>7
<1> QED
  BY <1>5, <1>6

\* One element of a list from behind the first one.
LEMMA ShiftedCount ==
  ASSUME NEW n \in Nat, NEW I \in SUBSET (1..n), NEW J \in SUBSET (1..n + 1),
         \A i \in 1..n : i \in I <=> i + 1 \in J
  PROVE  Cardinality(J) = Cardinality(I) + (IF 1 \in J THEN 1 ELSE 0)
<1> DEFINE K == J \ {1}
           f == [i \in I |-> i + 1]
<1>1. IsFiniteSet(I) /\ IsFiniteSet(J) /\ IsFiniteSet(K)
  <2>1. IsFiniteSet(1..n) /\ IsFiniteSet(1..n + 1)
    BY FS_Interval
  <2> QED
    BY <2>1, FS_Subset
<1>2. f \in Bijection(I, K)
  <2>1. f \in [I -> K]
    OBVIOUS
  <2>2. \A x, y \in I : f[x] = f[y] => x = y
    OBVIOUS
  <2>3. \A y \in K : \E x \in I : f[x] = y
    <3>1. ASSUME NEW y \in K PROVE \E x \in I : f[x] = y
      <4>1. y - 1 \in 1..n /\ (y - 1) + 1 = y
        OBVIOUS
      <4>2. y - 1 \in I
        BY <4>1
      <4> QED
        BY <4>1, <4>2
    <3> QED
      BY <3>1
  <2> QED
    BY <2>1, <2>2, <2>3 DEF Bijection, Injection, Surjection, IsInjective
<1>3. Cardinality(K) = Cardinality(I)
  BY <1>1, <1>2, FS_Bijection DEF ExistsBijection
<1>4. CASE 1 \in J
  <2>1. Cardinality(K) = Cardinality(J) - 1
    BY <1>1, <1>4, FS_RemoveElement
  <2>2. Cardinality(J) \in Nat
    BY <1>1, FS_CardinalityType
  <2> QED
    BY <2>1, <2>2, <1>3, <1>4
<1>5. CASE 1 \notin J
  <2>1. K = J
    BY <1>5
  <2>2. Cardinality(J) \in Nat
    BY <1>1, FS_CardinalityType
  <2> QED
    BY <2>1, <2>2, <1>3, <1>5
<1> QED
  BY <1>4, <1>5

LEMMA LeavingsTail ==
  ASSUME NEW q \in Seq(MessageType), q # <<>>, NEW d
  PROVE  Leavings(q, d) = Leavings(Tail(q), d) + (IF Head(q) = Message("LEFT", d) THEN 1 ELSE 0)
<1> DEFINE r == Tail(q)
           n == Len(q) - 1
           I == {k \in DOMAIN r : r[k] = Message("LEFT", d)}
           J == {k \in DOMAIN q : q[k] = Message("LEFT", d)}
<1>1. /\ r \in Seq(MessageType) /\ Len(r) = n /\ n \in Nat /\ Head(q) = q[1]
      /\ \A i \in 1..n : r[i] = q[i + 1]
  BY Taken
<1>2. DOMAIN q = 1..n + 1 /\ DOMAIN r = 1..n /\ 1 \in 1..n + 1 /\ \A i \in 1..n : i + 1 \in 1..n + 1
  <2>1. DOMAIN q = 1..Len(q) /\ Len(q) \in Nat
    OBVIOUS
  <2>2. DOMAIN r = 1..Len(r)
    BY <1>1
  <2> QED
    BY <2>1, <2>2, <1>1
<1> HIDE DEF r, n
<1>3. I \in SUBSET (1..n) /\ J \in SUBSET (1..n + 1) /\ \A i \in 1..n : i \in I <=> i + 1 \in J
  BY <1>1, <1>2
<1>4. 1 \in J <=> Head(q) = Message("LEFT", d)
  BY <1>1, <1>2
<1> HIDE DEF I, J
<1>5. Cardinality(J) = Cardinality(I) + (IF 1 \in J THEN 1 ELSE 0)
  BY <1>1, <1>3, ShiftedCount
<1> QED
  BY <1>4, <1>5 DEF Leavings, I, J, r

\* --- threads that have a device

LEMMA HavingNat ==
  ASSUME Finite, NEW f, NEW d
  PROVE  Having(f, d) \in Nat /\ Having(f, d) <= Cardinality(Apps)
         /\ (Having(f, d) > 0 <=> \E t \in Apps : d \in f[t])
<1> DEFINE A == {t \in Apps : d \in f[t]}
<1>1. IsFiniteSet(Apps) /\ A \in SUBSET Apps
  BY DEF Finite
<1>2. IsFiniteSet(A) /\ Cardinality(A) <= Cardinality(Apps)
  BY <1>1, FS_Subset
<1>3. Cardinality(A) \in Nat /\ (Cardinality(A) = 0 <=> A = {})
  BY <1>2, FS_CardinalityType, FS_EmptySet
<1> QED
  BY <1>2, <1>3 DEF Having

LEMMA HavingUpdate ==
  ASSUME Finite, NEW f, NEW g, NEW t \in Apps, NEW d, \A u \in Apps : u # t => g[u] = f[u]
  PROVE  Having(g, d) + (IF d \in f[t] THEN 1 ELSE 0) = Having(f, d) + (IF d \in g[t] THEN 1 ELSE 0)
<1> DEFINE A == {u \in Apps : d \in f[u]}
           B == {u \in Apps : d \in g[u]}
<1>1. Having(f, d) = Cardinality(A) /\ Having(g, d) = Cardinality(B)
  BY DEF Having
<1>2. IsFiniteSet(A) /\ IsFiniteSet(B)
  <2>1. IsFiniteSet(Apps) /\ A \in SUBSET Apps /\ B \in SUBSET Apps
    BY DEF Finite
  <2> QED
    BY <2>1, FS_Subset
<1>3. \A u : u # t => (u \in B <=> u \in A)
  OBVIOUS
<1>4. (t \in A <=> d \in f[t]) /\ (t \in B <=> d \in g[t])
  OBVIOUS
<1> HIDE DEF A, B
<1>5. Cardinality(A) \in Nat /\ Cardinality(B) \in Nat
  BY <1>2, FS_CardinalityType
<1>6. CASE t \in A /\ t \in B
  <2>1. A = B
    BY <1>3, <1>4, <1>6
  <2> QED
    BY <2>1, <1>1, <1>4, <1>6
<1>7. CASE t \notin A /\ t \notin B
  <2>1. A = B
    BY <1>3, <1>4, <1>7
  <2> QED
    BY <2>1, <1>1, <1>4, <1>5, <1>7
<1>8. CASE t \in A /\ t \notin B
  <2>1. B = A \ {t}
    BY <1>3, <1>4, <1>8
  <2>2. Cardinality(B) = Cardinality(A) - 1
    BY <1>2, <1>8, <2>1, FS_RemoveElement
  <2> QED
    BY <2>2, <1>1, <1>4, <1>5, <1>8
<1>9. CASE t \notin A /\ t \in B
  <2>1. B = A \cup {t}
    BY <1>3, <1>4, <1>9
  <2>2. Cardinality(B) = Cardinality(A) + 1
    BY <1>2, <1>9, <2>1, FS_AddElement
  <2> QED
    BY <2>2, <1>1, <1>4, <1>5, <1>9
<1> QED
  BY <1>6, <1>7, <1>8, <1>9

LEMMA AimingNat ==
  ASSUME Finite, NEW d
  PROVE  Aiming(d) \in Nat /\ Aiming(d) <= Cardinality(Apps) /\ (Aiming(d) > 0 <=> \E t \in Apps : d = target[t])
<1> DEFINE A == {t \in Apps : target[t] = d}
<1>1. IsFiniteSet(Apps) /\ A \in SUBSET Apps
  BY DEF Finite
<1>2. IsFiniteSet(A) /\ Cardinality(A) <= Cardinality(Apps)
  BY <1>1, FS_Subset
<1>3. Cardinality(A) \in Nat /\ (Cardinality(A) = 0 <=> A = {})
  BY <1>2, FS_CardinalityType, FS_EmptySet
<1> QED
  BY <1>2, <1>3 DEF Aiming

LEMMA AimingUpdate ==
  ASSUME Finite, AppType, NEW t \in Apps, NEW x, target' = [target EXCEPT ![t] = x], NEW d
  PROVE  Aiming(d)' + (IF target[t] = d THEN 1 ELSE 0) = Aiming(d) + (IF x = d THEN 1 ELSE 0)
<1> DEFINE A == {u \in Apps : target[u] = d}
           B == {u \in Apps : target'[u] = d}
<1>1. Aiming(d) = Cardinality(A) /\ Aiming(d)' = Cardinality(B)
  BY DEF Aiming
<1>2. IsFiniteSet(A) /\ IsFiniteSet(B)
  <2>1. IsFiniteSet(Apps) /\ A \in SUBSET Apps /\ B \in SUBSET Apps
    BY DEF Finite
  <2> QED
    BY <2>1, FS_Subset
<1>3. \A u : u \in B <=> IF u = t THEN x = d ELSE u \in A
  BY DEF AppType
<1>4. (t \in A <=> target[t] = d) /\ (t \in B <=> x = d)
  BY DEF AppType
<1> HIDE DEF A, B
<1>5. Cardinality(A) \in Nat /\ Cardinality(B) \in Nat
  BY <1>2, FS_CardinalityType
<1>6. CASE t \in A /\ t \in B
  <2>1. A = B
    BY <1>3, <1>4, <1>6
  <2> QED
    BY <2>1, <1>1, <1>4, <1>6
<1>7. CASE t \notin A /\ t \notin B
  <2>1. A = B
    BY <1>3, <1>4, <1>7
  <2> QED
    BY <2>1, <1>1, <1>4, <1>5, <1>7
<1>8. CASE t \in A /\ t \notin B
  <2>1. B = A \ {t}
    BY <1>3, <1>4, <1>8
  <2>2. Cardinality(B) = Cardinality(A) - 1
    BY <1>2, <1>8, <2>1, FS_RemoveElement
  <2> QED
    BY <2>2, <1>1, <1>4, <1>5, <1>8
<1>9. CASE t \notin A /\ t \in B
  <2>1. B = A \cup {t}
    BY <1>3, <1>4, <1>9
  <2>2. Cardinality(B) = Cardinality(A) + 1
    BY <1>2, <1>9, <2>1, FS_AddElement
  <2> QED
    BY <2>2, <1>1, <1>4, <1>5, <1>9
<1> QED
  BY <1>6, <1>7, <1>8, <1>9

\* --- children, and what libusb_unref_device does

LEMMA ChildrenNat ==
  ASSUME Finite, NEW d
  PROVE  Children(d) \in Nat /\ Children(d) <= Cardinality(Devs)
         /\ (Children(d) > 0 <=> \E c \in Devs : Alive(c) /\ dev[c].parent = d)
<1> DEFINE A == {c \in Devs : Alive(c) /\ dev[c].parent = d}
<1>1. IsFiniteSet(Devs) /\ A \in SUBSET Devs
  BY DEF Finite
<1>2. IsFiniteSet(A) /\ Cardinality(A) <= Cardinality(Devs)
  BY <1>1, FS_Subset
<1>3. Cardinality(A) \in Nat /\ (Cardinality(A) = 0 <=> A = {})
  BY <1>2, FS_CardinalityType, FS_EmptySet
<1> QED
  BY <1>2, <1>3 DEF Children

IsChild(c, d) == Alive(c) /\ dev[c].parent = d

\* One child more, one less, or the same children.
LEMMA ChildrenUpdate ==
  ASSUME Finite, NEW x \in Devs, NEW d,
         \A c \in Devs : c # x => (IsChild(c, d)' <=> IsChild(c, d))
  PROVE  /\ Children(d)' + (IF IsChild(x, d) THEN 1 ELSE 0) = Children(d) + (IF IsChild(x, d)' THEN 1 ELSE 0)
         /\ Children(d)' \in Nat
<1> DEFINE A == {c \in Devs : Alive(c) /\ dev[c].parent = d}
           B == {c \in Devs : Alive(c)' /\ dev'[c].parent = d}
<1>1. Children(d) = Cardinality(A) /\ Children(d)' = Cardinality(B)
  BY DEF Children
<1>2. IsFiniteSet(A) /\ IsFiniteSet(B)
  <2>1. IsFiniteSet(Devs) /\ A \in SUBSET Devs /\ B \in SUBSET Devs
    BY DEF Finite
  <2> QED
    BY <2>1, FS_Subset
<1>3. \A c : c # x => (c \in B <=> c \in A)
  BY DEF IsChild
<1>4. (x \in A <=> IsChild(x, d)) /\ (x \in B <=> IsChild(x, d)')
  BY DEF IsChild
<1> HIDE DEF A, B
<1>5. Cardinality(A) \in Nat /\ Cardinality(B) \in Nat
  BY <1>2, FS_CardinalityType
<1>6. CASE x \in A /\ x \in B
  <2>1. A = B
    BY <1>3, <1>4, <1>6
  <2> QED
    BY <2>1, <1>1, <1>4, <1>5, <1>6
<1>7. CASE x \notin A /\ x \notin B
  <2>1. A = B
    BY <1>3, <1>4, <1>7
  <2> QED
    BY <2>1, <1>1, <1>4, <1>5, <1>7
<1>8. CASE x \in A /\ x \notin B
  <2>1. B = A \ {x}
    BY <1>3, <1>4, <1>8
  <2>2. Cardinality(B) = Cardinality(A) - 1
    BY <1>2, <1>8, <2>1, FS_RemoveElement
  <2> QED
    BY <2>2, <1>1, <1>4, <1>5, <1>8
<1>9. CASE x \notin A /\ x \in B
  <2>1. B = A \cup {x}
    BY <1>3, <1>4, <1>9
  <2>2. Cardinality(B) = Cardinality(A) + 1
    BY <1>2, <1>9, <2>1, FS_AddElement
  <2> QED
    BY <2>2, <1>1, <1>4, <1>5, <1>9
<1> QED
  BY <1>6, <1>7, <1>8, <1>9

LEMMA ChildrenSame ==
  ASSUME Finite, NEW d, \A c \in Devs : IsChild(c, d)' <=> IsChild(c, d)
  PROVE  Children(d)' = Children(d)
<1>1. {c \in Devs : Alive(c)' /\ dev'[c].parent = d} = {c \in Devs : Alive(c) /\ dev[c].parent = d}
  BY DEF IsChild
<1> QED
  BY <1>1 DEF Children

\* A device is counted by its children at least, and lives while it is counted.
Counted == \A d \in Devs : dev[d].ref >= Children(d) /\ (Alive(d) <=> dev[d].ref > 0)

\* The same device but for its count and its end.
SameButRef ==
  \A d \in Devs : /\ dev'[d].id = dev[d].id /\ dev'[d].parent = dev[d].parent
                  /\ dev'[d].attached = dev[d].attached /\ dev'[d].wrapped = dev[d].wrapped
                  /\ dev'[d].state = "unused" <=> dev[d].state = "unused"

\* What is counted beside the children.
Beside(d) == dev[d].ref - Children(d)

LEMMA NoGrandparents ==
  ASSUME Topology, Distinct, DevType, Families, NEW c \in Devs, dev[c].parent # NoDev
  PROVE  dev[c].parent \in Devs /\ dev[dev[c].parent].parent = NoDev /\ dev[c].parent # c
<1> DEFINE p == dev[c].parent
<1>1. p \in Devs
  BY DEF DevType, Device, Pointers
<1>2. Parent[dev[c].id] \in Ids /\ dev[p].id = Parent[dev[c].id]
  BY DEF Families
<1>3. dev[c].id \in Ids
  BY <1>1 DEF Families
<1>4. Parent[dev[p].id] = NoId /\ NoId \notin Ids
  BY <1>2, <1>3 DEF Topology, Distinct
<1>5. dev[p].parent = NoDev
  BY <1>1, <1>4 DEF Families
<1> QED
  BY <1>1, <1>5

LEMMA DropIs ==
  ASSUME NEW dv \in [Devs -> Device], NEW d \in Devs, dv[d].ref > 0
  PROVE  /\ Drop(dv, d) \in [Devs -> Device]
         /\ \A e \in Devs : e # d => Drop(dv, d)[e] = dv[e]
         /\ Drop(dv, d)[d].id = dv[d].id /\ Drop(dv, d)[d].parent = dv[d].parent
         /\ Drop(dv, d)[d].attached = dv[d].attached /\ Drop(dv, d)[d].wrapped = dv[d].wrapped
         /\ Drop(dv, d)[d].ref = dv[d].ref - 1
         /\ Drop(dv, d)[d].state = IF dv[d].ref = 1 THEN "freed" ELSE dv[d].state
<1> DEFINE n == [dv[d] EXCEPT !.ref = dv[d].ref - 1, !.state = IF dv[d].ref = 1 THEN "freed" ELSE dv[d].state]
<1>1. Drop(dv, d) = [dv EXCEPT ![d] = n]
  BY DEF Drop, Device
<1>2. n \in Device
  <2>1. dv[d] \in Device /\ dv[d].ref - 1 \in Nat
    BY DEF Device
  <2> QED
    BY <2>1 DEF Device
<1>3. /\ n.id = dv[d].id /\ n.parent = dv[d].parent /\ n.attached = dv[d].attached /\ n.wrapped = dv[d].wrapped
      /\ n.ref = dv[d].ref - 1 /\ n.state = IF dv[d].ref = 1 THEN "freed" ELSE dv[d].state
  BY DEF Device
<1> HIDE DEF n
<1> QED
  BY <1>1, <1>2, <1>3

LEMMA UnrefEffect ==
  ASSUME Finite, Topology, Distinct, DevType, Families, Counted,
         NEW x \in Devs, dev[x].ref > Children(x), dev' = Unref(dev, x)
  PROVE  /\ DevType' /\ SameButRef
         /\ \A d \in Devs : Beside(d)' = Beside(d) - (IF d = x THEN 1 ELSE 0)
         /\ \A d \in Devs : Alive(d)' <=> dev'[d].ref > 0
<1> DEFINE p == dev[x].parent
           v == Drop(dev, x)
<1>1. dev \in [Devs -> Device] /\ dev[x].ref > 0 /\ Children(x) \in Nat
  BY ChildrenNat DEF DevType, Device
<1>2. /\ v \in [Devs -> Device] /\ (\A d \in Devs : d # x => v[d] = dev[d])
      /\ v[x].id = dev[x].id /\ v[x].parent = dev[x].parent
      /\ v[x].attached = dev[x].attached /\ v[x].wrapped = dev[x].wrapped
      /\ v[x].ref = dev[x].ref - 1 /\ v[x].state = IF dev[x].ref = 1 THEN "freed" ELSE dev[x].state
  BY <1>1, DropIs
<1> HIDE DEF v
<1>3. Alive(x) /\ dev[x].state = "alive"
  BY <1>1 DEF Counted, Alive
<1>4. \A d \in Devs : dev[d].ref \in Nat /\ Children(d) \in Nat
  BY <1>1, ChildrenNat DEF Device
<1>5. CASE ~(dev[x].ref = 1 /\ p # NoDev)
  <2>1. dev' = v
    BY <1>5 DEF Unref, v
  <2>2. DevType' /\ SameButRef
    BY <2>1, <1>2, <1>3 DEF DevType, SameButRef
  <2>3. \A d \in Devs : Alive(d)' <=> dev'[d].ref > 0
    BY <2>1, <1>1, <1>2, <1>3, <1>4 DEF Alive, Counted
  <2>4. ASSUME NEW d \in Devs PROVE Children(d)' = Children(d)
    <3>1. ASSUME NEW c \in Devs PROVE IsChild(c, d)' <=> IsChild(c, d)
      <4>1. CASE c # x
        BY <4>1, <2>1, <1>2 DEF IsChild, Alive
      <4>2. CASE c = x /\ dev[x].ref # 1
        BY <4>2, <2>1, <1>2, <1>3 DEF IsChild, Alive
      <4>3. CASE c = x /\ dev[x].ref = 1
        BY <4>3, <2>1, <1>2, <1>5 DEF IsChild, Alive, Distinct
      <4> QED
        BY <4>1, <4>2, <4>3
    <3> QED
      BY <3>1, ChildrenSame
  <2>5. \A d \in Devs : dev'[d].ref = dev[d].ref - (IF d = x THEN 1 ELSE 0)
    BY <2>1, <1>2, <1>4
  <2>6. \A d \in Devs : Beside(d)' = Beside(d) - (IF d = x THEN 1 ELSE 0)
    BY <2>4, <2>5, <1>4 DEF Beside
  <2> QED
    BY <2>2, <2>3, <2>6
<1>6. CASE dev[x].ref = 1 /\ p # NoDev
  <2> DEFINE w == Drop(v, p)
  <2>1. p \in Devs /\ dev[p].parent = NoDev /\ p # x
    BY <1>6, NoGrandparents
  <2>2. IsChild(x, p)
    BY <1>3 DEF IsChild
  <2>3. Children(p) > 0 /\ dev[p].ref > 0 /\ dev[p].state = "alive"
    <3>1. Children(p) > 0
      BY <2>1, <2>2, ChildrenNat DEF IsChild
    <3>2. dev[p].ref > 0
      BY <3>1, <2>1, <1>4 DEF Counted
    <3> QED
      BY <3>1, <3>2, <2>1 DEF Counted, Alive
  <2>4. v[p] = dev[p]
    BY <2>1, <1>2
  <2>5. /\ w \in [Devs -> Device] /\ (\A d \in Devs : d # p => w[d] = v[d])
        /\ w[p].id = v[p].id /\ w[p].parent = v[p].parent
        /\ w[p].attached = v[p].attached /\ w[p].wrapped = v[p].wrapped
        /\ w[p].ref = v[p].ref - 1 /\ w[p].state = IF v[p].ref = 1 THEN "freed" ELSE v[p].state
    <3>1. v[p].ref > 0
      BY <2>3, <2>4
    <3> QED
      BY <3>1, <2>1, <1>2, DropIs
  <2> HIDE DEF w
  <2>6. dev' = w
    BY <1>6 DEF Unref, v, w
  <2>7. DevType' /\ SameButRef
    BY <2>1, <2>3, <2>4, <2>5, <2>6, <1>2, <1>3 DEF DevType, SameButRef
  <2>8. \A d \in Devs : dev'[d].ref = IF d \in {x, p} THEN dev[d].ref - 1 ELSE dev[d].ref
    BY <2>1, <2>4, <2>5, <2>6, <1>2
  <2>9. \A d \in Devs : Alive(d)' <=> dev'[d].ref > 0
    <3>1. ASSUME NEW d \in Devs PROVE Alive(d)' <=> dev'[d].ref > 0
      <4>1. CASE d = x
        BY <4>1, <2>1, <2>5, <2>6, <1>2, <1>6 DEF Alive
      <4>2. CASE d = p
        BY <4>2, <2>1, <2>3, <2>4, <2>5, <2>6, <1>4 DEF Alive
      <4>3. CASE d # p /\ d # x
        BY <4>3, <2>5, <2>6, <1>2 DEF Alive, Counted
      <4> QED
        BY <4>1, <4>2, <4>3
    <3> QED
      BY <3>1
  <2>10. ASSUME NEW d \in Devs PROVE Children(d)' = Children(d) - (IF d = p THEN 1 ELSE 0)
    <3>1. ASSUME NEW c \in Devs, c # x PROVE IsChild(c, d)' <=> IsChild(c, d)
      <4>1. CASE c = p
        BY <4>1, <2>1, <2>4, <2>5, <2>6 DEF IsChild, Distinct
      <4>2. CASE c # p
        BY <4>2, <3>1, <2>5, <2>6, <1>2 DEF IsChild, Alive
      <4> QED
        BY <4>1, <4>2
    <3>2. ~IsChild(x, d)'
      BY <2>1, <2>5, <2>6, <1>2, <1>6 DEF IsChild, Alive
    <3>3. IsChild(x, d) <=> d = p
      BY <2>2 DEF IsChild
    <3>4. Children(d)' + (IF IsChild(x, d) THEN 1 ELSE 0) = Children(d) + (IF IsChild(x, d)' THEN 1 ELSE 0)
      BY <3>1, ChildrenUpdate
    <3>5. Children(d)' \in Nat
      BY <3>1, ChildrenUpdate
    <3> QED
      BY <3>2, <3>3, <3>4, <3>5, <1>4
  <2>11. ASSUME NEW d \in Devs PROVE Beside(d)' = Beside(d) - (IF d = x THEN 1 ELSE 0)
    <3>1. Beside(d)' = dev'[d].ref - Children(d)' /\ Beside(d) = dev[d].ref - Children(d)
      BY DEF Beside
    <3> QED
      BY <3>1, <2>1, <2>8, <2>10, <1>4
  <2> QED
    BY <2>7, <2>9, <2>11
<1> QED
  BY <1>5, <1>6

\* libusb_ref_device, once and for a whole list.
LEMMA RefAllEffect ==
  ASSUME Finite, DevType, Counted, NEW S \in SUBSET Devs, \A x \in S : dev[x].ref > 0, dev' = RefAll(dev, S)
  PROVE  /\ DevType' /\ SameButRef
         /\ \A d \in Devs : Beside(d)' = Beside(d) + (IF d \in S THEN 1 ELSE 0)
         /\ \A d \in Devs : Alive(d)' <=> dev'[d].ref > 0
<1>1. dev \in [Devs -> Device] /\ \A d \in Devs : dev[d].ref \in Nat /\ Children(d) \in Nat
  BY ChildrenNat DEF DevType, Device
<1>2. dev' \in [Devs -> Device]
  <2>1. ASSUME NEW d \in Devs PROVE [dev[d] EXCEPT !.ref = dev[d].ref + 1] \in Device
    <3>1. dev[d] \in Device /\ dev[d].ref + 1 \in Nat
      BY <1>1
    <3> QED
      BY <3>1 DEF Device
  <2> QED
    BY <2>1, <1>1 DEF RefAll
<1>3. \A d \in Devs : /\ dev'[d].ref = dev[d].ref + (IF d \in S THEN 1 ELSE 0)
                      /\ dev'[d].id = dev[d].id /\ dev'[d].parent = dev[d].parent
                      /\ dev'[d].attached = dev[d].attached /\ dev'[d].wrapped = dev[d].wrapped
                      /\ dev'[d].state = dev[d].state
  BY <1>1 DEF RefAll, Device
<1>4. \A d \in Devs : Children(d)' = Children(d)
  <2>1. \A d \in Devs : \A c \in Devs : IsChild(c, d)' <=> IsChild(c, d)
    BY <1>3 DEF IsChild, Alive
  <2> QED
    BY <2>1, ChildrenSame
<1>5. \A d \in Devs : Beside(d)' = Beside(d) + (IF d \in S THEN 1 ELSE 0)
  BY <1>1, <1>3, <1>4 DEF Beside
<1>6. \A d \in Devs : Alive(d)' <=> dev'[d].ref > 0
  BY <1>1, <1>3 DEF Alive, Counted
<1> QED
  BY <1>2, <1>3, <1>5, <1>6 DEF DevType, SameButRef

LEMMA RefEffect ==
  ASSUME Finite, DevType, Counted, NEW x \in Devs, dev[x].ref > 0, dev' = Ref(dev, x)
  PROVE  /\ DevType' /\ SameButRef
         /\ \A d \in Devs : Beside(d)' = Beside(d) + (IF d = x THEN 1 ELSE 0)
         /\ \A d \in Devs : Alive(d)' <=> dev'[d].ref > 0
<1>0. {x} \in SUBSET Devs /\ \A y \in {x} : dev[y].ref > 0
  OBVIOUS
<1>1. dev' = RefAll(dev, {x})
  BY DEF DevType, Ref, RefAll
<1>2. /\ DevType' /\ SameButRef
      /\ \A d \in Devs : Beside(d)' = Beside(d) + (IF d \in {x} THEN 1 ELSE 0)
      /\ \A d \in Devs : Alive(d)' <=> dev'[d].ref > 0
  BY <1>0, <1>1, RefAllEffect
<1> QED
  BY <1>2

\* The flag attached, with a reference more or without.
LEMMA AttachedEffect ==
  ASSUME Finite, DevType, Counted, NEW x \in Devs, NEW b \in BOOLEAN, NEW n \in {0, 1}, dev[x].ref > 0,
         dev' = [dev EXCEPT ![x] = [dev[x] EXCEPT !.attached = b, !.ref = dev[x].ref + n]]
  PROVE  /\ DevType'
         /\ \A d \in Devs : /\ dev'[d].id = dev[d].id /\ dev'[d].parent = dev[d].parent
                            /\ dev'[d].wrapped = dev[d].wrapped /\ dev'[d].state = dev[d].state
                            /\ dev'[d].attached = IF d = x THEN b ELSE dev[d].attached
         /\ \A d \in Devs : Beside(d)' = Beside(d) + (IF d = x THEN n ELSE 0)
         /\ \A d \in Devs : Alive(d)' <=> dev'[d].ref > 0
<1>1. dev \in [Devs -> Device] /\ \A d \in Devs : dev[d].ref \in Nat /\ Children(d) \in Nat
  BY ChildrenNat DEF DevType, Device
<1> DEFINE v == [dev[x] EXCEPT !.attached = b, !.ref = dev[x].ref + n]
<1>2. /\ v \in Device /\ v.id = dev[x].id /\ v.parent = dev[x].parent /\ v.wrapped = dev[x].wrapped
      /\ v.state = dev[x].state /\ v.attached = b /\ v.ref = dev[x].ref + n
  <2>1. dev[x] \in Device /\ dev[x].ref + n \in Nat
    BY <1>1
  <2> QED
    BY <2>1 DEF Device
<1> HIDE DEF v
<1>3. dev' = [dev EXCEPT ![x] = v]
  BY DEF v
<1>4. dev' \in [Devs -> Device]
  BY <1>1, <1>2, <1>3
<1>5. \A d \in Devs : /\ dev'[d].ref = dev[d].ref + (IF d = x THEN n ELSE 0)
                      /\ dev'[d].id = dev[d].id /\ dev'[d].parent = dev[d].parent
                      /\ dev'[d].wrapped = dev[d].wrapped /\ dev'[d].state = dev[d].state
                      /\ dev'[d].attached = IF d = x THEN b ELSE dev[d].attached
  BY <1>1, <1>2, <1>3
<1>6. \A d \in Devs : Children(d)' = Children(d)
  <2>1. \A d \in Devs : \A c \in Devs : IsChild(c, d)' <=> IsChild(c, d)
    BY <1>5 DEF IsChild, Alive
  <2> QED
    BY <2>1, ChildrenSame
<1>7. \A d \in Devs : Beside(d)' = Beside(d) + (IF d = x THEN n ELSE 0)
  BY <1>1, <1>5, <1>6 DEF Beside
<1>8. \A d \in Devs : Alive(d)' <=> dev'[d].ref > 0
  BY <1>1, <1>5 DEF Alive, Counted
<1> QED
  BY <1>4, <1>5, <1>7, <1>8 DEF DevType

\* A new device, with or without a hub that gets a reference.
NewEffect(x, n, p) ==
  /\ \A d \in Devs : d # x => /\ dev'[d].id = dev[d].id /\ dev'[d].parent = dev[d].parent
                              /\ dev'[d].attached = dev[d].attached /\ dev'[d].wrapped = dev[d].wrapped
                              /\ dev'[d].state = dev[d].state
  /\ dev'[x] = n
  /\ \A d \in Devs : Beside(d)' = Beside(d) + (IF d = x THEN 1 ELSE 0)
  /\ \A d \in Devs : Alive(d)' <=> dev'[d].ref > 0

LEMMA AllocateEffect ==
  ASSUME Finite, Distinct, DevType, Counted, NEW x \in Devs, dev[x].state = "unused", dev[x].ref = 0,
         NEW n \in Device, n.ref = 1, n.state = "alive", NEW p \in Pointers, n.parent = p,
         p # NoDev => dev[p].ref > 0,
         dev' = IF p = NoDev THEN [dev EXCEPT ![x] = n] ELSE Ref([dev EXCEPT ![x] = n], p)
  PROVE  DevType' /\ NewEffect(x, n, p)
<1>1. dev \in [Devs -> Device] /\ \A d \in Devs : dev[d].ref \in Nat /\ Children(d) \in Nat
  BY ChildrenNat DEF DevType, Device
<1>2. p # x /\ (p # NoDev => p \in Devs)
  BY <1>1 DEF Distinct, Pointers
<1> DEFINE v == [dev[p] EXCEPT !.ref = dev[p].ref + 1]
<1>3. CASE p = NoDev
  <2>1. dev' = [dev EXCEPT ![x] = n]
    BY <1>3
  <2>2. dev' \in [Devs -> Device] /\ dev'[x] = n /\ \A d \in Devs : d # x => dev'[d] = dev[d]
    BY <2>1, <1>1
  <2>3. ASSUME NEW d \in Devs PROVE Children(d)' = Children(d)
    <3>1. ASSUME NEW c \in Devs PROVE IsChild(c, d)' <=> IsChild(c, d)
      <4>1. CASE c = x
        BY <4>1, <2>2, <1>3 DEF IsChild, Alive, Distinct
      <4>2. CASE c # x
        BY <4>2, <2>2 DEF IsChild, Alive
      <4> QED
        BY <4>1, <4>2
    <3> QED
      BY <3>1, ChildrenSame
  <2>4. Children(x) = 0
    BY <1>1 DEF Counted
  <2>5. \A d \in Devs : Beside(d)' = Beside(d) + (IF d = x THEN 1 ELSE 0)
    <3>1. ASSUME NEW d \in Devs PROVE Beside(d)' = Beside(d) + (IF d = x THEN 1 ELSE 0)
      <4>1. Beside(d)' = dev'[d].ref - Children(d) /\ Beside(d) = dev[d].ref - Children(d)
        BY <2>3 DEF Beside
      <4>2. dev'[d].ref = dev[d].ref + (IF d = x THEN 1 ELSE 0)
        <5>1. CASE d = x
          <6>1. dev'[d].ref = 1 /\ dev[d].ref = 0
            BY <5>1, <2>2
          <6> QED
            BY <6>1, <5>1
        <5>2. CASE d # x
          <6>1. dev'[d].ref = dev[d].ref /\ dev[d].ref \in Nat
            BY <5>2, <2>2, <1>1
          <6> QED
            BY <6>1, <5>2
        <5> QED
          BY <5>1, <5>2
      <4> QED
        BY <4>1, <4>2, <1>1
    <3> QED
      BY <3>1
  <2>6. ASSUME NEW d \in Devs PROVE Alive(d)' <=> dev'[d].ref > 0
    <3>1. CASE d = x
      <4>1. dev'[d].ref = 1 /\ dev'[d].state = "alive"
        BY <3>1, <2>2
      <4> QED
        BY <4>1 DEF Alive
    <3>2. CASE d # x
      <4>1. dev'[d] = dev[d]
        BY <3>2, <2>2
      <4> QED
        BY <4>1 DEF Alive, Counted
    <3> QED
      BY <3>1, <3>2
  <2> QED
    BY <2>2, <2>5, <2>6 DEF DevType, NewEffect
<1>4. CASE p # NoDev
  <2>1. /\ v \in Device /\ v.id = dev[p].id /\ v.parent = dev[p].parent /\ v.wrapped = dev[p].wrapped
        /\ v.state = dev[p].state /\ v.attached = dev[p].attached /\ v.ref = dev[p].ref + 1
    <3>1. dev[p] \in Device /\ dev[p].ref + 1 \in Nat
      BY <1>1, <1>2, <1>4
    <3> QED
      BY <3>1 DEF Device
  <2>2. dev' = [[dev EXCEPT ![x] = n] EXCEPT ![p] = v]
    BY <1>1, <1>2, <1>4 DEF Ref
  <2> HIDE DEF v
  <2>3. /\ dev' \in [Devs -> Device] /\ dev'[x] = n /\ dev'[p] = v
        /\ \A d \in Devs : d # x /\ d # p => dev'[d] = dev[d]
    <3>1. [dev EXCEPT ![x] = n] \in [Devs -> Device] /\ p \in Devs /\ p # x
      BY <1>1, <1>2, <1>4
    <3> QED
      BY <3>1, <2>1, <2>2, <1>1
  <2>4. \A d \in Devs : d # x => /\ dev'[d].id = dev[d].id /\ dev'[d].parent = dev[d].parent
                                 /\ dev'[d].attached = dev[d].attached /\ dev'[d].wrapped = dev[d].wrapped
                                 /\ dev'[d].state = dev[d].state
    BY <2>1, <2>3, <1>2
  <2>5. ASSUME NEW d \in Devs PROVE dev'[d].ref = dev[d].ref + (IF d = x \/ d = p THEN 1 ELSE 0)
    <3>1. CASE d = x
      <4>1. dev'[d].ref = 1 /\ dev[d].ref = 0
        BY <3>1, <2>3
      <4> QED
        BY <4>1, <3>1
    <3>2. CASE d = p
      <4>1. dev'[d].ref = dev[d].ref + 1
        BY <3>2, <2>1, <2>3
      <4> QED
        BY <4>1, <3>2
    <3>3. CASE d # x /\ d # p
      <4>1. dev'[d].ref = dev[d].ref /\ dev[d].ref \in Nat
        BY <3>3, <2>3, <1>1
      <4> QED
        BY <4>1, <3>3
    <3> QED
      BY <3>1, <3>2, <3>3
  <2>6. ASSUME NEW d \in Devs PROVE Children(d)' = Children(d) + (IF d = p THEN 1 ELSE 0)
    <3>1. \A c \in Devs : c # x => (IsChild(c, d)' <=> IsChild(c, d))
      BY <2>4 DEF IsChild, Alive
    <3>2. ~IsChild(x, d) /\ (IsChild(x, d)' <=> d = p)
      BY <2>3 DEF IsChild, Alive
    <3>3. /\ Children(d)' + (IF IsChild(x, d) THEN 1 ELSE 0) = Children(d) + (IF IsChild(x, d)' THEN 1 ELSE 0)
          /\ Children(d)' \in Nat
      BY <3>1, ChildrenUpdate
    <3> QED
      BY <3>2, <3>3
  <2>7. ASSUME NEW d \in Devs PROVE Beside(d)' = Beside(d) + (IF d = x THEN 1 ELSE 0)
    <3>1. Beside(d)' = dev'[d].ref - Children(d)' /\ Beside(d) = dev[d].ref - Children(d)
      BY DEF Beside
    <3>2. dev[d].ref \in Nat /\ Children(d) \in Nat
      BY <1>1
    <3>3. dev'[d].ref = dev[d].ref + (IF d = x \/ d = p THEN 1 ELSE 0)
          /\ Children(d)' = Children(d) + (IF d = p THEN 1 ELSE 0)
      BY <2>5, <2>6
    <3>4. CASE d = p
      BY <3>1, <3>2, <3>3, <3>4, <1>2
    <3>5. CASE d # p
      BY <3>1, <3>2, <3>3, <3>5
    <3> QED
      BY <3>4, <3>5
  <2>8. ASSUME NEW d \in Devs PROVE Alive(d)' <=> dev'[d].ref > 0
    <3>1. CASE d = x
      <4>1. dev'[d].ref = 1 /\ dev'[d].state = "alive"
        BY <3>1, <2>3
      <4> QED
        BY <4>1 DEF Alive
    <3>2. CASE d # x /\ d # p
      <4>1. dev'[d] = dev[d]
        BY <3>2, <2>3
      <4> QED
        BY <4>1 DEF Alive, Counted
    <3>3. CASE d = p
      <4>1. dev'[d].ref = dev[d].ref + 1 /\ dev'[d].state = dev[d].state /\ dev[d].ref > 0 /\ dev[d].ref \in Nat
        BY <3>3, <2>1, <2>3, <1>1, <1>4
      <4> QED
        BY <4>1 DEF Alive, Counted
    <3> QED
      BY <3>1, <3>2, <3>3
  <2> QED
    BY <2>3, <2>4, <2>7, <2>8 DEF DevType, NewEffect
<1> QED
  BY <1>3, <1>4

\* A device gets a hub.
LEMMA AdoptEffect ==
  ASSUME Finite, Distinct, DevType, Counted, NEW c \in Devs, NEW p \in Devs, c # p,
         dev[c].ref > 0, dev[p].ref > 0, dev[c].parent = NoDev,
         dev' = Ref([dev EXCEPT ![c].parent = p], p)
  PROVE  /\ DevType'
         /\ \A d \in Devs : /\ dev'[d].id = dev[d].id /\ dev'[d].parent = IF d = c THEN p ELSE dev[d].parent
                            /\ dev'[d].attached = dev[d].attached /\ dev'[d].wrapped = dev[d].wrapped
                            /\ dev'[d].state = dev[d].state
         /\ \A d \in Devs : Beside(d)' = Beside(d)
         /\ \A d \in Devs : Alive(d)' <=> dev'[d].ref > 0
<1>1. dev \in [Devs -> Device] /\ \A d \in Devs : dev[d].ref \in Nat /\ Children(d) \in Nat
  BY ChildrenNat DEF DevType, Device
<1> DEFINE v == [dev[p] EXCEPT !.ref = dev[p].ref + 1]
           w == [dev[c] EXCEPT !.parent = p]
<1>2. /\ v \in Device /\ v.id = dev[p].id /\ v.parent = dev[p].parent /\ v.wrapped = dev[p].wrapped
      /\ v.state = dev[p].state /\ v.attached = dev[p].attached /\ v.ref = dev[p].ref + 1
  <2>1. dev[p] \in Device /\ dev[p].ref + 1 \in Nat
    BY <1>1
  <2> QED
    BY <2>1 DEF Device
<1>3. /\ w \in Device /\ w.id = dev[c].id /\ w.parent = p /\ w.wrapped = dev[c].wrapped
      /\ w.state = dev[c].state /\ w.attached = dev[c].attached /\ w.ref = dev[c].ref
  <2>1. dev[c] \in Device
    BY <1>1
  <2> QED
    BY <2>1 DEF Device, Pointers
<1>4. dev' = [[dev EXCEPT ![c] = w] EXCEPT ![p] = v]
  BY <1>1 DEF Ref
<1> HIDE DEF v, w
<1>5. /\ dev' \in [Devs -> Device] /\ dev'[c] = w /\ dev'[p] = v
      /\ \A d \in Devs : d # c /\ d # p => dev'[d] = dev[d]
  BY <1>1, <1>2, <1>3, <1>4
<1>6. \A d \in Devs : /\ dev'[d].id = dev[d].id /\ dev'[d].parent = IF d = c THEN p ELSE dev[d].parent
                      /\ dev'[d].attached = dev[d].attached /\ dev'[d].wrapped = dev[d].wrapped
                      /\ dev'[d].state = dev[d].state
                      /\ dev'[d].ref = dev[d].ref + (IF d = p THEN 1 ELSE 0)
  <2>1. ASSUME NEW d \in Devs
        PROVE  /\ dev'[d].id = dev[d].id /\ dev'[d].parent = IF d = c THEN p ELSE dev[d].parent
               /\ dev'[d].attached = dev[d].attached /\ dev'[d].wrapped = dev[d].wrapped
               /\ dev'[d].state = dev[d].state
               /\ dev'[d].ref = dev[d].ref + (IF d = p THEN 1 ELSE 0)
    <3>0. dev[d].ref \in Nat
      BY <1>1
    <3>1. CASE d = c
      <4>1. dev'[d] = w /\ d # p
        BY <3>1, <1>5
      <4> QED
        BY <4>1, <3>0, <3>1, <1>3
    <3>2. CASE d = p
      <4>1. dev'[d] = v /\ d # c
        BY <3>2, <1>5
      <4> QED
        BY <4>1, <3>2, <1>2
    <3>3. CASE d # c /\ d # p
      <4>1. dev'[d] = dev[d]
        BY <3>3, <1>5
      <4> QED
        BY <4>1, <3>0, <3>3
    <3> QED
      BY <3>1, <3>2, <3>3
  <2> QED
    BY <2>1
<1>7. ASSUME NEW d \in Devs PROVE Children(d)' = Children(d) + (IF d = p THEN 1 ELSE 0)
  <2>1. \A e \in Devs : e # c => (IsChild(e, d)' <=> IsChild(e, d))
    BY <1>6 DEF IsChild, Alive
  <2>2. ~IsChild(c, d) /\ (IsChild(c, d)' <=> d = p)
    BY ZenonT(60), <1>6 DEF IsChild, Alive, Distinct, Counted
  <2>3. /\ Children(d)' + (IF IsChild(c, d) THEN 1 ELSE 0) = Children(d) + (IF IsChild(c, d)' THEN 1 ELSE 0)
        /\ Children(d)' \in Nat
    BY <2>1, ChildrenUpdate
  <2> QED
    BY <2>2, <2>3
<1>8. ASSUME NEW d \in Devs PROVE Beside(d)' = Beside(d)
  <2>1. Beside(d)' = dev'[d].ref - Children(d)' /\ Beside(d) = dev[d].ref - Children(d)
    BY DEF Beside
  <2>2. dev[d].ref \in Nat /\ Children(d) \in Nat /\ dev'[d].ref = dev[d].ref + (IF d = p THEN 1 ELSE 0)
        /\ Children(d)' = Children(d) + (IF d = p THEN 1 ELSE 0)
    BY <1>1, <1>6, <1>7
  <2>3. CASE d = p
    BY <2>1, <2>2, <2>3
  <2>4. CASE d # p
    BY <2>1, <2>2, <2>4
  <2> QED
    BY <2>3, <2>4
<1>9. ASSUME NEW d \in Devs PROVE Alive(d)' <=> dev'[d].ref > 0
  <2>1. /\ dev'[d].state = dev[d].state /\ dev[d].ref \in Nat
        /\ dev'[d].ref = dev[d].ref + (IF d = p THEN 1 ELSE 0)
    BY <1>1, <1>6
  <2>2. CASE d = p
    <3>1. dev[d].ref > 0 /\ dev'[d].ref = dev[d].ref + 1
      BY <2>1, <2>2
    <3> QED
      BY <3>1, <2>1 DEF Alive, Counted
  <2>3. CASE d # p
    <3>1. dev'[d].ref = dev[d].ref
      BY <2>1, <2>3
    <3> QED
      BY <3>1, <2>1 DEF Alive, Counted
  <2> QED
    BY <2>2, <2>3
<1> QED
  BY <1>5, <1>6, <1>8, <1>9 DEF DevType

-----------------------------------------------------------------------------
\* --- what a step leaves of the types

USE DEF busVars, devVars, appVars, cbVars, evVars, vars

LEMMA ListedAsIs ==
  ASSUME Distinct, ListType, NEW i
  PROVE  \/ ListedAs(i) = NoDev /\ \A d \in Range(listed) : dev[d].id # i
         \/ /\ ListedAs(i) # NoDev /\ ListedAs(i) \in Range(listed) /\ ListedAs(i) \in Devs
            /\ dev[ListedAs(i)].id = i
<1>1. Range(listed) \subseteq Devs
  BY RangeIs DEF ListType
<1> QED
  BY <1>1 DEF ListedAs, Distinct

LEMMA BusTypeNext ==
  ASSUME Finite, BusType, [Next]_vars
  PROVE  BusType'
<1>1. ASSUME NEW i \in Ids, Plug(i) \/ Unplug(i) PROVE BusType'
  <2>1. plugged' \subseteq Ids /\ changes' \in 0..Changes
    BY <1>1 DEF BusType, Finite, Plug, Unplug, MayChange
  <2>2. \E e \in EventType : queue' = Append(queue, e)
    BY <1>1 DEF EventType, Plug, Unplug
  <2>3. queue' \in Seq(EventType)
    BY <2>2, AppendProperties DEF BusType
  <2> QED
    BY <2>1, <2>3 DEF BusType
<1>2. ASSUME Receive \/ PollMore PROVE BusType'
  <2>1. queue # <<>> /\ queue' = Tail(queue) /\ UNCHANGED <<plugged, changes>>
    BY <1>2 DEF Receive, PollMore
  <2>2. queue' \in Seq(EventType)
    BY <2>1, Taken DEF BusType
  <2> QED
    BY <2>1, <2>2 DEF BusType
<1>3. ASSUME UNCHANGED busVars PROVE BusType'
  BY <1>3 DEF BusType
<1> QED
  BY ZenonT(60), <1>1, <1>2, <1>3
  DEF Next, HotplugLock, Exiting, App, HandleEvents, PollDone, EventDone, ScanMore, ScanDone, Known, Gone, Allocate,
      EnumerateParent, Connect, Arrived, Disconnect, Left, Unreferenced, Scan, HotplugInit, Exit, FreeMessage,
      MessagesFreed, ReleaseListed, Released, ListPoll, ListWalk, FreeList, OpenRefused, Open, Opened, OpenNoDevice,
      OpenFailed, Wrap, Close, Register, CallArrived, Registered, Deregister, PollError, TakeMessages, NextMessage,
      NextCallback, CallBack, MessageDone, StartSweep, Sweep, Swept, Finished

LEMMA ListTypeNext ==
  ASSUME Finite, Distinct, ListType, HpType, HpInv, [Next]_vars
  PROVE  ListType'
<1>1. ASSUME Connect PROVE ListType'
  <2>1. listed' = <<hp.new>> \o listed /\ leaving' = leaving /\ hp.new \in Devs /\ hp.new \notin Range(listed)
    BY <1>1 DEF Connect, HpInv
  <2> QED
    BY <2>1, Prepended DEF ListType
<1>2. ASSUME Disconnect PROVE ListType'
  <2>1. leaving' = leaving /\ (listed' = listed \/ listed' = RemoveFirst(listed, ListedAs(hp.id)))
    BY <1>2 DEF Disconnect
  <2> QED
    BY <2>1, Unlisted DEF ListType
<1>3. ASSUME MessagesFreed PROVE ListType'
  BY <1>3 DEF MessagesFreed, ListType
<1>4. ASSUME ReleaseListed PROVE ListType'
  <2>1. PICK S, T : leaving # <<>> /\ leaving' = Tail(leaving) /\ listed' = Unlink(Unlink(listed, S), T)
    BY <1>4 DEF ReleaseListed
  <2>2. leaving' \in Seq(Devs) /\ IsInjective(leaving')
    BY <2>1, Taken DEF ListType
  <2> DEFINE l == Unlink(listed, S)
  <2>3. l \in Seq(Devs) /\ IsInjective(l)
    BY Unlisted DEF ListType, Unlink
  <2> HIDE DEF l
  <2>4. Unlink(l, T) \in Seq(Devs) /\ IsInjective(Unlink(l, T))
    BY <2>3, Unlisted DEF Unlink
  <2> QED
    BY <2>1, <2>2, <2>4 DEF ListType, l
<1>5. ASSUME UNCHANGED <<listed, leaving>> PROVE ListType'
  BY <1>5 DEF ListType
<1> QED
  BY ZenonT(60), <1>1, <1>2, <1>3, <1>4, <1>5
  DEF Next, HotplugLock, Exiting, App, HandleEvents, Plug, Unplug, Receive, PollMore, PollDone, EventDone, ScanMore,
      ScanDone, Known, Gone, Allocate, EnumerateParent, Arrived, Left, Unreferenced, Scan, HotplugInit, Exit,
      FreeMessage, Released, ListPoll, ListWalk, FreeList, OpenRefused, Open, Opened, OpenNoDevice, OpenFailed, Wrap,
      Close, Register, CallArrived, Registered, Deregister, PollError, TakeMessages, NextMessage, NextCallback,
      CallBack, MessageDone, StartSweep, Sweep, Swept, Finished

LEMMA PhaseTypeNext ==
  ASSUME PhaseType, [Next]_vars
  PROVE  PhaseType'
<1>1. ASSUME Scan \/ ScanDone \/ HotplugInit \/ Exit \/ MessagesFreed \/ Released PROVE PhaseType'
  BY <1>1 DEF Scan, ScanDone, HotplugInit, Exit, MessagesFreed, Released, PhaseType
<1>2. ASSUME UNCHANGED phase PROVE PhaseType'
  BY <1>2 DEF PhaseType
<1> QED
  BY ZenonT(60), <1>1, <1>2
  DEF Next, HotplugLock, Exiting, App, HandleEvents, Plug, Unplug, Receive, PollMore, PollDone, EventDone, ScanMore,
      Known, Gone, Allocate, EnumerateParent, Connect, Arrived, Disconnect, Left, Unreferenced, FreeMessage,
      ReleaseListed, ListPoll, ListWalk, FreeList, OpenRefused, Open, Opened, OpenNoDevice, OpenFailed, Wrap, Close,
      Register, CallArrived, Registered, Deregister, PollError, TakeMessages, NextMessage, NextCallback, CallBack,
      MessageDone, StartSweep, Sweep, Swept, Finished

LEMMA MsgTypeNext ==
  ASSUME MsgType, HpInv, [Next]_vars
  PROVE  MsgType'
<1>1. ASSUME Arrived \/ Left PROVE MsgType'
  <2>1. ready' = ready /\ hp.new \in Devs
    BY <1>1 DEF Arrived, Left, HpInv
  <2>2. msgs' = msgs \/ \E m \in MessageType : msgs' = Append(msgs, m)
    BY <1>1, <2>1 DEF Arrived, Left, Notify, Message, MessageType
  <2>3. msgs' \in Seq(MessageType)
    BY <2>2, AppendProperties DEF MsgType
  <2> QED
    BY <2>1, <2>3 DEF MsgType
<1>2. ASSUME FreeMessage PROVE MsgType'
  <2>1. msgs # <<>> /\ msgs' = Tail(msgs) /\ ready' = ready
    BY <1>2 DEF FreeMessage
  <2> QED
    BY <2>1, Taken DEF MsgType
<1>3. ASSUME TakeMessages \/ HotplugInit PROVE MsgType'
  <2>1. <<>> \in Seq(MessageType)
    OBVIOUS
  <2>2. (msgs' = msgs \/ msgs' = <<>>) /\ (ready' = ready \/ ready' = TRUE)
    BY <1>3 DEF TakeMessages, HotplugInit
  <2> QED
    BY <2>1, <2>2 DEF MsgType
<1>4. ASSUME UNCHANGED <<msgs, ready>> PROVE MsgType'
  BY <1>4 DEF MsgType
<1> QED
  BY ZenonT(60), <1>1, <1>2, <1>3, <1>4
  DEF Next, HotplugLock, Exiting, App, HandleEvents, Plug, Unplug, Receive, PollMore, PollDone, EventDone, ScanMore,
      ScanDone, Known, Gone, Allocate, EnumerateParent, Connect, Disconnect, Unreferenced, Scan, Exit, MessagesFreed,
      ReleaseListed, Released, ListPoll, ListWalk, FreeList, OpenRefused, Open, Opened, OpenNoDevice, OpenFailed,
      Wrap, Close, Register, CallArrived, Registered, Deregister, PollError, NextMessage, NextCallback, CallBack,
      MessageDone, StartSweep, Sweep, Swept, Finished

LEMMA CbTypeNext ==
  ASSUME CbType, CbInv, EvType, [Next]_vars
  PROVE  CbType'
<1>1. ASSUME Exit PROVE CbType'
  <2>1. <<>> \in Seq(Cbs)
    OBVIOUS
  <2>2. cbs' = <<>> /\ swept' = FALSE
    BY <1>1 DEF Exit
  <2>3. cb' \in [Cbs -> {"unused", "armed", "marked", "freed"}]
    BY <1>1 DEF Exit, CbType
  <2> QED
    BY <2>1, <2>2, <2>3 DEF CbType
<1>2. ASSUME NEW t \in Apps, Register(t) PROVE CbType'
  <2>1. PICK c \in Cbs : cbs' = <<c>> \o cbs /\ cb' = [cb EXCEPT ![c] = "armed"] /\ swept' = swept
    BY <1>2 DEF Register, MayRegister
  <2>2. cbs' \in Seq(Cbs)
    BY <2>1, Prepended DEF CbType
  <2> QED
    BY <2>1, <2>2 DEF CbType
<1>3. ASSUME NEW t \in Apps, Deregister(t) PROVE CbType'
  BY <1>3 DEF Deregister, CbType
<1>4. ASSUME CallBack \/ Sweep PROVE CbType'
  <2>1. swept' = swept
    BY <1>4 DEF CallBack, Sweep
  <2>2. \/ UNCHANGED <<cbs, cb>>
        \/ \E c : cbs' = RemoveFirst(cbs, c) /\ cb' = [cb EXCEPT ![c] = "freed"]
    BY <1>4 DEF CallBack, Sweep
  <2>3. cbs' \in Seq(Cbs)
    BY <2>2, Unlisted DEF CbType, CbInv
  <2> QED
    BY <2>1, <2>2, <2>3 DEF CbType
<1>5. ASSUME TakeMessages PROVE CbType'
  BY <1>5 DEF TakeMessages, CbType
<1>6. ASSUME UNCHANGED cbVars PROVE CbType'
  BY <1>6 DEF CbType
<1> QED
  BY <1>1, <1>2, <1>3, <1>4, <1>5, <1>6
  DEF Next, HotplugLock, Exiting, App, HandleEvents, Plug, Unplug, Receive, PollMore, PollDone, EventDone, ScanMore,
      ScanDone, Known, Gone, Allocate, EnumerateParent, Connect, Arrived, Disconnect, Left, Unreferenced, Scan,
      HotplugInit, FreeMessage, MessagesFreed, ReleaseListed, Released, ListPoll, ListWalk, FreeList, OpenRefused,
      Open, Opened, OpenNoDevice, OpenFailed, Wrap, Close, CallArrived, Registered, PollError, NextMessage,
      NextCallback, MessageDone, StartSweep, Swept, Finished

LEMMA EvTypeNext ==
  ASSUME MsgType, CbType, CbInv, EvType, AppType, [Next]_vars
  PROVE  EvType'
<1> DEFINE Ev == [step : {"idle", "message", "callbacks", "call", "sweep"}, msgs : Seq(MessageType), rest : Seq(Cbs)]
<1>1. ASSUME lost' = lost \/ (\E i \in Ids : Unplug(i)) \/ (\E t \in Apps : Close(t)) \/ PollError
      PROVE  lost' \subseteq Apps \X Devs
  BY <1>1 DEF Unplug, Close, PollError, EvType
<1>2. ASSUME TakeMessages \/ Swept PROVE ev' \in Ev /\ lost' = lost
  <2>1. <<>> \in Seq(MessageType) /\ <<>> \in Seq(Cbs)
    OBVIOUS
  <2> QED
    <3>1. CASE TakeMessages
      <4>1. ev' = [step |-> "message", msgs |-> msgs, rest |-> <<>>] /\ lost' = lost
        BY <3>1 DEF TakeMessages
      <4> QED
        BY <4>1, <2>1 DEF MsgType
    <3>2. CASE Swept
      <4>1. ev' = [step |-> "idle", msgs |-> <<>>, rest |-> <<>>] /\ lost' = lost
        BY <3>2 DEF Swept, Resting
      <4> QED
        BY <4>1, <2>1
    <3> QED
      BY <1>2, <3>1, <3>2
<1>3. ASSUME NextMessage PROVE ev' \in Ev /\ lost' = lost
  BY <1>3 DEF NextMessage, EvType, CbType
<1>4. ASSUME StartSweep PROVE ev' \in Ev /\ lost' = lost
  BY <1>4 DEF StartSweep, EvType
<1>5. ASSUME NextCallback \/ CallBack PROVE ev' \in Ev /\ lost' = lost
  <2>1. ev \in Ev /\ ev.rest # <<>>
    BY <1>5 DEF NextCallback, CallBack, EvType, CbInv
  <2>2. Tail(ev.rest) \in Seq(Cbs)
    BY <2>1, Taken
  <2> QED
    BY <1>5, <2>1, <2>2 DEF NextCallback, CallBack
<1>6. ASSUME MessageDone PROVE ev' \in Ev /\ lost' = lost
  <2>1. ev \in Ev /\ ev.msgs # <<>>
    BY <1>6 DEF MessageDone, EvType, CbInv
  <2>2. Tail(ev.msgs) \in Seq(MessageType)
    BY <2>1, Taken
  <2> QED
    BY <1>6, <2>1, <2>2 DEF MessageDone
<1>7. ASSUME UNCHANGED ev PROVE ev' \in Ev
  BY <1>7 DEF EvType
<1> QED
  BY ZenonT(60), <1>1, <1>2, <1>3, <1>4, <1>5, <1>6, <1>7
  DEF Next, HotplugLock, Exiting, App, HandleEvents, Plug, Unplug, Receive, PollMore, PollDone, EventDone, ScanMore,
      ScanDone, Known, Gone, Allocate, EnumerateParent, Connect, Arrived, Disconnect, Left, Unreferenced, Scan,
      HotplugInit, Exit, FreeMessage, MessagesFreed, ReleaseListed, Released, ListPoll, ListWalk, FreeList,
      OpenRefused, Open, Opened, OpenNoDevice, OpenFailed, Wrap, Close, Register, CallArrived, Registered, Deregister,
      PollError, Sweep, Finished, EvType

LEMMA HpTypeNext ==
  ASSUME Distinct, Topology, HpType, HpInv, BusType, DevType, ListType, AppType, EvType, Families, TargetInv, [Next]_vars
  PROVE  HpType'
<1> DEFINE Hp == [owner : Owners, step : Steps, id : Ids \cup {NoId}, todo : SUBSET Ids,
                  new : Pointers, child : Pointers]
<1>1. Idle \in Hp
  BY DEF Idle, Owners, Steps, Pointers
<1>2. ASSUME Receive \/ PollMore PROVE HpType'
  <2>1. Head(queue) \in EventType
    BY <1>2, Taken DEF Receive, PollMore, BusType
  <2>2. Head(queue).id \in Ids /\ StepOf(Head(queue)) \in Steps
    BY <2>1 DEF EventType, StepOf, Steps
  <2> QED
    BY ZenonT(60), <1>1, <1>2, <2>2 DEF Receive, PollMore, Lock, HpType, Owners
<1>3. ASSUME PollDone \/ EventDone \/ ScanDone PROVE HpType'
  BY <1>1, <1>3 DEF PollDone, EventDone, ScanDone, Unlock, HpType
<1>4. ASSUME ScanMore PROVE HpType'
  <2>1. PICK i \in hp.todo : hp' = [hp EXCEPT !.step = "enumerate", !.id = i, !.todo = @ \ {i}]
    BY <1>4 DEF ScanMore
  <2>2. hp \in Hp /\ i \in Ids /\ hp.todo \ {i} \in SUBSET Ids
    BY DEF HpType
  <2> QED
    BY <2>1, <2>2 DEF HpType, Steps
<1>5. ASSUME Known \/ Gone \/ Left PROVE HpType'
  BY <1>5 DEF Known, Gone, Left, HpType, Steps
<1>6. ASSUME Allocate \/ EnumerateParent PROVE HpType'
  <2>1. PICK d \in Devs : hp' \in {[hp EXCEPT !.step = "parent", !.child = d], [hp EXCEPT !.step = "connect", !.new = d],
                              [hp EXCEPT !.step = "connect", !.new = hp.child, !.child = NoDev]}
    <3>1. CASE Allocate
      BY <3>1 DEF Allocate, MayAllocate, Unused
    <3>2. CASE EnumerateParent /\ MayAllocate
      BY <3>2 DEF EnumerateParent, MayAllocate, Unused
    <3>3. CASE EnumerateParent /\ ~MayAllocate
      <4>1. hp.child \in Devs
        BY <3>3 DEF EnumerateParent, HpInv, HpType, Pointers
      <4> QED
        BY <3>3, <4>1 DEF EnumerateParent
    <3> QED
      BY <1>6, <3>1, <3>2, <3>3
  <2> QED
    BY ZenonT(60), <2>1 DEF HpType, Steps, Pointers
<1>7. ASSUME Connect \/ Arrived \/ Unreferenced PROVE HpType'
  <2>1. CASE Connect
    BY <2>1 DEF Connect, HpType, Steps
  <2>2. CASE Arrived
    BY ZenonT(60), <2>2 DEF Arrived, HpType, Steps, Pointers
  <2>3. CASE Unreferenced
    BY <2>3 DEF Unreferenced, HpType, Steps, Pointers
  <2> QED
    BY <1>7, <2>1, <2>2, <2>3
<1>8. ASSUME Disconnect PROVE HpType'
  <2>1. ListedAs(hp.id) \in Pointers
    BY ListedAsIs DEF Pointers
  <2> QED
    BY <1>8, <2>1 DEF Disconnect, HpType, Steps
<1>9. ASSUME Scan PROVE HpType'
  BY <1>1, <1>9 DEF Scan, HpType, Owners, Steps, BusType
<1>10. ASSUME NEW t \in Apps, ListPoll(t) PROVE HpType'
  BY <1>1, <1>10 DEF ListPoll, Lock, HpType, Owners, Steps
<1>11. ASSUME NEW t \in Apps, OpenNoDevice(t) PROVE HpType'
  <2>1. dev[target[t]].id \in Ids \cup {NoId}
    <3>1. target[t] \in Devs
      BY <1>11 DEF OpenNoDevice, TargetInv
    <3> QED
      BY <3>1 DEF DevType, Device
  <2> QED
    <3>1. hp' = hp \/ Lock(t, "disconnect", dev[target[t]].id)
      BY <1>11 DEF OpenNoDevice
    <3> QED
      BY ZenonT(60), <1>1, <2>1, <3>1 DEF Lock, HpType, Owners, Steps
<1>12. ASSUME PollError PROVE HpType'
  <2>1. PICK d \in Devs : hp' = hp \/ Lock(Events, "disconnect", dev[d].id)
    BY <1>12 DEF PollError, AppType
  <2>2. dev[d].id \in Ids \cup {NoId}
    BY DEF DevType, Device
  <2> QED
    BY ZenonT(60), <1>1, <2>1, <2>2 DEF Lock, HpType, Owners, Steps
<1>13. ASSUME UNCHANGED hp PROVE HpType'
  BY <1>13 DEF HpType
<1> QED
  BY <1>2, <1>3, <1>4, <1>5, <1>6, <1>7, <1>8, <1>9, <1>10, <1>11, <1>12, <1>13
  DEF Next, HotplugLock, Exiting, App, HandleEvents, Plug, Unplug, HotplugInit, Exit, FreeMessage, MessagesFreed,
      ReleaseListed, Released, ListWalk, FreeList, OpenRefused, Open, Opened, OpenFailed, Wrap, Close, Register,
      CallArrived, Registered, Deregister, TakeMessages, NextMessage, NextCallback, CallBack, MessageDone, StartSweep,
      Sweep, Swept, Finished

LEMMA AppTypeNext ==
  ASSUME Distinct, HpType, ListType, AppType, TargetInv, [Next]_vars
  PROVE  AppType'
<1>1. ASSUME NEW t \in Apps, NEW l \in Labels, UNCHANGED <<mine, open, target>>, Goto(t, l) PROVE AppType'
  BY <1>1 DEF Goto, AppType
<1>2. ASSUME PollDone \/ EventDone PROVE AppType'
  BY <1>2 DEF PollDone, EventDone, AppType, Labels
<1>3. ASSUME NEW t \in Apps, ListPoll(t) \/ OpenNoDevice(t) PROVE AppType'
  BY <1>3, <1>1 DEF ListPoll, OpenNoDevice, Labels
<1>4. ASSUME NEW t \in Apps, ListWalk(t) PROVE AppType'
  <2>1. Range(listed) \subseteq Devs
    BY RangeIs DEF ListType
  <2> QED
    BY <1>4, <2>1 DEF ListWalk, Goto, AppType, Labels
<1>5. ASSUME NEW t \in Apps, FreeList(t) \/ CallArrived(t) PROVE AppType'
  BY <1>5 DEF FreeList, CallArrived, AppType
<1>6. ASSUME NEW t \in Apps, Open(t) \/ OpenFailed(t) \/ Registered(t) PROVE AppType'
  BY <1>6 DEF Open, OpenFailed, Registered, Goto, AppType, Labels, Pointers
<1>7. ASSUME NEW t \in Apps, Opened(t) PROVE AppType'
  <2>1. target[t] \in Devs
    BY <1>7 DEF Opened, TargetInv
  <2> QED
    BY <1>7, <2>1 DEF Opened, Goto, AppType, Labels, Pointers
<1>8. ASSUME NEW t \in Apps, Wrap(t) \/ Close(t) PROVE AppType'
  <2>1. UNCHANGED <<pc, mine, target>>
    BY <1>8 DEF Wrap, Close
  <2>2. open' = open \/ \E S \in SUBSET Devs : open' = [open EXCEPT ![t] = S]
    <3>1. CASE Wrap(t)
      <4>1. open' = open \/ \E d \in Devs : open' = [open EXCEPT ![t] = @ \cup {d}]
        BY <3>1 DEF Wrap, MayAllocate, Unused
      <4> QED
        BY <4>1 DEF AppType
    <3>2. CASE Close(t)
      <4>1. open' = open \/ \E d \in Devs : open' = [open EXCEPT ![t] = @ \ {d}]
        BY <3>2 DEF Close, AppType
      <4> QED
        BY <4>1 DEF AppType
    <3> QED
      BY <1>8, <3>1, <3>2
  <2> QED
    BY <2>1, <2>2 DEF AppType
<1>9. ASSUME NEW t \in Apps, Register(t) PROVE AppType'
  BY ZenonT(60), <1>9 DEF Register, MayRegister, AppType, Goto, Labels
<1>10. ASSUME UNCHANGED <<pc, mine, target, open>> PROVE AppType'
  BY <1>10 DEF AppType
<1> QED
  BY <1>2, <1>3, <1>4, <1>5, <1>6, <1>7, <1>8, <1>9, <1>10
  DEF Next, HotplugLock, Exiting, App, HandleEvents, Plug, Unplug, Receive, PollMore, ScanMore, ScanDone, Known, Gone,
      Allocate, EnumerateParent, Connect, Arrived, Disconnect, Left, Unreferenced, Scan, HotplugInit, Exit,
      FreeMessage, MessagesFreed, ReleaseListed, Released, OpenRefused, Deregister, PollError, TakeMessages,
      NextMessage, NextCallback, CallBack, MessageDone, StartSweep, Sweep, Swept, Finished

-----------------------------------------------------------------------------
\* --- who holds a device, part by part

In(d) == IF d \in Range(Kept) THEN 1 ELSE 0
HasList(d) == Having(mine, d)
HasHandle(d) == Having(open, d)
Outer(d) == In(d) + Said(d) + HasList(d) + HasHandle(d) + Aiming(d) + UnderWay(d)

LEMMA Parts ==
  ASSUME Finite, MsgType, EvType, NEW d
  PROVE  /\ In(d) \in Nat /\ Said(d) \in Nat /\ HasList(d) \in Nat /\ HasHandle(d) \in Nat
         /\ Aiming(d) \in Nat /\ UnderWay(d) \in Nat /\ Children(d) \in Nat /\ Outer(d) \in Nat
         /\ Holders(d) = Outer(d) + Children(d)
<1>1. In(d) \in Nat /\ UnderWay(d) \in Nat
  BY DEF In, UnderWay
<1>2. Leavings(msgs, d) \in Nat /\ Leavings(ev.msgs, d) \in Nat
  BY LeavingsNat DEF MsgType, EvType
<1>3. HasList(d) \in Nat /\ HasHandle(d) \in Nat /\ Aiming(d) \in Nat /\ Children(d) \in Nat
  BY HavingNat, AimingNat, ChildrenNat DEF HasList, HasHandle
<1>4. Holders(d) = In(d) + Leavings(msgs, d) + Leavings(ev.msgs, d) + HasList(d) + HasHandle(d) + Aiming(d)
                   + Children(d) + UnderWay(d)
  BY DEF Holders, In, HasList, HasHandle
<1>5. Said(d) = Leavings(msgs, d) + Leavings(ev.msgs, d)
  BY DEF Said
<1> QED
  BY <1>1, <1>2, <1>3, <1>4, <1>5 DEF Outer

LEMMA PartsNext ==
  ASSUME Finite, MsgType', EvType', NEW d
  PROVE  /\ In(d)' \in Nat /\ Said(d)' \in Nat /\ HasList(d)' \in Nat /\ HasHandle(d)' \in Nat
         /\ Aiming(d)' \in Nat /\ UnderWay(d)' \in Nat /\ Children(d)' \in Nat /\ Outer(d)' \in Nat
         /\ Holders(d)' = Outer(d)' + Children(d)'
<1>1. In(d)' \in Nat /\ UnderWay(d)' \in Nat
  BY DEF In, UnderWay
<1>2. Leavings(msgs, d)' \in Nat /\ Leavings(ev.msgs, d)' \in Nat
  BY LeavingsNat DEF MsgType, EvType
<1>3. HasList(d)' \in Nat /\ HasHandle(d)' \in Nat
  BY HavingNat DEF HasList, HasHandle
<1>4. Aiming(d)' \in Nat
  <2> DEFINE A == {t \in Apps : target'[t] = d}
  <2>1. IsFiniteSet(A)
    <3>1. IsFiniteSet(Apps) /\ A \in SUBSET Apps
      BY DEF Finite
    <3> QED
      BY <3>1, FS_Subset
  <2>2. Cardinality(A) \in Nat
    BY <2>1, FS_CardinalityType
  <2> QED
    BY <2>2 DEF Aiming
<1>5. Children(d)' \in Nat
  <2> DEFINE A == {c \in Devs : Alive(c)' /\ dev'[c].parent = d}
  <2>1. IsFiniteSet(A)
    <3>1. IsFiniteSet(Devs) /\ A \in SUBSET Devs
      BY DEF Finite
    <3> QED
      BY <3>1, FS_Subset
  <2>2. Cardinality(A) \in Nat
    BY <2>1, FS_CardinalityType
  <2> QED
    BY <2>2 DEF Children
<1>6. Holders(d)' = In(d)' + Leavings(msgs, d)' + Leavings(ev.msgs, d)' + HasList(d)' + HasHandle(d)' + Aiming(d)'
                   + Children(d)' + UnderWay(d)'
  BY DEF Holders, In, HasList, HasHandle
<1>7. Said(d)' = Leavings(msgs, d)' + Leavings(ev.msgs, d)'
  BY DEF Said
<1> QED
  BY <1>1, <1>2, <1>3, <1>4, <1>5, <1>6, <1>7 DEF Outer

\* Whoever holds a device keeps it alive.
LEMMA RefsMean ==
  ASSUME Finite, SafeInv
  PROVE  /\ Counted
         /\ \A d \in Devs : /\ Beside(d) = Outer(d) /\ Outer(d) \in Nat /\ dev[d].ref \in Nat
                            /\ Outer(d) > 0 => dev[d].ref > Children(d) /\ dev[d].ref > 0 /\ Alive(d)
<1>1. ASSUME NEW d \in Devs
      PROVE  /\ Beside(d) = Outer(d) /\ Outer(d) \in Nat /\ dev[d].ref \in Nat
             /\ Outer(d) > 0 => dev[d].ref > Children(d) /\ dev[d].ref > 0 /\ Alive(d)
             /\ dev[d].ref >= Children(d) /\ (Alive(d) <=> dev[d].ref > 0)
  <2>1. Outer(d) \in Nat /\ Children(d) \in Nat /\ Holders(d) = Outer(d) + Children(d)
    BY Parts DEF SafeInv, Types
  <2>2. dev[d].ref = Holders(d) /\ (Alive(d) <=> dev[d].ref > 0)
    BY DEF SafeInv, Refs
  <2>3. Beside(d) = dev[d].ref - Children(d)
    BY DEF Beside
  <2> QED
    BY <2>1, <2>2, <2>3
<1> QED
  BY <1>1 DEF Counted

LEMMA RefsAgain ==
  ASSUME Finite, MsgType', EvType', DevType',
         \A d \in Devs : Beside(d)' = Outer(d)' /\ (Alive(d)' <=> dev'[d].ref > 0)
  PROVE  Refs'
<1>1. ASSUME NEW d \in Devs PROVE dev'[d].ref = Holders(d)'
  <2>1. Outer(d)' \in Nat /\ Children(d)' \in Nat /\ Holders(d)' = Outer(d)' + Children(d)'
    BY PartsNext
  <2>2. Beside(d)' = dev'[d].ref - Children(d)'
    BY DEF Beside
  <2>3. dev'[d].ref \in Nat
    BY DEF DevType, Device
  <2> QED
    BY <2>1, <2>2, <2>3
<1> QED
  BY <1>1 DEF Refs

\* A holder that is not touched counts as before.
LEMMA Untouched ==
  ASSUME NEW d
  PROVE  /\ Kept' = Kept => In(d)' = In(d)
         /\ msgs' = msgs /\ ev'.msgs = ev.msgs => Said(d)' = Said(d)
         /\ mine' = mine => HasList(d)' = HasList(d)
         /\ open' = open => HasHandle(d)' = HasHandle(d)
         /\ target' = target => Aiming(d)' = Aiming(d)
         /\ hp' = hp => UnderWay(d)' = UnderWay(d)
         /\ dev' = dev => Children(d)' = Children(d)
<1>1. Kept' = Kept => In(d)' = In(d)
  BY DEF In
<1>2. msgs' = msgs /\ ev'.msgs = ev.msgs => Said(d)' = Said(d)
  BY DEF Said, Leavings
<1>3. mine' = mine => HasList(d)' = HasList(d)
  BY DEF HasList, Having
<1>4. open' = open => HasHandle(d)' = HasHandle(d)
  BY DEF HasHandle, Having
<1>5. target' = target => Aiming(d)' = Aiming(d)
  BY DEF Aiming
<1>6. hp' = hp => UnderWay(d)' = UnderWay(d)
  BY DEF UnderWay
<1>7. dev' = dev => Children(d)' = Children(d)
  BY DEF Children, Alive
<1> QED
  BY <1>1, <1>2, <1>3, <1>4, <1>5, <1>6, <1>7

LEMMA HasListUpdate ==
  ASSUME Finite, NEW t \in Apps, \A u \in Apps : u # t => mine'[u] = mine[u], NEW d
  PROVE  HasList(d)' + (IF d \in mine[t] THEN 1 ELSE 0) = HasList(d) + (IF d \in mine'[t] THEN 1 ELSE 0)
<1>1. Having(mine', d) + (IF d \in mine[t] THEN 1 ELSE 0) = Having(mine, d) + (IF d \in mine'[t] THEN 1 ELSE 0)
  BY HavingUpdate
<1> QED
  BY <1>1 DEF HasList

LEMMA HasHandleUpdate ==
  ASSUME Finite, NEW t \in Apps, \A u \in Apps : u # t => open'[u] = open[u], NEW d
  PROVE  HasHandle(d)' + (IF d \in open[t] THEN 1 ELSE 0) = HasHandle(d) + (IF d \in open'[t] THEN 1 ELSE 0)
<1>1. Having(open', d) + (IF d \in open[t] THEN 1 ELSE 0) = Having(open, d) + (IF d \in open'[t] THEN 1 ELSE 0)
  BY HavingUpdate
<1> QED
  BY <1>1 DEF HasHandle

-----------------------------------------------------------------------------
\* --- what the steps do to the counts

SameDevs == DevType' /\ SameButRef /\ Refs'

LEMMA Quiet ==
  ASSUME Finite, SafeInv, MsgType', EvType', dev' = dev, \A d \in Devs : Outer(d)' = Outer(d)
  PROVE  SameDevs
<1>1. DevType' /\ SameButRef
  BY DEF SafeInv, Types, DevType, SameButRef
<1>2. ASSUME NEW d \in Devs PROVE Beside(d)' = Outer(d)' /\ (Alive(d)' <=> dev'[d].ref > 0)
  <2>1. Beside(d) = Outer(d) /\ (Alive(d) <=> dev[d].ref > 0)
    BY RefsMean DEF Counted
  <2>2. Beside(d)' = Beside(d) /\ Alive(d)' = Alive(d)
    BY Untouched DEF Beside, Alive
  <2> QED
    BY <2>1, <2>2
<1> QED
  BY <1>1, <1>2, RefsAgain DEF SameDevs

LEMMA Released1 ==
  ASSUME Finite, Topology, Distinct, SafeInv, MsgType', EvType', NEW x \in Devs, dev' = Unref(dev, x), Outer(x) > 0,
         \A d \in Devs : Outer(d)' = Outer(d) - (IF d = x THEN 1 ELSE 0)
  PROVE  SameDevs
<1>1. Counted /\ dev[x].ref > Children(x) /\ \A d \in Devs : Beside(d) = Outer(d)
  BY RefsMean
<1>2. DevType /\ Families
  BY DEF SafeInv, Types
<1>3. /\ DevType' /\ SameButRef
      /\ \A d \in Devs : Beside(d)' = Beside(d) - (IF d = x THEN 1 ELSE 0)
      /\ \A d \in Devs : Alive(d)' <=> dev'[d].ref > 0
  BY <1>1, <1>2, UnrefEffect
<1> QED
  BY <1>1, <1>3, RefsAgain DEF SameDevs

LEMMA Referenced ==
  ASSUME Finite, SafeInv, MsgType', EvType', NEW S \in SUBSET Devs, dev' = RefAll(dev, S), \A x \in S : Outer(x) > 0,
         \A d \in Devs : Outer(d)' = Outer(d) + (IF d \in S THEN 1 ELSE 0)
  PROVE  SameDevs
<1>1. Counted /\ (\A x \in S : dev[x].ref > 0) /\ \A d \in Devs : Beside(d) = Outer(d)
  BY RefsMean
<1>2. DevType
  BY DEF SafeInv, Types
<1>3. /\ DevType' /\ SameButRef
      /\ \A d \in Devs : Beside(d)' = Beside(d) + (IF d \in S THEN 1 ELSE 0)
      /\ \A d \in Devs : Alive(d)' <=> dev'[d].ref > 0
  BY <1>1, <1>2, RefAllEffect
<1> QED
  BY <1>1, <1>3, RefsAgain DEF SameDevs

\* The hotplug lock changes hands, or its holder goes on, without a device.
LEMMA HpQuiet ==
  ASSUME Distinct, SafeInv, NEW d \in Devs,
         \/ Receive \/ PollMore \/ PollDone \/ EventDone \/ ScanMore \/ ScanDone \/ Known \/ Gone \/ Scan \/ PollError
         \/ \E t \in Apps : ListPoll(t) \/ OpenNoDevice(t)
  PROVE  UnderWay(d)' = UnderWay(d)
<1>1. CASE hp' = hp
  BY <1>1 DEF UnderWay
<1>2. CASE hp' # hp
  <2>1. hp.step \in {"idle", "next", "enumerate"}
    BY <1>2 DEF SafeInv, HpInv, Receive, PollMore, PollDone, EventDone, ScanMore, ScanDone, Known, Gone, Scan, PollError,
       ListPoll, OpenNoDevice, Lock
  <2>2. hp.new = NoDev /\ hp.child = NoDev
    BY <2>1 DEF SafeInv, HpInv
  <2>3. hp'.new = NoDev /\ hp'.child = NoDev
    <3>1. ASSUME PollMore \/ ScanMore \/ Known \/ Gone PROVE hp'.new = NoDev /\ hp'.child = NoDev
      BY <3>1, <2>2 DEF SafeInv, Types, HpType, PollMore, ScanMore, Known, Gone
    <3>2. ASSUME PollDone \/ EventDone \/ ScanDone PROVE hp'.new = NoDev /\ hp'.child = NoDev
      BY <3>2 DEF PollDone, EventDone, ScanDone, Unlock, Idle
    <3>3. ASSUME NEW o, NEW s, NEW i, Lock(o, s, i) PROVE hp'.new = NoDev /\ hp'.child = NoDev
      BY <3>3 DEF Lock, Idle
    <3>4. ASSUME Scan PROVE hp'.new = NoDev /\ hp'.child = NoDev
      BY <3>4 DEF Scan, Idle
    <3>5. ASSUME Receive \/ PollError \/ \E t \in Apps : ListPoll(t) \/ OpenNoDevice(t)
          PROVE  hp'.new = NoDev /\ hp'.child = NoDev
      BY <1>2, <3>3, <3>5 DEF Receive, PollError, ListPoll, OpenNoDevice
    <3> QED
      BY <3>1, <3>2, <3>4, <3>5
  <2> QED
    BY <2>2, <2>3 DEF UnderWay, Distinct
<1> QED
  BY <1>1, <1>2

LEMMA QuietSteps ==
  ASSUME Finite, Distinct, SafeInv, MsgType', EvType',
         \/ \E i \in Ids : Plug(i) \/ Unplug(i)
         \/ Receive \/ PollMore \/ PollDone \/ EventDone \/ ScanMore \/ ScanDone \/ Known \/ Gone
         \/ Scan \/ HotplugInit \/ Exit \/ MessagesFreed \/ Released
         \/ \E t \in Apps : \/ ListPoll(t) \/ OpenRefused(t) \/ OpenNoDevice(t) \/ Register(t)
                            \/ Registered(t) \/ Deregister(t)
         \/ PollError \/ NextMessage \/ NextCallback \/ CallBack \/ StartSweep \/ Sweep \/ Swept
         \/ UNCHANGED vars
  PROVE  SameDevs
<1> DEFINE Step == \/ \E i \in Ids : Plug(i) \/ Unplug(i)
                   \/ Receive \/ PollMore \/ PollDone \/ EventDone \/ ScanMore \/ ScanDone \/ Known \/ Gone
                   \/ Scan \/ HotplugInit \/ Exit \/ MessagesFreed \/ Released
                   \/ \E t \in Apps : \/ ListPoll(t) \/ OpenRefused(t) \/ OpenNoDevice(t) \/ Register(t)
                                      \/ Registered(t) \/ Deregister(t)
                   \/ PollError \/ NextMessage \/ NextCallback \/ CallBack \/ StartSweep \/ Sweep \/ Swept
                   \/ UNCHANGED vars
<1>1. dev' = dev /\ mine' = mine /\ open' = open /\ msgs' = msgs /\ ev'.msgs = ev.msgs
  <2>1. dev' = dev /\ mine' = mine /\ open' = open /\ msgs' = msgs
    BY DEF Plug, Unplug, Receive, PollMore, PollDone, EventDone, ScanMore, ScanDone, Known, Gone, Scan, HotplugInit, Exit,
       MessagesFreed, Released, ListPoll, OpenRefused, OpenNoDevice, Register, Registered, Deregister, PollError,
       NextMessage, NextCallback, CallBack, StartSweep, Sweep, Swept
  <2>2. ASSUME NextMessage \/ NextCallback \/ CallBack \/ StartSweep PROVE ev'.msgs = ev.msgs
    BY <2>2 DEF NextMessage, NextCallback, CallBack, StartSweep, SafeInv, Types, EvType
  <2>3. ASSUME Swept PROVE ev'.msgs = ev.msgs
    BY <2>3 DEF Swept, Resting, SafeInv, CbInv
  <2>4. ev' = ev \/ NextMessage \/ NextCallback \/ CallBack \/ StartSweep \/ Swept
    BY DEF Plug, Unplug, Receive, PollMore, PollDone, EventDone, ScanMore, ScanDone, Known, Gone, Scan, HotplugInit, Exit,
       MessagesFreed, Released, ListPoll, OpenRefused, OpenNoDevice, Register, Registered, Deregister, PollError, Sweep
  <2> QED
    BY <2>1, <2>2, <2>3, <2>4
<1>2. Kept' = Kept
  <2>1. ASSUME Scan \/ HotplugInit \/ Exit \/ MessagesFreed \/ Released PROVE Kept' = Kept
    BY <2>1 DEF Kept, Scan, HotplugInit, Exit, MessagesFreed, Released
  <2>2. ASSUME ScanDone PROVE Kept' = Kept
    <3>1. phase \notin {"devices", "end"}
      BY <2>2 DEF ScanDone, SafeInv, PhaseInv, Exits, Distinct
    <3> QED
      BY <2>2, <3>1 DEF Kept, ScanDone
  <2>3. ASSUME UNCHANGED <<listed, leaving, phase>> PROVE Kept' = Kept
    BY <2>3 DEF Kept
  <2> QED
  BY <2>1, <2>2, <2>3
  DEF Plug, Unplug, Receive, PollMore, PollDone, EventDone, ScanMore, Known, Gone, ListPoll, OpenRefused, OpenNoDevice, Register, Registered, Deregister,
     PollError, NextMessage, NextCallback, CallBack, StartSweep, Sweep, Swept
<1>3. ASSUME NEW d \in Devs PROVE Aiming(d)' = Aiming(d)
  <2>1. ASSUME NEW t \in Apps, Register(t) \/ Registered(t) PROVE Aiming(d)' = Aiming(d)
    <3>1. target' = target \/ \E x : x # d /\ target[t] # d /\ target' = [target EXCEPT ![t] = x]
      <4>1. CASE Register(t)
        <5>1. target[t] = NoDev
          BY <4>1 DEF Register, Next1, SafeInv, TargetInv
        <5> QED
          BY <4>1, <5>1 DEF Register, MayRegister, Distinct
      <4>2. CASE Registered(t)
        <5>1. target[t] \in Cbs
          BY <4>2 DEF Registered, SafeInv, TargetInv
        <5> QED
          BY <4>2, <5>1 DEF Registered, Distinct
      <4> QED
        BY <2>1, <4>1, <4>2
    <3>2. CASE target' = target
      BY <3>2, Untouched
    <3>3. CASE target' # target
      <4>1. PICK x : x # d /\ target[t] # d /\ target' = [target EXCEPT ![t] = x]
        BY <3>1, <3>3
      <4>2. Aiming(d)' + (IF target[t] = d THEN 1 ELSE 0) = Aiming(d) + (IF x = d THEN 1 ELSE 0)
        BY <4>1, AimingUpdate DEF SafeInv, Types
      <4>3. Aiming(d)' \in Nat /\ Aiming(d) \in Nat
        BY Parts, PartsNext DEF SafeInv, Types
      <4> QED
        BY <4>1, <4>2, <4>3
    <3> QED
      BY <3>2, <3>3
  <2>2. ASSUME target' = target PROVE Aiming(d)' = Aiming(d)
    BY <2>2, Untouched
  <2> QED
    BY <2>1, <2>2 DEF Plug, Unplug, Receive, PollMore, PollDone, EventDone, ScanMore, ScanDone, Known, Gone, Scan,
       HotplugInit, Exit, MessagesFreed, Released, ListPoll, OpenRefused, OpenNoDevice, Deregister,
       PollError, NextMessage, NextCallback, CallBack, StartSweep, Sweep, Swept
<1>4. ASSUME NEW d \in Devs PROVE UnderWay(d)' = UnderWay(d)
  <2>1. CASE hp' = hp
    BY <2>1, Untouched
  <2>2. CASE hp' # hp
    BY <2>2, HpQuiet DEF Plug, Unplug, HotplugInit, Exit, MessagesFreed, Released, OpenRefused, Register, Registered,
       Deregister, NextMessage, NextCallback, CallBack, StartSweep, Sweep, Swept
  <2> QED
    BY <2>1, <2>2
<1>5. ASSUME NEW d \in Devs PROVE Outer(d)' = Outer(d)
  <2>1. In(d)' = In(d) /\ Said(d)' = Said(d) /\ HasList(d)' = HasList(d) /\ HasHandle(d)' = HasHandle(d)
    BY <1>1, <1>2, Untouched
  <2> QED
    BY <2>1, <1>3, <1>4 DEF Outer
<1> QED
  BY <1>1, <1>5, Quiet

LEMMA ListWalkCounts ==
  ASSUME Finite, SafeInv, MsgType', EvType', NEW t \in Apps, ListWalk(t)
  PROVE  SameDevs
<1> DEFINE S == Range(listed)
<1>1. S \in SUBSET Devs
  BY RangeIs DEF SafeInv, Types, ListType
<1>2. mine[t] = {} /\ phase = "ready" /\ Kept = listed
  BY DEF ListWalk, SafeInv, TargetInv, PhaseInv, Kept
<1>3. /\ mine' = [mine EXCEPT ![t] = S] /\ dev' = RefAll(dev, S)
      /\ Kept' = Kept /\ msgs' = msgs /\ ev' = ev /\ open' = open /\ target' = target /\ hp' = hp
  BY <1>2 DEF ListWalk, Kept
<1>4. (\A u \in Apps : u # t => mine'[u] = mine[u]) /\ mine'[t] = S
  BY <1>3 DEF SafeInv, Types, AppType
<1>5. ASSUME NEW d \in Devs PROVE Outer(d)' = Outer(d) + (IF d \in S THEN 1 ELSE 0)
  <2>1. HasList(d)' = HasList(d) + (IF d \in S THEN 1 ELSE 0)
    <3>1. HasList(d)' + (IF d \in mine[t] THEN 1 ELSE 0) = HasList(d) + (IF d \in mine'[t] THEN 1 ELSE 0)
      BY <1>4, HasListUpdate
    <3>2. HasList(d)' \in Nat
      BY PartsNext
    <3> QED
      BY <3>1, <3>2, <1>2, <1>4
  <2>2. /\ In(d)' = In(d) /\ Said(d)' = Said(d) /\ HasHandle(d)' = HasHandle(d) /\ Aiming(d)' = Aiming(d)
        /\ UnderWay(d)' = UnderWay(d)
    BY <1>3, Untouched
  <2>3. In(d) \in Nat /\ Said(d) \in Nat /\ HasHandle(d) \in Nat /\ Aiming(d) \in Nat /\ UnderWay(d) \in Nat /\ HasList(d) \in Nat
    BY Parts DEF SafeInv, Types
  <2> QED
    BY <2>1, <2>2, <2>3 DEF Outer
<1>6. ASSUME NEW x \in S PROVE Outer(x) > 0
  <2>1. In(x) = 1
    BY <1>2 DEF In
  <2>2. Said(x) \in Nat /\ HasHandle(x) \in Nat /\ Aiming(x) \in Nat /\ UnderWay(x) \in Nat /\ HasList(x) \in Nat
    BY Parts DEF SafeInv, Types
  <2> QED
    BY <2>1, <2>2 DEF Outer
<1> HIDE DEF S
<1> QED
  BY <1>1, <1>3, <1>5, <1>6, Referenced

\* An element of a list is given back.
LEMMA ListedGivenBack ==
  ASSUME Finite, Topology, Distinct, SafeInv, MsgType', EvType', NEW t \in Apps, FreeList(t) \/ CallArrived(t)
  PROVE  SameDevs
<1>1. UNCHANGED <<listed, leaving, phase, msgs, ev, open, target, hp>>
  BY DEF FreeList, CallArrived
<1>2. CASE UNCHANGED <<mine, dev>>
  <2>1. \A d \in Devs : Outer(d)' = Outer(d)
    BY <1>1, <1>2, Untouched DEF Outer, Kept
  <2> QED
    BY <1>2, <2>1, Quiet
<1>3. CASE ~UNCHANGED <<mine, dev>>
  <2>1. PICK x \in mine[t] : mine' = [mine EXCEPT ![t] = @ \ {x}] /\ dev' = Unref(dev, x)
    BY <1>3 DEF FreeList, CallArrived
  <2>2. x \in Devs /\ (\A u \in Apps : u # t => mine'[u] = mine[u]) /\ mine'[t] = mine[t] \ {x}
    BY <2>1 DEF SafeInv, Types, AppType
  <2>3. ASSUME NEW d \in Devs PROVE Outer(d)' = Outer(d) - (IF d = x THEN 1 ELSE 0) /\ HasList(d) \in Nat /\ Outer(d) >= HasList(d)
    <3>1. HasList(d)' = HasList(d) - (IF d = x THEN 1 ELSE 0)
      <4>1. HasList(d)' + (IF d \in mine[t] THEN 1 ELSE 0) = HasList(d) + (IF d \in mine'[t] THEN 1 ELSE 0)
        BY <2>2, HasListUpdate
      <4>2. HasList(d)' \in Nat /\ HasList(d) \in Nat
        BY Parts, PartsNext DEF SafeInv, Types
      <4>3. CASE d = x
        <5>1. d \in mine[t] /\ d \notin mine'[t]
          BY <2>1, <2>2, <4>3
        <5> QED
          BY <4>1, <4>2, <4>3, <5>1
      <4>4. CASE d # x
        <5>1. d \in mine[t] <=> d \in mine'[t]
          BY <2>1, <2>2, <4>4
        <5> QED
          BY <4>1, <4>2, <4>4, <5>1
      <4> QED
        BY <4>3, <4>4
    <3>2. /\ In(d)' = In(d) /\ Said(d)' = Said(d) /\ HasHandle(d)' = HasHandle(d) /\ Aiming(d)' = Aiming(d)
          /\ UnderWay(d)' = UnderWay(d)
      BY <1>1, Untouched DEF Kept
    <3>3. In(d) \in Nat /\ Said(d) \in Nat /\ HasHandle(d) \in Nat /\ Aiming(d) \in Nat /\ UnderWay(d) \in Nat /\ HasList(d) \in Nat
      BY Parts DEF SafeInv, Types
    <3> QED
      BY <3>1, <3>2, <3>3 DEF Outer
  <2>4. HasList(x) > 0
    BY <2>1, HavingNat DEF HasList
  <2>5. Outer(x) > 0
    BY <2>2, <2>3, <2>4, Parts DEF SafeInv, Types
  <2> QED
    BY <2>1, <2>2, <2>3, <2>5, Released1
<1> QED
  BY <1>2, <1>3

LEMMA CloseCounts ==
  ASSUME Finite, Topology, Distinct, SafeInv, MsgType', EvType', NEW t \in Apps, Close(t)
  PROVE  SameDevs
<1>1. UNCHANGED <<listed, leaving, phase, msgs, ev, mine, target, hp>>
  BY DEF Close
<1>2. CASE UNCHANGED <<open, dev>>
  <2>1. \A d \in Devs : Outer(d)' = Outer(d)
    BY <1>1, <1>2, Untouched DEF Outer, Kept
  <2> QED
    BY <1>2, <2>1, Quiet
<1>3. CASE ~UNCHANGED <<open, dev>>
  <2>1. PICK x \in open[t] : open' = [open EXCEPT ![t] = @ \ {x}] /\ dev' = Unref(dev, x)
    BY <1>3 DEF Close
  <2>2. x \in Devs /\ (\A u \in Apps : u # t => open'[u] = open[u]) /\ open'[t] = open[t] \ {x}
    BY <2>1 DEF SafeInv, Types, AppType
  <2>3. ASSUME NEW d \in Devs PROVE Outer(d)' = Outer(d) - (IF d = x THEN 1 ELSE 0) /\ HasHandle(d) \in Nat /\ Outer(d) >= HasHandle(d)
    <3>1. HasHandle(d)' = HasHandle(d) - (IF d = x THEN 1 ELSE 0)
      <4>1. HasHandle(d)' + (IF d \in open[t] THEN 1 ELSE 0) = HasHandle(d) + (IF d \in open'[t] THEN 1 ELSE 0)
        BY <2>2, HasHandleUpdate
      <4>2. HasHandle(d)' \in Nat /\ HasHandle(d) \in Nat
        BY Parts, PartsNext DEF SafeInv, Types
      <4>3. CASE d = x
        <5>1. d \in open[t] /\ d \notin open'[t]
          BY <2>1, <2>2, <4>3
        <5> QED
          BY <4>1, <4>2, <4>3, <5>1
      <4>4. CASE d # x
        <5>1. d \in open[t] <=> d \in open'[t]
          BY <2>1, <2>2, <4>4
        <5> QED
          BY <4>1, <4>2, <4>4, <5>1
      <4> QED
        BY <4>3, <4>4
    <3>2. /\ In(d)' = In(d) /\ Said(d)' = Said(d) /\ HasList(d)' = HasList(d) /\ Aiming(d)' = Aiming(d)
          /\ UnderWay(d)' = UnderWay(d)
      BY <1>1, Untouched DEF Kept
    <3>3. In(d) \in Nat /\ Said(d) \in Nat /\ HasHandle(d) \in Nat /\ Aiming(d) \in Nat /\ UnderWay(d) \in Nat /\ HasList(d) \in Nat
      BY Parts DEF SafeInv, Types
    <3> QED
      BY <3>1, <3>2, <3>3 DEF Outer
  <2>4. HasHandle(x) > 0
    BY <2>1, HavingNat DEF HasHandle
  <2>5. Outer(x) > 0
    BY <2>2, <2>3, <2>4, Parts DEF SafeInv, Types
  <2> QED
    BY <2>1, <2>2, <2>3, <2>5, Released1
<1> QED
  BY <1>2, <1>3

LEMMA OpenCounts ==
  ASSUME Finite, Distinct, SafeInv, MsgType', EvType', NEW t \in Apps, Open(t)
  PROVE  SameDevs
<1>1. UNCHANGED <<listed, leaving, phase, msgs, ev, mine, open, hp>> /\ target[t] = NoDev
  BY DEF Open, Next1, SafeInv, TargetInv
<1>2. PICK x \in mine[t] : target' = [target EXCEPT ![t] = x] /\ dev' = Ref(dev, x)
  BY DEF Open
<1>3. x \in Devs /\ {x} \in SUBSET Devs
  BY <1>2 DEF SafeInv, Types, AppType
<1>4. dev' = RefAll(dev, {x})
  BY <1>2, <1>3 DEF SafeInv, Types, DevType, Ref, RefAll
<1>5. ASSUME NEW d \in Devs PROVE Outer(d)' = Outer(d) + (IF d \in {x} THEN 1 ELSE 0) /\ HasList(d) \in Nat /\ Outer(d) >= HasList(d)
  <2>1. Aiming(d)' = Aiming(d) + (IF d = x THEN 1 ELSE 0)
    <3>1. Aiming(d)' + (IF target[t] = d THEN 1 ELSE 0) = Aiming(d) + (IF x = d THEN 1 ELSE 0)
      BY <1>2, AimingUpdate DEF SafeInv, Types
    <3>2. Aiming(d)' \in Nat /\ target[t] # d
      BY <1>1, PartsNext DEF Distinct
    <3> QED
      BY <3>1, <3>2
  <2>2. /\ In(d)' = In(d) /\ Said(d)' = Said(d) /\ HasHandle(d)' = HasHandle(d) /\ HasList(d)' = HasList(d)
        /\ UnderWay(d)' = UnderWay(d)
    BY <1>1, Untouched DEF Kept
  <2>3. In(d) \in Nat /\ Said(d) \in Nat /\ HasHandle(d) \in Nat /\ Aiming(d) \in Nat /\ UnderWay(d) \in Nat /\ HasList(d) \in Nat
    BY Parts DEF SafeInv, Types
  <2> QED
    BY <2>1, <2>2, <2>3 DEF Outer
<1>6. Outer(x) > 0
  <2>1. HasList(x) > 0
    BY <1>2, HavingNat DEF HasList
  <2> QED
    BY <1>3, <1>5, <2>1, Parts DEF SafeInv, Types
<1> QED
  BY <1>3, <1>4, <1>5, <1>6, Referenced

LEMMA OpenedCounts ==
  ASSUME Finite, Distinct, SafeInv, MsgType', EvType', NEW t \in Apps, Opened(t)
  PROVE  SameDevs
<1>1. UNCHANGED <<dev, listed, leaving, phase, msgs, ev, mine, hp>>
  BY DEF Opened
<1>2. CASE UNCHANGED <<open, target>>
  <2>1. \A d \in Devs : Outer(d)' = Outer(d)
    BY <1>1, <1>2, Untouched DEF Outer, Kept
  <2> QED
    BY <1>1, <2>1, Quiet
<1>3. CASE ~UNCHANGED <<open, target>>
  <2>1. open' = [open EXCEPT ![t] = @ \cup {target[t]}] /\ target' = [target EXCEPT ![t] = NoDev]
    BY <1>3 DEF Opened
  <2>2. (\A u \in Apps : u # t => open'[u] = open[u]) /\ open'[t] = open[t] \cup {target[t]}
    BY <2>1 DEF SafeInv, Types, AppType
  <2>3. target[t] \in Devs /\ target[t] \notin open[t]
    BY DEF Opened, SafeInv, TargetInv
  <2>4. ASSUME NEW d \in Devs PROVE Outer(d)' = Outer(d)
    <3>1. HasHandle(d)' = HasHandle(d) + (IF d = target[t] THEN 1 ELSE 0)
      <4>1. HasHandle(d)' + (IF d \in open[t] THEN 1 ELSE 0) = HasHandle(d) + (IF d \in open'[t] THEN 1 ELSE 0)
        BY <2>2, HasHandleUpdate
      <4>2. HasHandle(d)' \in Nat /\ HasHandle(d) \in Nat
        BY Parts, PartsNext DEF SafeInv, Types
      <4>3. CASE d = target[t]
        <5>1. d \notin open[t] /\ d \in open'[t]
          BY <2>2, <2>3, <4>3
        <5> QED
          BY <4>1, <4>2, <4>3, <5>1
      <4>4. CASE d # target[t]
        <5>1. d \in open[t] <=> d \in open'[t]
          BY <2>2, <4>4
        <5> QED
          BY <4>1, <4>2, <4>4, <5>1
      <4> QED
        BY <4>3, <4>4
    <3>2. Aiming(d)' + (IF target[t] = d THEN 1 ELSE 0) = Aiming(d)
      <4>1. Aiming(d)' + (IF target[t] = d THEN 1 ELSE 0) = Aiming(d) + (IF NoDev = d THEN 1 ELSE 0)
        BY <2>1, AimingUpdate DEF SafeInv, Types
      <4>2. Aiming(d) \in Nat /\ NoDev # d
        BY Parts DEF SafeInv, Types, Distinct
      <4> QED
        BY <4>1, <4>2
    <3>3. In(d)' = In(d) /\ Said(d)' = Said(d) /\ HasList(d)' = HasList(d) /\ UnderWay(d)' = UnderWay(d)
      BY <1>1, Untouched DEF Kept
    <3>4. /\ In(d) \in Nat /\ Said(d) \in Nat /\ HasHandle(d) \in Nat /\ Aiming(d) \in Nat /\ UnderWay(d) \in Nat
          /\ HasList(d) \in Nat /\ Aiming(d)' \in Nat
      BY Parts, PartsNext DEF SafeInv, Types
    <3> QED
      BY <3>1, <3>2, <3>3, <3>4 DEF Outer
  <2> QED
    BY <1>1, <2>4, Quiet
<1> QED
  BY <1>2, <1>3

LEMMA OpenFailedCounts ==
  ASSUME Finite, Topology, Distinct, SafeInv, MsgType', EvType', NEW t \in Apps, OpenFailed(t)
  PROVE  SameDevs
<1> DEFINE x == target[t]
<1>1. UNCHANGED <<listed, leaving, phase, msgs, ev, mine, open, hp>> /\ dev' = Unref(dev, x)
      /\ target' = [target EXCEPT ![t] = NoDev]
  BY DEF OpenFailed
<1>2. x \in Devs
  BY DEF OpenFailed, SafeInv, TargetInv
<1>3. ASSUME NEW d \in Devs PROVE Outer(d)' = Outer(d) - (IF d = x THEN 1 ELSE 0) /\ Aiming(d) \in Nat /\ Outer(d) >= Aiming(d)
  <2>1. Aiming(d)' = Aiming(d) - (IF d = x THEN 1 ELSE 0)
    <3>1. Aiming(d)' + (IF target[t] = d THEN 1 ELSE 0) = Aiming(d) + (IF NoDev = d THEN 1 ELSE 0)
      BY <1>1, AimingUpdate DEF SafeInv, Types
    <3>2. Aiming(d)' \in Nat /\ Aiming(d) \in Nat /\ NoDev # d
      BY Parts, PartsNext DEF SafeInv, Types, Distinct
    <3> QED
      BY <3>1, <3>2
  <2>2. /\ In(d)' = In(d) /\ Said(d)' = Said(d) /\ HasHandle(d)' = HasHandle(d) /\ HasList(d)' = HasList(d)
        /\ UnderWay(d)' = UnderWay(d)
    BY <1>1, Untouched DEF Kept
  <2>3. In(d) \in Nat /\ Said(d) \in Nat /\ HasHandle(d) \in Nat /\ Aiming(d) \in Nat /\ UnderWay(d) \in Nat /\ HasList(d) \in Nat
    BY Parts DEF SafeInv, Types
  <2> QED
    BY <2>1, <2>2, <2>3 DEF Outer
<1>4. Aiming(x) > 0
  BY AimingNat
<1> HIDE DEF x
<1>5. Outer(x) > 0
  BY <1>2, <1>3, <1>4, Parts DEF SafeInv, Types
<1> QED
  BY <1>1, <1>2, <1>3, <1>5, Released1

\* The event thread takes the queue over.
LEMMA TakeMessagesCounts ==
  ASSUME Finite, SafeInv, MsgType', EvType', TakeMessages
  PROVE  SameDevs
<1>1. UNCHANGED <<dev, listed, leaving, phase, mine, open, target, hp>> /\ msgs' = <<>> /\ ev'.msgs = msgs /\ ev.msgs = <<>>
  BY DEF TakeMessages, SafeInv, CbInv
<1>2. ASSUME NEW d \in Devs PROVE Outer(d)' = Outer(d)
  <2>1. Said(d)' = Said(d)
    <3>1. Said(d)' = Leavings(<<>>, d) + Leavings(msgs, d) /\ Said(d) = Leavings(msgs, d) + Leavings(<<>>, d)
      BY <1>1 DEF Said
    <3>2. Leavings(msgs, d) \in Nat
      BY LeavingsNat DEF SafeInv, Types, MsgType
    <3> QED
      BY <3>1, <3>2, LeavingsEmpty
  <2>2. In(d)' = In(d) /\ HasList(d)' = HasList(d) /\ HasHandle(d)' = HasHandle(d) /\ Aiming(d)' = Aiming(d)
        /\ UnderWay(d)' = UnderWay(d)
    BY <1>1, Untouched DEF Kept
  <2> QED
    BY <2>1, <2>2 DEF Outer
<1> QED
  BY <1>1, <1>2, Quiet

\* A message that was processed, and one that never will be.
LEMMA MessageCounts ==
  ASSUME Finite, Topology, Distinct, SafeInv, MsgType', EvType', MessageDone \/ FreeMessage
  PROVE  SameDevs
<1> DEFINE q == IF MessageDone THEN ev.msgs ELSE msgs
           m == Head(q)
           x == m.dev
<1>1. /\ UNCHANGED <<listed, leaving, mine, open, target, hp>> /\ Kept' = Kept /\ Release(m)
      /\ q \in Seq(MessageType) /\ q # <<>>
      /\ MessageDone => msgs' = msgs /\ ev'.msgs = Tail(q)
      /\ ~MessageDone => ev' = ev /\ msgs' = Tail(q)
  <2>1. CASE MessageDone
    BY <2>1 DEF MessageDone, Kept, SafeInv, CbInv, Types, EvType
  <2>2. CASE ~MessageDone
    BY <2>2 DEF FreeMessage, Kept, SafeInv, Types, MsgType
  <2> QED
    BY <2>1, <2>2
<1> HIDE DEF q
<1>2. m \in MessageType /\ x \in Devs
  <2>1. m \in MessageType
    BY <1>1, Taken
  <2> QED
    BY <2>1 DEF MessageType
<1>3. ASSUME NEW d \in Devs
      PROVE  /\ Outer(d)' = Outer(d) - (IF m = Message("LEFT", d) THEN 1 ELSE 0)
             /\ m = Message("LEFT", d) => Outer(d) > 0
  <2>1. Leavings(q, d) = Leavings(Tail(q), d) + (IF m = Message("LEFT", d) THEN 1 ELSE 0)
        /\ Leavings(q, d) \in Nat /\ Leavings(Tail(q), d) \in Nat
    <3>1. Tail(q) \in Seq(MessageType)
      BY <1>1, Taken
    <3> QED
      BY <1>1, <3>1, LeavingsTail, LeavingsNat
  <2>2. /\ Said(d)' = Said(d) - (IF m = Message("LEFT", d) THEN 1 ELSE 0)
        /\ Said(d) >= Leavings(q, d)
    <3>1. Leavings(msgs, d) \in Nat /\ Leavings(ev.msgs, d) \in Nat
      BY LeavingsNat DEF SafeInv, Types, MsgType, EvType
    <3>2. CASE MessageDone
      <4>1. Said(d)' = Leavings(msgs, d) + Leavings(Tail(q), d) /\ Said(d) = Leavings(msgs, d) + Leavings(q, d)
        BY <1>1, <3>2 DEF Said, q
      <4> QED
        BY <2>1, <3>1, <4>1
    <3>3. CASE ~MessageDone
      <4>1. Said(d)' = Leavings(Tail(q), d) + Leavings(ev.msgs, d) /\ Said(d) = Leavings(q, d) + Leavings(ev.msgs, d)
        BY <1>1, <3>3 DEF Said, q
      <4> QED
        BY <2>1, <3>1, <4>1
    <3> QED
      BY <3>2, <3>3
  <2>3. In(d)' = In(d) /\ HasList(d)' = HasList(d) /\ HasHandle(d)' = HasHandle(d) /\ Aiming(d)' = Aiming(d)
        /\ UnderWay(d)' = UnderWay(d)
    BY <1>1, Untouched
  <2>4. In(d) \in Nat /\ Said(d) \in Nat /\ HasHandle(d) \in Nat /\ Aiming(d) \in Nat /\ UnderWay(d) \in Nat /\ HasList(d) \in Nat
    BY Parts DEF SafeInv, Types
  <2> HIDE DEF m
  <2>5. CASE m = Message("LEFT", d)
    BY <2>1, <2>2, <2>3, <2>4, <2>5 DEF Outer
  <2>6. CASE m # Message("LEFT", d)
    BY <2>2, <2>3, <2>4, <2>6 DEF Outer
  <2> QED
    BY <2>5, <2>6
<1>4. CASE m.event = "LEFT"
  <2>1. m = Message("LEFT", x) /\ \A d \in Devs : m = Message("LEFT", d) => d = x
    BY <1>2, <1>4 DEF MessageType, Message
  <2>2. dev' = Unref(dev, x)
    BY <1>1, <1>4 DEF Release
  <2> HIDE DEF m, x
  <2>3. Outer(x) > 0 /\ \A d \in Devs : Outer(d)' = Outer(d) - (IF d = x THEN 1 ELSE 0)
    BY <1>2, <1>3, <2>1
  <2> QED
    BY <1>2, <2>2, <2>3, Released1
<1>5. CASE m.event # "LEFT"
  <2>1. dev' = dev
    BY <1>1, <1>5 DEF Release
  <2>2. ASSUME NEW d \in Devs PROVE Outer(d)' = Outer(d)
    <3>1. m # Message("LEFT", d)
      BY <1>5 DEF Message
    <3>2. Outer(d) \in Nat
      BY Parts DEF SafeInv, Types
    <3> QED
      BY <1>3, <3>1, <3>2
  <2> QED
    BY <2>1, <2>2, Quiet
<1> QED
  BY <1>4, <1>5

LEMMA ReleaseListedCounts ==
  ASSUME Finite, Topology, Distinct, SafeInv, MsgType', EvType', ReleaseListed
  PROVE  SameDevs
<1> DEFINE x == Head(leaving)
<1>1. /\ UNCHANGED <<phase, msgs, ev, mine, open, target, hp>> /\ dev' = Unref(dev, x)
      /\ Kept = leaving /\ Kept' = Tail(leaving) /\ leaving # <<>>
  BY DEF ReleaseListed, Kept
<1>2. /\ x \in Devs /\ \A d : d \in Range(leaving) <=> d = x \/ d \in Range(Tail(leaving))
      /\ x \notin Range(Tail(leaving))
  BY <1>1, Taken DEF SafeInv, Types, ListType
<1> HIDE DEF x
<1>3. ASSUME NEW d \in Devs PROVE Outer(d)' = Outer(d) - (IF d = x THEN 1 ELSE 0)
  <2>1. In(d)' = In(d) - (IF d = x THEN 1 ELSE 0)
    BY <1>1, <1>2 DEF In
  <2>2. /\ Said(d)' = Said(d) /\ HasHandle(d)' = HasHandle(d) /\ HasList(d)' = HasList(d) /\ Aiming(d)' = Aiming(d)
        /\ UnderWay(d)' = UnderWay(d)
    BY <1>1, Untouched
  <2>3. In(d) \in Nat /\ Said(d) \in Nat /\ HasHandle(d) \in Nat /\ Aiming(d) \in Nat /\ UnderWay(d) \in Nat /\ HasList(d) \in Nat
    BY Parts DEF SafeInv, Types
  <2> QED
    BY <2>1, <2>2, <2>3 DEF Outer
<1>4. Outer(x) > 0
  <2>1. In(x) = 1
    BY <1>1, <1>2 DEF In
  <2>2. Said(x) \in Nat /\ HasHandle(x) \in Nat /\ Aiming(x) \in Nat /\ UnderWay(x) \in Nat /\ HasList(x) \in Nat
    BY Parts DEF SafeInv, Types
  <2> QED
    BY <2>1, <2>2 DEF Outer
<1> QED
  BY <1>1, <1>2, <1>3, <1>4, Released1

\* Inside the lock the context is not at its end, and its devices are the list.
LEMMA InLock ==
  ASSUME SafeInv, hp.owner # NoOne \/ hp.step # "idle"
  PROVE  phase \notin Exits /\ Kept = listed
BY DEF SafeInv, HpInv, PhaseInv, Exits, Kept

LEMMA LeftCounts ==
  ASSUME Finite, Distinct, SafeInv, MsgType', EvType', Left
  PROVE  SameDevs
<1> DEFINE x == hp.new
<1>1. /\ UNCHANGED <<dev, listed, leaving, phase, ev, mine, open, target>> /\ x \in Devs /\ hp.child = NoDev /\ hp.step = "left"
      /\ hp' = [hp EXCEPT !.step = "unref"] /\ ready
  BY DEF Left, SafeInv, HpInv, PhaseInv
<1>2. hp'.step = "unref" /\ hp'.new = x /\ hp'.child = NoDev
  BY <1>1 DEF SafeInv, Types, HpType
<1>3. msgs' = Append(msgs, Message("LEFT", x)) /\ Message("LEFT", x) \in MessageType
  BY <1>1 DEF Left, Notify, Message, MessageType
<1>4. ASSUME NEW d \in Devs PROVE Outer(d)' = Outer(d)
  <2>1. Said(d)' = Said(d) + (IF d = x THEN 1 ELSE 0)
    <3>1. Leavings(Append(msgs, Message("LEFT", x)), d)
            = Leavings(msgs, d) + (IF Message("LEFT", x) = Message("LEFT", d) THEN 1 ELSE 0)
      BY <1>3, LeavingsAppend DEF SafeInv, Types, MsgType
    <3>2. Message("LEFT", x) = Message("LEFT", d) <=> d = x
      BY DEF Message
    <3>3. Leavings(msgs, d) \in Nat /\ Leavings(ev.msgs, d) \in Nat
      BY LeavingsNat DEF SafeInv, Types, MsgType, EvType
    <3>4. Said(d)' = Leavings(Append(msgs, Message("LEFT", x)), d) + Leavings(ev.msgs, d)
          /\ Said(d) = Leavings(msgs, d) + Leavings(ev.msgs, d)
      BY <1>1, <1>3 DEF Said
    <3> QED
      BY <3>1, <3>2, <3>3, <3>4
  <2>2. UnderWay(d) = (IF d = x THEN 2 ELSE 0) /\ UnderWay(d)' = (IF d = x THEN 1 ELSE 0)
    BY <1>1, <1>2 DEF UnderWay, Distinct
  <2>3. In(d)' = In(d) /\ HasHandle(d)' = HasHandle(d) /\ HasList(d)' = HasList(d) /\ Aiming(d)' = Aiming(d)
    BY <1>1, Untouched DEF Kept
  <2>4. In(d) \in Nat /\ Said(d) \in Nat /\ HasHandle(d) \in Nat /\ Aiming(d) \in Nat /\ HasList(d) \in Nat
    BY Parts DEF SafeInv, Types
  <2> QED
    BY <2>1, <2>2, <2>3, <2>4 DEF Outer
<1> QED
  BY <1>1, <1>4, Quiet

LEMMA UnreferencedCounts ==
  ASSUME Finite, Topology, Distinct, SafeInv, MsgType', EvType', Unreferenced
  PROVE  SameDevs
<1> DEFINE x == hp.new
<1>1. /\ UNCHANGED <<listed, leaving, phase, msgs, ev, mine, open, target>> /\ x \in Devs /\ hp.child = NoDev
      /\ hp.step = "unref" /\ hp' = [hp EXCEPT !.step = "next", !.new = NoDev] /\ dev' = Unref(dev, x)
  BY DEF Unreferenced, SafeInv, HpInv
<1>2. hp'.step = "next" /\ hp'.new = NoDev /\ hp'.child = NoDev
  BY <1>1 DEF SafeInv, Types, HpType
<1>3. ASSUME NEW d \in Devs
      PROVE  Outer(d)' = Outer(d) - (IF d = x THEN 1 ELSE 0) /\ Outer(d) >= UnderWay(d) /\ UnderWay(d) = (IF d = x THEN 1 ELSE 0)
  <2>1. UnderWay(d) = (IF d = x THEN 1 ELSE 0) /\ UnderWay(d)' = 0
    BY <1>1, <1>2 DEF UnderWay, Distinct
  <2>2. In(d)' = In(d) /\ Said(d)' = Said(d) /\ HasHandle(d)' = HasHandle(d) /\ HasList(d)' = HasList(d)
        /\ Aiming(d)' = Aiming(d)
    BY <1>1, Untouched DEF Kept
  <2>3. In(d) \in Nat /\ Said(d) \in Nat /\ HasHandle(d) \in Nat /\ Aiming(d) \in Nat /\ HasList(d) \in Nat
    BY Parts DEF SafeInv, Types
  <2> QED
    BY <2>1, <2>2, <2>3 DEF Outer
<1>4. Outer(x) > 0
  BY <1>1, <1>3, Parts DEF SafeInv, Types
<1> HIDE DEF x
<1> QED
  BY <1>1, <1>3, <1>4, Released1

\* --- steps that change a device

SetAttached(x, b) ==
  \A d \in Devs : /\ dev'[d].id = dev[d].id /\ dev'[d].parent = dev[d].parent
                  /\ dev'[d].wrapped = dev[d].wrapped /\ dev'[d].state = dev[d].state
                  /\ dev'[d].attached = IF d = x THEN b ELSE dev[d].attached

LEMMA ConnectCounts ==
  ASSUME Finite, Distinct, SafeInv, MsgType', EvType', Connect
  PROVE  DevType' /\ Refs' /\ SetAttached(hp.new, TRUE)
<1> DEFINE x == hp.new
<1>1. /\ UNCHANGED <<leaving, phase, msgs, ev, mine, open, target>> /\ x \in Devs /\ x \notin Range(listed)
      /\ hp.step = "connect" /\ hp' = [hp EXCEPT !.step = "arrived"] /\ listed' = <<x>> \o listed
      /\ dev' = [dev EXCEPT ![x].attached = TRUE]
  BY DEF Connect, SafeInv, HpInv
<1>2. hp'.step = "arrived" /\ hp'.new = x /\ hp'.child = hp.child
  BY <1>1 DEF SafeInv, Types, HpType
<1>3. Kept = listed /\ Kept' = listed'
  BY <1>1, InLock DEF Kept, Exits
<1>4. ASSUME NEW d \in Devs PROVE Outer(d)' = Outer(d) /\ UnderWay(d) >= (IF d = x THEN 1 ELSE 0) /\ Outer(d) >= UnderWay(d)
  <2>1. UnderWay(d) = UnderWay(d)' + (IF d = x THEN 1 ELSE 0)
    BY <1>1, <1>2 DEF UnderWay, Distinct
  <2>2. In(d)' = In(d) + (IF d = x THEN 1 ELSE 0)
    <3>1. d \in Range(listed') <=> d = x \/ d \in Range(listed)
      BY <1>1, Prepended DEF SafeInv, Types, ListType
    <3> QED
      BY <1>1, <1>3, <3>1 DEF In
  <2>3. Said(d)' = Said(d) /\ HasHandle(d)' = HasHandle(d) /\ HasList(d)' = HasList(d) /\ Aiming(d)' = Aiming(d)
    BY <1>1, Untouched
  <2>4. In(d) \in Nat /\ Said(d) \in Nat /\ HasHandle(d) \in Nat /\ Aiming(d) \in Nat /\ HasList(d) \in Nat /\ UnderWay(d)' \in Nat
    BY Parts, PartsNext DEF SafeInv, Types
  <2> QED
    BY <2>1, <2>2, <2>3, <2>4 DEF Outer
<1>5. Counted /\ dev[x].ref > 0 /\ \A d \in Devs : Beside(d) = Outer(d) /\ Outer(d) \in Nat
  <2>1. Outer(x) > 0
    BY <1>1, <1>4, Parts DEF SafeInv, Types
  <2> QED
    BY <1>1, <2>1, RefsMean
<1>6. DevType /\ dev' = [dev EXCEPT ![x] = [dev[x] EXCEPT !.attached = TRUE, !.ref = dev[x].ref + 0]]
  <2>1. dev[x] \in Device /\ dev[x].ref \in Nat /\ DevType
    BY <1>1 DEF SafeInv, Types, DevType, Device
  <2>2. [dev[x] EXCEPT !.attached = TRUE] = [dev[x] EXCEPT !.attached = TRUE, !.ref = dev[x].ref + 0]
    <3> DEFINE v == dev[x]
    <3>1. v \in Device /\ v.ref + 0 = v.ref
      BY <2>1
    <3> HIDE DEF v
    <3>2. [v EXCEPT !.attached = TRUE] = [v EXCEPT !.attached = TRUE, !.ref = v.ref]
      BY <3>1 DEF Device
    <3> QED
      BY <3>1, <3>2 DEF v
  <2> QED
    BY <1>1, <2>1, <2>2 DEF DevType
<1> HIDE DEF x
<1>7. /\ DevType' /\ SetAttached(x, TRUE)
      /\ \A d \in Devs : Beside(d)' = Beside(d) + (IF d = x THEN 0 ELSE 0)
      /\ \A d \in Devs : Alive(d)' <=> dev'[d].ref > 0
  <2>1. TRUE \in BOOLEAN /\ 0 \in {0, 1}
    OBVIOUS
  <2> QED
    BY <1>1, <1>5, <1>6, <2>1, AttachedEffect DEF SetAttached
<1>8. Refs'
  BY <1>4, <1>5, <1>7, RefsAgain
<1> QED
  BY <1>7, <1>8 DEF x

LEMMA DisconnectCounts ==
  ASSUME Finite, Distinct, SafeInv, MsgType', EvType', Disconnect
  PROVE  \/ ListedAs(hp.id) = NoDev /\ UNCHANGED <<dev, listed>> /\ SameDevs
         \/ ListedAs(hp.id) # NoDev /\ DevType' /\ Refs' /\ SetAttached(ListedAs(hp.id), FALSE)
<1> DEFINE x == ListedAs(hp.id)
<1>1. /\ UNCHANGED <<leaving, phase, msgs, ev, mine, open, target>> /\ hp.step = "disconnect" /\ hp.new = NoDev /\ hp.child = NoDev
  BY DEF Disconnect, SafeInv, HpInv
<1>2. Kept = listed /\ Kept' = listed'
  BY <1>1, InLock DEF Kept, Exits
<1>3. CASE x = NoDev
  <2>1. UNCHANGED <<dev, listed>> /\ hp' = [hp EXCEPT !.step = "next"]
    BY <1>3 DEF Disconnect
  <2>2. hp'.new = NoDev /\ hp'.child = NoDev
    BY <1>1, <2>1 DEF SafeInv, Types, HpType
  <2>3. ASSUME NEW d \in Devs PROVE Outer(d)' = Outer(d)
    <3>1. UnderWay(d)' = UnderWay(d)
      BY <1>1, <2>2 DEF UnderWay, Distinct
    <3> QED
      BY <1>1, <1>2, <2>1, <3>1, Untouched DEF Outer
  <2> QED
    BY <1>3, <2>1, <2>3, Quiet
<1>4. CASE x # NoDev
  <2>1. x \in Devs /\ x \in Range(listed)
    BY <1>4, ListedAsIs DEF SafeInv, Types
  <2>2. /\ dev' = Ref([dev EXCEPT ![x].attached = FALSE], x) /\ listed' = RemoveFirst(listed, x)
        /\ hp' = [hp EXCEPT !.step = "left", !.new = x]
    BY <1>4 DEF Disconnect
  <2>3. hp'.new = x /\ hp'.child = NoDev /\ hp'.step = "left"
    BY <1>1, <2>2 DEF SafeInv, Types, HpType
  <2>4. DevType /\ dev' = [dev EXCEPT ![x] = [dev[x] EXCEPT !.attached = FALSE, !.ref = dev[x].ref + 1]]
    <3>1. dev[x] \in Device /\ DevType
      BY <2>1 DEF SafeInv, Types, DevType
    <3> QED
      BY <2>1, <2>2, <3>1 DEF DevType, Device, Ref
  <2> HIDE DEF x
  <2>5. ASSUME NEW d \in Devs PROVE Outer(d)' = Outer(d) + (IF d = x THEN 1 ELSE 0)
    <3>1. UnderWay(d) = 0 /\ UnderWay(d)' = (IF d = x THEN 2 ELSE 0)
      BY <1>1, <2>3 DEF UnderWay, Distinct
    <3>2. In(d)' = In(d) - (IF d = x THEN 1 ELSE 0)
      <4>1. d \in Range(listed') <=> d \in Range(listed) /\ d # x
        BY <2>2, Unlisted DEF SafeInv, Types, ListType
      <4> QED
        BY <1>2, <2>1, <4>1 DEF In
    <3>3. Said(d)' = Said(d) /\ HasHandle(d)' = HasHandle(d) /\ HasList(d)' = HasList(d) /\ Aiming(d)' = Aiming(d)
      BY <1>1, Untouched
    <3>4. In(d) \in Nat /\ Said(d) \in Nat /\ HasHandle(d) \in Nat /\ Aiming(d) \in Nat /\ HasList(d) \in Nat
      BY Parts DEF SafeInv, Types
    <3> QED
      BY <3>1, <3>2, <3>3, <3>4 DEF Outer
  <2>6. Counted /\ dev[x].ref > 0 /\ \A d \in Devs : Beside(d) = Outer(d) /\ Outer(d) \in Nat
    <3>1. Outer(x) > 0
      <4>1. In(x) = 1
        BY <1>2, <2>1 DEF In
      <4>2. Said(x) \in Nat /\ HasHandle(x) \in Nat /\ Aiming(x) \in Nat /\ UnderWay(x) \in Nat /\ HasList(x) \in Nat
        BY Parts DEF SafeInv, Types
      <4> QED
        BY <4>1, <4>2 DEF Outer
    <3> QED
      BY <2>1, <3>1, RefsMean
  <2>7. /\ DevType' /\ SetAttached(x, FALSE)
        /\ \A d \in Devs : Beside(d)' = Beside(d) + (IF d = x THEN 1 ELSE 0)
        /\ \A d \in Devs : Alive(d)' <=> dev'[d].ref > 0
    <3>1. FALSE \in BOOLEAN /\ 1 \in {0, 1}
      OBVIOUS
    <3> QED
      BY <2>1, <2>4, <2>6, <3>1, AttachedEffect DEF SetAttached
  <2>8. Refs'
    BY <2>5, <2>6, <2>7, RefsAgain
  <2> QED
    BY <1>4, <2>7, <2>8 DEF x
<1> QED
  BY <1>3, <1>4

\* A device that was not used yet is held by nobody.
LEMMA UnusedIs ==
  ASSUME Finite, SafeInv, NEW x \in Unused
  PROVE  x \in Devs /\ dev[x].state = "unused" /\ dev[x].ref = 0 /\ Outer(x) = 0 /\ ~Alive(x)
<1>1. x \in Devs /\ dev[x].state = "unused" /\ ~Alive(x)
  BY DEF Unused, Alive
<1>2. dev[x].ref = 0
  BY <1>1, RefsMean DEF Counted
<1>3. Outer(x) \in Nat /\ Children(x) \in Nat /\ Holders(x) = Outer(x) + Children(x)
  BY Parts DEF SafeInv, Types
<1>4. dev[x].ref = Holders(x)
  BY <1>1 DEF SafeInv, Refs
<1> QED
  BY <1>1, <1>2, <1>3, <1>4

\* What a new device is.
IsNew(x, i, p, b) ==
  /\ x \in Devs /\ dev[x].state = "unused"
  /\ \A d \in Devs : d # x => /\ dev'[d].id = dev[d].id /\ dev'[d].parent = dev[d].parent
                              /\ dev'[d].attached = dev[d].attached /\ dev'[d].wrapped = dev[d].wrapped
                              /\ dev'[d].state = dev[d].state
  /\ dev'[x].id = i /\ dev'[x].parent = p /\ dev'[x].attached = b /\ dev'[x].wrapped = b /\ dev'[x].state = "alive"

Fresh(i, p, b) == [id |-> i, parent |-> p, ref |-> 1, attached |-> b, wrapped |-> b, state |-> "alive"]

LEMMA FreshIs ==
  ASSUME NEW i \in Ids, NEW p \in Pointers, NEW b \in BOOLEAN
  PROVE  /\ Fresh(i, p, b) \in Device /\ Fresh(i, p, b).ref = 1 /\ Fresh(i, p, b).state = "alive"
         /\ Fresh(i, p, b).parent = p /\ Fresh(i, p, b).id = i /\ Fresh(i, p, b).attached = b
         /\ Fresh(i, p, b).wrapped = b
BY DEF Device, Fresh

LEMMA NewCounts ==
  ASSUME Finite, Distinct, SafeInv, MsgType', EvType', NEW x \in Unused, NEW i \in Ids, NEW p \in Pointers, NEW b \in BOOLEAN,
         p # NoDev => Outer(p) > 0,
         dev' = IF p = NoDev THEN [dev EXCEPT ![x] = Fresh(i, p, b)] ELSE Ref([dev EXCEPT ![x] = Fresh(i, p, b)], p),
         \A d \in Devs : Outer(d)' = Outer(d) + (IF d = x THEN 1 ELSE 0)
  PROVE  DevType' /\ Refs' /\ IsNew(x, i, p, b)
<1> DEFINE n == Fresh(i, p, b)
<1>2. n \in Device /\ n.ref = 1 /\ n.state = "alive" /\ n.parent = p /\ n.id = i /\ n.attached = b /\ n.wrapped = b
  BY FreshIs
<1>3. dev' = IF p = NoDev THEN [dev EXCEPT ![x] = n] ELSE Ref([dev EXCEPT ![x] = n], p)
  OBVIOUS
<1> HIDE DEF n
<1>4. x \in Devs /\ dev[x].state = "unused" /\ dev[x].ref = 0 /\ DevType /\ Counted
  BY UnusedIs, RefsMean DEF SafeInv, Types
<1>5. p # NoDev => dev[p].ref > 0
  <2>1. p # NoDev => p \in Devs
    BY DEF Pointers
  <2> QED
    BY <2>1, RefsMean
<1>6. DevType' /\ NewEffect(x, n, p)
  BY <1>2, <1>3, <1>4, <1>5, AllocateEffect
<1>7. Refs'
  <2>1. \A d \in Devs : Beside(d) = Outer(d)
    BY RefsMean
  <2> QED
    BY <1>6, <2>1, RefsAgain DEF NewEffect
<1>8. IsNew(x, i, p, b)
  BY <1>2, <1>4, <1>6 DEF NewEffect, IsNew
<1> QED
  BY <1>6, <1>7, <1>8

LEMMA AllocateCounts ==
  ASSUME Finite, Distinct, SafeInv, MsgType', EvType', Allocate
  PROVE  LET p == IF Parent[hp.id] = NoId THEN NoDev ELSE ListedAs(Parent[hp.id])
             x == CHOOSE d \in Unused : TRUE
         IN  DevType' /\ Refs' /\ IsNew(x, hp.id, p, FALSE)
<1> DEFINE p == IF Parent[hp.id] = NoId THEN NoDev ELSE ListedAs(Parent[hp.id])
           x == CHOOSE d \in Unused : TRUE
<1>1. /\ UNCHANGED <<listed, leaving, phase, msgs, ev, mine, open, target>> /\ hp.step = "enumerate" /\ hp.id \in Ids
      /\ hp.new = NoDev /\ hp.child = NoDev
  BY DEF Allocate, SafeInv, HpInv
<1>2. x \in Unused /\ x \in Devs
  BY DEF Allocate, MayAllocate, Unused
<1>3. Kept = listed /\ Kept' = Kept
  BY <1>1, InLock DEF Kept
<1>4. p \in Pointers /\ (p # NoDev => p \in Range(listed))
  BY ListedAsIs DEF SafeInv, Types, Pointers
<1>5. dev' = IF p = NoDev THEN [dev EXCEPT ![x] = Fresh(hp.id, p, FALSE)] ELSE Ref([dev EXCEPT ![x] = Fresh(hp.id, p, FALSE)], p)
  BY DEF Allocate, NewDev, Fresh
<1>6. \/ hp' = [hp EXCEPT !.step = "parent", !.child = x] \/ hp' = [hp EXCEPT !.step = "connect", !.new = x]
  BY DEF Allocate
<1> HIDE DEF p, x
<1>7. \/ hp'.step = "parent" /\ hp'.child = x /\ hp'.new = NoDev
      \/ hp'.step = "connect" /\ hp'.new = x /\ hp'.child = NoDev
  BY <1>1, <1>6 DEF SafeInv, Types, HpType
<1>8. ASSUME NEW d \in Devs PROVE Outer(d)' = Outer(d) + (IF d = x THEN 1 ELSE 0)
  <2>1. UnderWay(d) = 0 /\ UnderWay(d)' = (IF d = x THEN 1 ELSE 0)
    BY <1>1, <1>2, <1>7 DEF UnderWay, Distinct
  <2>2. In(d)' = In(d) /\ Said(d)' = Said(d) /\ HasHandle(d)' = HasHandle(d) /\ HasList(d)' = HasList(d) /\ Aiming(d)' = Aiming(d)
    BY <1>1, <1>3, Untouched
  <2>3. In(d) \in Nat /\ Said(d) \in Nat /\ HasHandle(d) \in Nat /\ Aiming(d) \in Nat /\ HasList(d) \in Nat
    BY Parts DEF SafeInv, Types
  <2> QED
    BY <2>1, <2>2, <2>3 DEF Outer
<1>9. p # NoDev => Outer(p) > 0
  <2>1. p # NoDev => In(p) = 1
    BY <1>3, <1>4 DEF In
  <2>2. Said(p) \in Nat /\ HasHandle(p) \in Nat /\ Aiming(p) \in Nat /\ UnderWay(p) \in Nat /\ HasList(p) \in Nat
    BY Parts DEF SafeInv, Types
  <2> QED
    BY <2>1, <2>2 DEF Outer
<1>10. DevType' /\ Refs' /\ IsNew(x, hp.id, p, FALSE)
  BY <1>1, <1>2, <1>4, <1>5, <1>8, <1>9, NewCounts
<1> QED
  BY <1>10 DEF p, x

LEMMA EnumerateParentCounts ==
  ASSUME Finite, Distinct, SafeInv, MsgType', EvType', EnumerateParent
  PROVE  \/ Parent[hp.id] \notin plugged /\ SameDevs
         \/ /\ Parent[hp.id] \in plugged /\ DevType' /\ Refs'
            /\ IsNew(CHOOSE d \in Unused : TRUE, Parent[hp.id], NoDev, FALSE)
<1> DEFINE x == CHOOSE d \in Unused : TRUE
           i == Parent[hp.id]
<1>1. /\ UNCHANGED <<listed, leaving, phase, msgs, ev, mine, open, target>> /\ hp.step = "parent" /\ i \in Ids
      /\ hp.new = NoDev /\ hp.child # NoDev
  BY DEF EnumerateParent, SafeInv, HpInv
<1>2. Kept = listed /\ Kept' = Kept
  BY <1>1, InLock DEF Kept
<1>3. CASE i \notin plugged
  <2>1. dev' = dev /\ hp' = [hp EXCEPT !.step = "connect", !.new = hp.child, !.child = NoDev]
    BY <1>3 DEF EnumerateParent
  <2>2. hp'.step = "connect" /\ hp'.new = hp.child /\ hp'.child = NoDev
    BY <2>1 DEF SafeInv, Types, HpType
  <2>3. ASSUME NEW d \in Devs PROVE Outer(d)' = Outer(d)
    <3>1. UnderWay(d)' = UnderWay(d)
      BY <1>1, <2>2 DEF UnderWay, Distinct
    <3> QED
      BY <1>1, <1>2, <3>1, Untouched DEF Outer
  <2> QED
    BY <1>3, <2>1, <2>3, Quiet
<1>4. CASE i \in plugged
  <2>1. x \in Unused /\ x \in Devs
    BY <1>4 DEF EnumerateParent, MayAllocate, Unused
  <2>2. dev' = [dev EXCEPT ![x] = Fresh(i, NoDev, FALSE)] /\ hp' = [hp EXCEPT !.step = "connect", !.new = x]
    BY <1>4 DEF EnumerateParent, NewDev, Fresh
  <2> HIDE DEF x, i
  <2>3. hp'.step = "connect" /\ hp'.new = x /\ hp'.child = hp.child
    BY <2>2 DEF SafeInv, Types, HpType
  <2>4. ASSUME NEW d \in Devs PROVE Outer(d)' = Outer(d) + (IF d = x THEN 1 ELSE 0)
    <3>1. UnderWay(d)' = UnderWay(d) + (IF d = x THEN 1 ELSE 0)
      BY <1>1, <2>1, <2>3 DEF UnderWay, Distinct
    <3>2. In(d)' = In(d) /\ Said(d)' = Said(d) /\ HasHandle(d)' = HasHandle(d) /\ HasList(d)' = HasList(d) /\ Aiming(d)' = Aiming(d)
      BY <1>1, <1>2, Untouched
    <3>3. /\ In(d) \in Nat /\ Said(d) \in Nat /\ HasHandle(d) \in Nat /\ Aiming(d) \in Nat /\ HasList(d) \in Nat
          /\ UnderWay(d) \in Nat
      BY Parts DEF SafeInv, Types
    <3> QED
      BY <3>1, <3>2, <3>3 DEF Outer
  <2>5. DevType' /\ Refs' /\ IsNew(x, i, NoDev, FALSE)
    <3>1. NoDev \in Pointers /\ FALSE \in BOOLEAN
      BY DEF Pointers
    <3> QED
      BY <1>1, <2>1, <2>2, <2>4, <3>1, NewCounts
  <2> QED
    BY <1>4, <2>5 DEF x, i
<1> QED
  BY <1>3, <1>4

LEMMA WrapCounts ==
  ASSUME Finite, Distinct, SafeInv, MsgType', EvType', NEW t \in Apps, Wrap(t)
  PROVE  \/ UNCHANGED dev /\ SameDevs
         \/ DevType' /\ Refs' /\ \E i \in Ids : IsNew(CHOOSE d \in Unused : TRUE, i, NoDev, TRUE)
<1> DEFINE x == CHOOSE d \in Unused : TRUE
<1>1. UNCHANGED <<listed, leaving, phase, msgs, ev, mine, hp, target>>
  BY DEF Wrap
<1>2. CASE UNCHANGED <<dev, open>>
  <2>1. \A d \in Devs : Outer(d)' = Outer(d)
    BY <1>1, <1>2, Untouched DEF Outer, Kept
  <2> QED
    BY <1>2, <2>1, Quiet
<1>3. CASE ~UNCHANGED <<dev, open>>
  <2>1. x \in Unused /\ x \in Devs
    BY <1>3 DEF Wrap, MayAllocate, Unused
  <2>2. PICK i \in plugged : /\ dev' = [dev EXCEPT ![x] = [NewDev(i, NoDev) EXCEPT !.attached = TRUE, !.wrapped = TRUE]]
                             /\ open' = [open EXCEPT ![t] = @ \cup {x}]
    BY <1>3 DEF Wrap
  <2> HIDE DEF x
  <2>3. i \in Ids /\ dev' = [dev EXCEPT ![x] = Fresh(i, NoDev, TRUE)]
    <3>1. i \in Ids
      BY DEF SafeInv, Types, BusType
    <3>2. [NewDev(i, NoDev) EXCEPT !.attached = TRUE, !.wrapped = TRUE] = Fresh(i, NoDev, TRUE)
      <4> DEFINE r == NewDev(i, NoDev)
                 v == [r EXCEPT !.attached = TRUE, !.wrapped = TRUE]
      <4>1. /\ r \in Device /\ r.id = i /\ r.parent = NoDev /\ r.ref = 1 /\ r.state = "alive"
        BY <3>1 DEF NewDev, Device, Pointers
      <4> HIDE DEF r
      <4>2. /\ v \in Device /\ v.id = i /\ v.parent = NoDev /\ v.ref = 1 /\ v.state = "alive"
            /\ v.attached = TRUE /\ v.wrapped = TRUE
        BY <4>1 DEF Device
      <4>3. v = [id |-> i, parent |-> NoDev, ref |-> 1, attached |-> TRUE, wrapped |-> TRUE, state |-> "alive"]
        <5> HIDE DEF v
        <5> QED
          BY <4>2 DEF Device
      <4> QED
        BY <4>3 DEF Fresh, r
    <3> QED
      BY <2>2, <3>1, <3>2
  <2>4. (\A u \in Apps : u # t => open'[u] = open[u]) /\ open'[t] = open[t] \cup {x}
    BY <2>2 DEF SafeInv, Types, AppType
  <2>5. x \notin open[t]
    <3>1. Outer(x) = 0
      BY <2>1, UnusedIs
    <3>2. In(x) \in Nat /\ Said(x) \in Nat /\ HasHandle(x) \in Nat /\ Aiming(x) \in Nat /\ UnderWay(x) \in Nat /\ HasList(x) \in Nat
      BY Parts DEF SafeInv, Types
    <3>3. Outer(x) >= HasHandle(x)
      BY <3>2 DEF Outer
    <3>4. HasHandle(x) = 0
      BY <3>1, <3>2, <3>3
    <3> QED
      BY <3>4, HavingNat DEF HasHandle
  <2>6. ASSUME NEW d \in Devs PROVE Outer(d)' = Outer(d) + (IF d = x THEN 1 ELSE 0)
    <3>1. HasHandle(d)' = HasHandle(d) + (IF d = x THEN 1 ELSE 0)
      <4>1. HasHandle(d)' + (IF d \in open[t] THEN 1 ELSE 0) = HasHandle(d) + (IF d \in open'[t] THEN 1 ELSE 0)
        BY <2>4, HasHandleUpdate
      <4>2. HasHandle(d)' \in Nat /\ HasHandle(d) \in Nat
        BY Parts, PartsNext DEF SafeInv, Types
      <4>3. CASE d = x
        <5>1. d \notin open[t] /\ d \in open'[t]
          BY <2>4, <2>5, <4>3
        <5> QED
          BY <4>1, <4>2, <4>3, <5>1
      <4>4. CASE d # x
        <5>1. d \in open[t] <=> d \in open'[t]
          BY <2>4, <4>4
        <5> QED
          BY <4>1, <4>2, <4>4, <5>1
      <4> QED
        BY <4>3, <4>4
    <3>2. In(d)' = In(d) /\ Said(d)' = Said(d) /\ HasList(d)' = HasList(d) /\ Aiming(d)' = Aiming(d) /\ UnderWay(d)' = UnderWay(d)
      BY <1>1, Untouched DEF Kept
    <3>3. In(d) \in Nat /\ Said(d) \in Nat /\ HasHandle(d) \in Nat /\ Aiming(d) \in Nat /\ UnderWay(d) \in Nat /\ HasList(d) \in Nat
      BY Parts DEF SafeInv, Types
    <3> QED
      BY <3>1, <3>2, <3>3 DEF Outer
  <2>7. DevType' /\ Refs' /\ IsNew(x, i, NoDev, TRUE)
    <3>1. NoDev \in Pointers /\ TRUE \in BOOLEAN
      BY DEF Pointers
    <3> QED
      BY <2>1, <2>3, <2>6, <3>1, NewCounts
  <2> QED
    BY <2>3, <2>7 DEF x
<1> QED
  BY <1>2, <1>3

\* The child of a hub that was enumerated on the way goes on.
Adopts ==
  \A d \in Devs : /\ dev'[d].id = dev[d].id /\ dev'[d].parent = IF d = hp.child THEN hp.new ELSE dev[d].parent
                  /\ dev'[d].attached = dev[d].attached /\ dev'[d].wrapped = dev[d].wrapped
                  /\ dev'[d].state = dev[d].state

LEMMA ArrivedCounts ==
  ASSUME Finite, Topology, Distinct, SafeInv, MsgType', EvType', Arrived
  PROVE  \/ hp.child = NoDev /\ UNCHANGED dev /\ SameDevs
         \/ hp.child # NoDev /\ DevType' /\ Refs' /\ Adopts
<1> DEFINE x == hp.new
           c == hp.child
<1>1. /\ UNCHANGED <<listed, leaving, phase, ev, mine, open, target>> /\ hp.step = "arrived" /\ x \in Devs /\ x \in Range(listed)
  BY DEF Arrived, SafeInv, HpInv
<1>2. Kept = listed /\ Kept' = Kept
  BY <1>1, InLock DEF Kept
<1>3. ASSUME NEW d \in Devs PROVE Said(d)' = Said(d)
  <2>1. Message("ARRIVED", x) \in MessageType /\ Message("ARRIVED", x) # Message("LEFT", d)
    BY <1>1 DEF Message, MessageType
  <2>2. Leavings(Append(msgs, Message("ARRIVED", x)), d) = Leavings(msgs, d) + 0
    BY <2>1, LeavingsAppend DEF SafeInv, Types, MsgType
  <2>3. Leavings(msgs, d) \in Nat
    BY LeavingsNat DEF SafeInv, Types, MsgType
  <2>4. msgs' = msgs \/ msgs' = Append(msgs, Message("ARRIVED", x))
    BY DEF Arrived, Notify
  <2>5. Said(d)' = Leavings(msgs', d) + Leavings(ev.msgs, d)
    BY <1>1 DEF Said
  <2>6. Leavings(msgs', d) = Leavings(msgs, d)
    <3>1. CASE msgs' = msgs
      BY <3>1
    <3>2. CASE msgs' # msgs
      <4>1. Leavings(msgs', d) = Leavings(msgs, d) + 0
        BY <2>2, <2>4, <3>2
      <4> QED
        BY <2>3, <4>1
    <3> QED
      BY <3>1, <3>2
  <2> QED
    BY <2>5, <2>6 DEF Said
<1>4. CASE c = NoDev
  <2>1. dev' = dev /\ hp' = [hp EXCEPT !.step = "next", !.new = NoDev]
    BY <1>4 DEF Arrived
  <2>2. hp'.step = "next" /\ hp'.new = NoDev /\ hp'.child = NoDev
    BY <1>4, <2>1 DEF SafeInv, Types, HpType
  <2>3. ASSUME NEW d \in Devs PROVE Outer(d)' = Outer(d)
    <3>1. UnderWay(d)' = UnderWay(d)
      BY <1>1, <1>4, <2>2 DEF UnderWay, Distinct
    <3> QED
      BY <1>1, <1>2, <1>3, <3>1, Untouched DEF Outer
  <2> QED
    BY <1>4, <2>1, <2>3, Quiet
<1>5. CASE c # NoDev
  <2>1. dev' = Ref([dev EXCEPT ![c].parent = x], x) /\ hp' = [hp EXCEPT !.step = "connect", !.new = hp.child, !.child = NoDev]
    BY <1>5 DEF Arrived
  <2>2. hp'.step = "connect" /\ hp'.new = c /\ hp'.child = NoDev
    BY <2>1 DEF SafeInv, Types, HpType
  <2>3. c \in Devs /\ c \notin Range(listed) /\ dev[c].parent = NoDev
    BY <1>5 DEF SafeInv, HpInv, Types, HpType, Pointers
  <2>4. ASSUME NEW d \in Devs PROVE Outer(d)' = Outer(d)
    <3>1. UnderWay(d)' = UnderWay(d)
      BY <1>1, <1>5, <2>2, <2>3 DEF UnderWay, Distinct
    <3> QED
      BY <1>1, <1>2, <1>3, <3>1, Untouched DEF Outer
  <2>5. Outer(c) > 0 /\ Outer(x) > 0
    <3>1. UnderWay(c) > 0 /\ In(x) = 1
      BY <1>1, <1>2 DEF UnderWay, In
    <3>2. In(c) \in Nat /\ Said(c) \in Nat /\ HasHandle(c) \in Nat /\ Aiming(c) \in Nat /\ UnderWay(c) \in Nat /\ HasList(c) \in Nat
      BY Parts DEF SafeInv, Types
    <3>3. Said(x) \in Nat /\ HasHandle(x) \in Nat /\ Aiming(x) \in Nat /\ UnderWay(x) \in Nat /\ HasList(x) \in Nat
      BY Parts DEF SafeInv, Types
    <3> QED
      BY <3>1, <3>2, <3>3 DEF Outer
  <2>6. Counted /\ DevType /\ dev[c].ref > 0 /\ dev[x].ref > 0 /\ c # x /\ \A d \in Devs : Beside(d) = Outer(d)
    BY <1>1, <2>3, <2>5, RefsMean DEF SafeInv, Types
  <2> HIDE DEF x, c
  <2>7. /\ DevType'
        /\ \A d \in Devs : /\ dev'[d].id = dev[d].id /\ dev'[d].parent = IF d = c THEN x ELSE dev[d].parent
                           /\ dev'[d].attached = dev[d].attached /\ dev'[d].wrapped = dev[d].wrapped
                           /\ dev'[d].state = dev[d].state
        /\ \A d \in Devs : Beside(d)' = Beside(d)
        /\ \A d \in Devs : Alive(d)' <=> dev'[d].ref > 0
    BY <1>1, <2>1, <2>3, <2>6, AdoptEffect
  <2>8. Refs'
    BY <2>4, <2>6, <2>7, RefsAgain
  <2> QED
    BY <1>5, <2>7, <2>8 DEF Adopts, x, c
<1> QED
  BY <1>4, <1>5

\* What a step does to the devices, and that the counts are right after it.
NextNew == CHOOSE d \in Unused : TRUE
HubOf(i) == IF Parent[i] = NoId THEN NoDev ELSE ListedAs(Parent[i])
DevStep ==
  \/ SameButRef
  \/ Connect /\ SetAttached(hp.new, TRUE)
  \/ Disconnect /\ ListedAs(hp.id) # NoDev /\ SetAttached(ListedAs(hp.id), FALSE)
  \/ Allocate /\ IsNew(NextNew, hp.id, HubOf(hp.id), FALSE)
  \/ EnumerateParent /\ Parent[hp.id] \in plugged /\ IsNew(NextNew, Parent[hp.id], NoDev, FALSE)
  \/ (\E t \in Apps : Wrap(t)) /\ \E i \in Ids : IsNew(NextNew, i, NoDev, TRUE)
  \/ Arrived /\ hp.child # NoDev /\ Adopts

LEMMA CountsNext ==
  ASSUME Finite, Topology, Distinct, SafeInv, MsgType', EvType', [Next]_vars
  PROVE  DevType' /\ Refs' /\ DevStep
<1>1. CASE SameDevs
  BY <1>1 DEF SameDevs, DevStep
<1>2. CASE Connect
  BY <1>2, ConnectCounts DEF DevStep
<1>3. CASE Disconnect
  BY <1>3, DisconnectCounts DEF DevStep, SameDevs
<1>4. CASE Allocate
  BY <1>4, AllocateCounts DEF DevStep, NextNew, HubOf
<1>5. CASE EnumerateParent
  BY <1>5, EnumerateParentCounts DEF DevStep, NextNew, SameDevs
<1>6. CASE \E t \in Apps : Wrap(t)
  <2>1. PICK t \in Apps : Wrap(t)
    BY <1>6
  <2>2. \/ UNCHANGED dev /\ SameDevs
        \/ DevType' /\ Refs' /\ \E i \in Ids : IsNew(NextNew, i, NoDev, TRUE)
    BY <2>1, WrapCounts DEF NextNew
  <2> QED
    BY <2>1, <2>2 DEF DevStep, SameDevs
<1>7. CASE Arrived
  BY <1>7, ArrivedCounts DEF DevStep, SameDevs
<1>8. CASE \E t \in Apps : ListWalk(t) \/ FreeList(t) \/ CallArrived(t) \/ Close(t) \/ Open(t) \/ Opened(t) \/ OpenFailed(t)
  BY <1>1, <1>8, ListWalkCounts, ListedGivenBack, CloseCounts, OpenCounts, OpenedCounts, OpenFailedCounts
<1>9. CASE TakeMessages \/ MessageDone \/ FreeMessage \/ ReleaseListed \/ Left \/ Unreferenced
  BY <1>1, <1>9, TakeMessagesCounts, MessageCounts, ReleaseListedCounts, LeftCounts, UnreferencedCounts
<1>10. CASE \/ \E i \in Ids : Plug(i) \/ Unplug(i)
            \/ Receive \/ PollMore \/ PollDone \/ EventDone \/ ScanMore \/ ScanDone \/ Known \/ Gone
            \/ Scan \/ HotplugInit \/ Exit \/ MessagesFreed \/ Released
            \/ \E t \in Apps : \/ ListPoll(t) \/ OpenRefused(t) \/ OpenNoDevice(t) \/ Register(t)
                               \/ Registered(t) \/ Deregister(t)
            \/ PollError \/ NextMessage \/ NextCallback \/ CallBack \/ StartSweep \/ Sweep \/ Swept
            \/ UNCHANGED vars
  BY <1>1, <1>10, QuietSteps
<1> QED
  BY <1>2, <1>3, <1>4, <1>5, <1>6, <1>7, <1>8, <1>9, <1>10 DEF Next, HotplugLock, Exiting, App, HandleEvents, Finished

\* --- the rest of the invariant, conjunct by conjunct

LEMMA HeldIsAlive ==
  ASSUME Finite, SafeInv, NEW d \in Devs,
         \/ d \in Range(Kept) \/ Said(d) > 0 \/ UnderWay(d) > 0
         \/ \E t \in Apps : d \in mine[t] \/ d \in open[t] \/ d = target[t]
  PROVE  Alive(d) /\ dev[d].state = "alive" /\ Outer(d) > 0 /\ d \notin Unused
<1>1. In(d) \in Nat /\ Said(d) \in Nat /\ HasHandle(d) \in Nat /\ Aiming(d) \in Nat /\ UnderWay(d) \in Nat /\ HasList(d) \in Nat
  BY Parts DEF SafeInv, Types
<1>2. In(d) > 0 \/ Said(d) > 0 \/ UnderWay(d) > 0 \/ HasList(d) > 0 \/ HasHandle(d) > 0 \/ Aiming(d) > 0
  <2>1. d \in Range(Kept) => In(d) > 0
    BY DEF In
  <2>2. (\E t \in Apps : d \in mine[t]) => HasList(d) > 0
    BY HavingNat DEF HasList
  <2>3. (\E t \in Apps : d \in open[t]) => HasHandle(d) > 0
    BY HavingNat DEF HasHandle
  <2>4. (\E t \in Apps : d = target[t]) => Aiming(d) > 0
    BY AimingNat
  <2> QED
    BY <2>1, <2>2, <2>3, <2>4
<1>3. Outer(d) > 0
  BY <1>1, <1>2 DEF Outer
<1>4. Alive(d)
  BY <1>3, RefsMean
<1> QED
  BY <1>3, <1>4 DEF Alive, Unused

\* What the lock is held for, and the list meanwhile.
LEMMA WayIsAlive ==
  ASSUME Finite, SafeInv
  PROVE  /\ \A d \in Devs : hp.step \in {"connect", "left", "unref"} /\ hp.new = d => Alive(d) /\ d \notin Unused
         /\ \A d \in Devs : hp.child = d => Alive(d) /\ d \notin Unused
         /\ phase \notin {"devices", "end"} => \A d \in Range(listed) : d \in Devs /\ Alive(d) /\ d \notin Unused
<1>1. ASSUME NEW d \in Devs, (hp.step \in {"connect", "left", "unref"} /\ hp.new = d) \/ hp.child = d
      PROVE  Alive(d) /\ d \notin Unused
  <2>1. UnderWay(d) > 0
    BY <1>1 DEF UnderWay
  <2> QED
    BY <2>1, HeldIsAlive
<1>2. ASSUME phase \notin {"devices", "end"}, NEW d \in Range(listed) PROVE d \in Devs /\ Alive(d) /\ d \notin Unused
  <2>1. d \in Devs /\ d \in Range(Kept)
    BY <1>2, RangeIs DEF SafeInv, Types, ListType, Kept
  <2> QED
    BY <2>1, HeldIsAlive
<1> QED
  BY <1>1, <1>2

LEMMA FamiliesNext ==
  ASSUME Finite, Topology, Distinct, SafeInv, DevType', DevStep
  PROVE  Families'
<1>1. \A c \in Devs : dev[c].parent \in Pointers
  BY DEF SafeInv, Types, DevType, Device
<1>2. Families
  BY DEF SafeInv
<1>3. ASSUME NEW x, NEW b, SameButRef \/ SetAttached(x, b) PROVE Families'
  <2>1. \A d \in Devs : /\ dev'[d].id = dev[d].id /\ dev'[d].parent = dev[d].parent /\ dev'[d].wrapped = dev[d].wrapped
                        /\ dev'[d].state = "unused" <=> dev[d].state = "unused"
    BY <1>3 DEF SameButRef, SetAttached
  <2>2. ASSUME NEW c \in Devs, dev[c].parent # NoDev PROVE dev[c].parent \in Devs
    BY <2>2, <1>1 DEF Pointers
  <2> QED
    BY <1>2, <2>1, <2>2 DEF Families
<1>4. ASSUME NEW x, NEW i \in Ids, NEW p \in Pointers, NEW b, IsNew(x, i, p, b), b \in BOOLEAN, b => p = NoDev,
             p # NoDev => Parent[i] \in Ids /\ dev[p].id = Parent[i] /\ dev[p].state # "unused"
      PROVE  Families'
  <2>1. ASSUME NEW c \in Devs, c # x, dev[c].parent # NoDev PROVE dev[c].parent \in Devs /\ dev[c].parent # x
    BY <2>1, <1>1, <1>2, <1>4 DEF Pointers, Families, IsNew
  <2>2. p # NoDev => p \in Devs /\ p # x
    BY <1>4 DEF Pointers, IsNew
  <2>3. ASSUME NEW c \in Devs
        PROVE  /\ dev'[c].state = "unused" => dev'[c].parent = NoDev
               /\ dev'[c].state # "unused" => dev'[c].id \in Ids
               /\ dev'[c].wrapped => dev'[c].parent = NoDev
               /\ dev'[c].parent # NoDev => /\ Parent[dev'[c].id] \in Ids /\ dev'[dev'[c].parent].id = Parent[dev'[c].id]
                                            /\ dev'[dev'[c].parent].state # "unused"
    <3>1. CASE c = x
      BY <3>1, <1>4, <2>2 DEF IsNew
    <3>2. CASE c # x
      BY <3>2, <1>2, <1>4, <2>1 DEF IsNew, Families
    <3> QED
      BY <3>1, <3>2
  <2> QED
    BY <2>3 DEF Families
<1>5. CASE Allocate /\ IsNew(NextNew, hp.id, HubOf(hp.id), FALSE)
  <2>1. hp.id \in Ids /\ phase \notin {"devices", "end"}
    BY <1>5, InLock DEF Allocate, SafeInv, HpInv, Exits
  <2>2. HubOf(hp.id) \in Pointers /\ (HubOf(hp.id) # NoDev =>
           Parent[hp.id] \in Ids /\ HubOf(hp.id) \in Range(listed) /\ dev[HubOf(hp.id)].id = Parent[hp.id])
    BY <2>1, ListedAsIs DEF SafeInv, Types, Pointers, HubOf, Topology
  <2>3. HubOf(hp.id) # NoDev => dev[HubOf(hp.id)].state # "unused"
    BY <2>1, <2>2, WayIsAlive DEF Alive
  <2> QED
    BY <1>4, <1>5, <2>1, <2>2, <2>3
<1>6. CASE EnumerateParent /\ IsNew(NextNew, Parent[hp.id], NoDev, FALSE)
  <2>1. Parent[hp.id] \in Ids /\ NoDev \in Pointers
    BY <1>6 DEF EnumerateParent, SafeInv, HpInv, Pointers
  <2> QED
    BY <1>4, <1>6, <2>1
<1>7. CASE \E i \in Ids : IsNew(NextNew, i, NoDev, TRUE)
  <2>1. PICK i \in Ids : IsNew(NextNew, i, NoDev, TRUE)
    BY <1>7
  <2>2. NoDev \in Pointers
    BY DEF Pointers
  <2> QED
    BY <1>4, <2>1, <2>2
<1>8. CASE Arrived /\ hp.child # NoDev /\ Adopts
  <2> DEFINE c == hp.child
             p == hp.new
  <2>1. c \in Devs /\ p \in Devs /\ p \in Range(listed) /\ phase \notin {"devices", "end"}
    BY <1>8, InLock DEF Arrived, SafeInv, HpInv, Types, HpType, Pointers, Exits
  <2>2. Parent[dev[c].id] \in Ids /\ dev[p].id = Parent[dev[c].id] /\ dev[p].state # "unused" /\ ~dev[c].wrapped
        /\ dev[c].state # "unused" /\ c # p
    <3>1. /\ dev[c].id = hp.id /\ dev[p].id = Parent[hp.id] /\ Parent[hp.id] \in Ids /\ ~dev[c].wrapped
          /\ c \notin Range(listed)
      BY <1>8, <2>1 DEF SafeInv, HpInv, Distinct
    <3>2. dev[p].state # "unused" /\ dev[c].state # "unused"
      BY <2>1, WayIsAlive DEF Alive
    <3> QED
      BY <2>1, <3>1, <3>2
  <2>3. \A d \in Devs : /\ dev'[d].id = dev[d].id /\ dev'[d].parent = IF d = c THEN p ELSE dev[d].parent
                        /\ dev'[d].attached = dev[d].attached /\ dev'[d].wrapped = dev[d].wrapped
                        /\ dev'[d].state = dev[d].state
    BY <1>8 DEF Adopts
  <2> HIDE DEF c, p
  <2>4. ASSUME NEW d \in Devs, dev[d].parent # NoDev PROVE dev[d].parent \in Devs
    BY <2>4, <1>1 DEF Pointers
  <2>5. ASSUME NEW d \in Devs
        PROVE  /\ dev'[d].state = "unused" => dev'[d].parent = NoDev
               /\ dev'[d].state # "unused" => dev'[d].id \in Ids
               /\ dev'[d].wrapped => dev'[d].parent = NoDev
               /\ dev'[d].parent # NoDev => /\ Parent[dev'[d].id] \in Ids /\ dev'[dev'[d].parent].id = Parent[dev'[d].id]
                                            /\ dev'[dev'[d].parent].state # "unused"
    <3>1. CASE d = c
      BY <3>1, <1>2, <2>1, <2>2, <2>3 DEF Families
    <3>2. CASE d # c
      BY <3>2, <1>2, <2>3, <2>4 DEF Families
    <3> QED
      BY <3>1, <3>2
  <2> QED
    BY <2>5 DEF Families
<1> QED
  BY <1>3, <1>5, <1>6, <1>7, <1>8 DEF DevStep

LEMMA PhaseNext ==
  ASSUME Distinct, StableStart, SafeInv, [Next]_vars
  PROVE  PhaseInv'
<1>1. Types /\ PhaseInv /\ HpInv /\ TargetInv
  BY DEF SafeInv
<1> DEFINE Changed == Scan \/ ScanDone \/ HotplugInit \/ Exit \/ MessagesFreed \/ Released
<1>2. Changed \/ UNCHANGED <<ready, phase>>
  BY ZenonT(60)
  DEF Next, HotplugLock, Exiting, App, HandleEvents, Plug, Unplug, Receive, PollMore, PollDone, EventDone, ScanMore,
      Known, Gone, Allocate, EnumerateParent, Connect, Arrived, Disconnect, Left, Unreferenced, FreeMessage,
      ReleaseListed, ListPoll, ListWalk, FreeList, OpenRefused, Open, Opened, OpenNoDevice, OpenFailed, Wrap, Close,
      Register, CallArrived, Registered, Deregister, PollError, TakeMessages, NextMessage, NextCallback, CallBack,
      MessageDone, StartSweep, Sweep, Swept, Finished
<1>3. ASSUME Changed
      PROVE  \/ phase = "init" /\ phase' = "scan" /\ ready' = ready
             \/ phase = "scan" /\ phase' = "scanned" /\ ready' = ready
             \/ phase = "scanned" /\ phase' = "ready" /\ ready' = TRUE
             \/ phase = "ready" /\ phase' = "messages" /\ ready' = ready /\ Exit
             \/ phase = "messages" /\ phase' = "devices" /\ ready' = ready /\ msgs' = msgs /\ msgs = <<>>
             \/ phase = "devices" /\ phase' = "end" /\ ready' = ready /\ msgs' = msgs
  BY <1>1, <1>3 DEF Scan, ScanDone, HotplugInit, Exit, MessagesFreed, Released, PhaseInv
<1>4. (ready <=> phase \in {"ready"} \cup Exits)'
  <2>1. CASE UNCHANGED <<ready, phase>>
    BY <1>1, <2>1 DEF PhaseInv
  <2>2. CASE Changed
    <3>1. CASE phase = "init" \/ phase = "scan"
      <4>1. ~ready /\ ready' = ready /\ phase' \in {"scan", "scanned"}
        BY <1>1, <1>3, <2>2, <3>1 DEF PhaseInv, Exits, Types, MsgType
      <4> QED
        BY <4>1 DEF Exits
    <3>2. CASE phase = "scanned"
      BY <1>1, <1>3, <2>2, <3>2 DEF Exits
    <3>3. CASE phase \in {"ready", "messages", "devices"}
      <4>1. ready /\ ready' = ready /\ phase' \in {"messages", "devices", "end"}
        BY <1>1, <1>3, <2>2, <3>3 DEF PhaseInv, Exits, Types, MsgType
      <4> QED
        BY <4>1 DEF Exits
    <3> QED
      BY <1>3, <2>2, <3>1, <3>2, <3>3
  <2> QED
    BY <1>2, <2>1, <2>2
<1>5. (phase # "ready" => ev.step = "idle" /\ \A t \in Apps : pc[t] = "idle")'
  <2>1. UNCHANGED <<ev, pc>> \/ phase = "ready"
    <3>1. ASSUME NEW t \in Apps, phase # "ready" PROVE pc[t] = "idle" /\ ev.step = "idle"
      BY <1>1, <3>1 DEF PhaseInv
    <3>2. ASSUME phase # "ready", NEW t \in Apps, App(t) PROVE UNCHANGED <<ev, pc>>
      BY <3>1, <3>2 DEF App, Next1, ListPoll, ListWalk, FreeList, OpenRefused, Open, Opened, OpenNoDevice, OpenFailed, Wrap, Close,
         Register, CallArrived, Registered, Deregister
    <3>3. ASSUME phase # "ready", HandleEvents PROVE FALSE
      BY <1>1, <3>3 DEF HandleEvents, PollError, TakeMessages, NextMessage, NextCallback, CallBack, MessageDone, StartSweep,
         Sweep, Swept, PhaseInv
    <3>4. ASSUME phase # "ready", PollDone \/ EventDone PROVE UNCHANGED <<ev, pc>>
      BY <3>1, <3>4 DEF PollDone, EventDone
    <3> QED
      BY <3>2, <3>3, <3>4 DEF Next, HotplugLock, Exiting, Plug, Unplug, Receive, PollMore, ScanMore, ScanDone, Known, Gone,
         Allocate, EnumerateParent, Connect, Arrived, Disconnect, Left, Unreferenced, Scan, HotplugInit, Exit, FreeMessage,
         MessagesFreed, ReleaseListed, Released, Finished
  <2>2. CASE UNCHANGED <<ready, phase>>
    BY <1>1, <2>1, <2>2 DEF PhaseInv
  <2>3. CASE Changed
    <3>1. CASE Exit
      BY <3>1 DEF Exit
    <3>2. CASE ~Exit
      <4>1. phase # "ready" \/ phase' = "ready"
        BY <1>3, <2>3, <3>2
      <4> QED
        BY <1>1, <1>3, <2>1, <2>3, <3>2, <4>1 DEF PhaseInv
    <3> QED
      BY <3>1, <3>2
  <2> QED
    BY <1>2, <2>2, <2>3
<1>6. hp' = hp \/ phase \notin Exits
  <2>1. ASSUME phase \in Exits PROVE hp.owner = NoOne /\ hp.step = "idle" /\ phase # "ready" /\ \A t \in Apps : pc[t] = "idle"
    BY <1>1, <2>1 DEF PhaseInv, HpInv, Exits
  <2>2. ASSUME phase \in Exits PROVE ~Receive
    BY <2>2 DEF Receive, Active, Exits
  <2>3. ASSUME phase \in Exits PROVE ~HotplugLock
    <3>1. hp.owner \notin Apps /\ hp.owner # Main /\ hp.owner # Monitor /\ hp.owner # Events /\ hp.step = "idle"
      BY <2>1, <2>3 DEF Distinct
    <3> QED
      BY <3>1 DEF HotplugLock, PollMore, PollDone, EventDone, ScanMore, ScanDone, Known, Gone,
         Allocate, EnumerateParent, Connect, Arrived, Disconnect, Left, Unreferenced
  <2>4. ASSUME phase \in Exits, NEW t \in Apps PROVE ~ListPoll(t) /\ ~OpenNoDevice(t)
    BY <2>1, <2>4 DEF ListPoll, OpenNoDevice, Next1
  <2>5. ASSUME phase \in Exits PROVE ~PollError /\ ~Scan
    BY <2>5 DEF PollError, Scan, Exits
  <2> QED
    BY <2>2, <2>3, <2>4, <2>5 DEF Next, Exiting, App, HandleEvents, Plug, Unplug, HotplugInit, Exit, FreeMessage,
         MessagesFreed, ReleaseListed, Released, Finished, ListWalk, FreeList, OpenRefused, Open, Opened, OpenFailed, Wrap,
         Close, Register, CallArrived, Registered, Deregister, TakeMessages, NextMessage, NextCallback, CallBack, MessageDone,
         StartSweep, Sweep, Swept
<1>7. (phase \in Exits => hp.owner = NoOne)'
  <2>1. CASE UNCHANGED <<ready, phase>>
    BY <1>1, <1>6, <2>1 DEF PhaseInv
  <2>2. CASE Changed
    <3>1. CASE Exit
      BY <3>1 DEF Exit
    <3>2. CASE ~Exit
      BY <1>1, <1>3, <1>6, <2>2, <3>2 DEF PhaseInv, Exits
    <3> QED
      BY <3>1, <3>2
  <2> QED
    BY <1>2, <2>1, <2>2
<1>8. (hp.owner = Main => phase = "scan")'
  <2>1. CASE hp' = hp
    <3>1. CASE hp.owner = Main
      <4>1. phase = "scan" /\ ~ScanDone
        BY <1>1, <2>1, <3>1 DEF PhaseInv, ScanDone, Unlock, Idle, Distinct
      <4> QED
        BY <1>2, <1>3, <4>1, <1>1, <2>1 DEF PhaseInv, Scan, HotplugInit, Exit, MessagesFreed, Released
    <3> QED
      BY <2>1, <3>1
  <2>2. CASE UNCHANGED phase /\ hp'.owner = hp.owner
    BY <1>1, <2>2 DEF PhaseInv
  <2>3. CASE hp'.owner # Main
    BY <2>3
  <2>4. CASE Scan
    BY <2>4 DEF Scan
  <2>5. hp' = hp \/ (UNCHANGED phase /\ hp'.owner = hp.owner) \/ hp'.owner # Main \/ Scan
    <3>1. ASSUME PollDone \/ EventDone \/ ScanDone PROVE hp'.owner # Main
      BY <3>1 DEF PollDone, EventDone, ScanDone, Unlock, Idle, Distinct
    <3>2. ASSUME Receive PROVE hp'.owner # Main
      BY <3>2 DEF Receive, Lock, Idle, Distinct
    <3>3. ASSUME NEW t \in Apps, ListPoll(t) \/ OpenNoDevice(t) PROVE hp' = hp \/ hp'.owner # Main
      BY <3>3 DEF ListPoll, OpenNoDevice, Lock, Idle, Distinct
    <3>4. ASSUME PollError PROVE hp' = hp \/ hp'.owner # Main
      BY <3>4 DEF PollError, Lock, Idle, Distinct
    <3>5. ASSUME \/ PollMore \/ ScanMore \/ Known \/ Gone \/ Allocate \/ EnumerateParent \/ Connect \/ Arrived
                 \/ Disconnect \/ Left \/ Unreferenced
          PROVE  UNCHANGED phase /\ hp'.owner = hp.owner
      BY <1>1, <3>5 DEF PollMore, ScanMore, Known, Gone, Allocate, EnumerateParent, Connect, Arrived, Disconnect, Left,
         Unreferenced, Types, HpType
    <3> QED
      BY <3>1, <3>2, <3>3, <3>4, <3>5
      DEF Next, HotplugLock, Exiting, App, HandleEvents, Plug, Unplug, HotplugInit, Exit, FreeMessage, MessagesFreed,
          ReleaseListed, Released, ListWalk, FreeList, OpenRefused, Open, Opened, OpenFailed, Wrap, Close, Register,
          CallArrived, Registered, Deregister, TakeMessages, NextMessage, NextCallback, CallBack, MessageDone,
          StartSweep, Sweep, Swept, Finished
  <2> QED
    BY <2>1, <2>2, <2>3, <2>4, <2>5
<1>9. (phase \in {"devices", "end"} => msgs = <<>>)'
  <2>1. CASE Changed
    BY <1>1, <1>3, <2>1 DEF PhaseInv
  <2>2. CASE UNCHANGED <<ready, phase>>
    <3>1. ASSUME phase \in {"devices", "end"} PROVE msgs' = msgs \/ msgs' = <<>>
      <4>1. msgs = <<>> /\ hp.step = "idle"
        BY <1>1, <3>1 DEF PhaseInv, HpInv, Exits
      <4> QED
        BY ZenonT(60), <4>1
        DEF Next, HotplugLock, Exiting, App, HandleEvents, Plug, Unplug, Receive, PollMore, PollDone, EventDone,
            ScanMore, ScanDone, Known, Gone, Allocate, EnumerateParent, Connect, Arrived, Disconnect, Left,
            Unreferenced, Scan, HotplugInit, Exit, FreeMessage, MessagesFreed, ReleaseListed, Released, ListPoll,
            ListWalk, FreeList, OpenRefused, Open, Opened, OpenNoDevice, OpenFailed, Wrap, Close, Register,
            CallArrived, Registered, Deregister, PollError, TakeMessages, NextMessage, NextCallback, CallBack,
            MessageDone, StartSweep, Sweep, Swept, Finished
    <3> QED
      BY <1>1, <2>2, <3>1 DEF PhaseInv
  <2> QED
    BY <1>2, <2>1, <2>2
<1>10. ~ready' => ~ready
  BY <1>1, <1>2, <1>3 DEF PhaseInv, Types, MsgType, Exits
<1>11. (~ready => \A k \in DOMAIN queue : queue[k].act = "add")'
  <2> SUFFICES ASSUME ~ready PROVE \A k \in DOMAIN queue' : queue'[k].act = "add"
    BY <1>10
  <2>1. queue \in Seq(EventType) /\ (\A k \in 1..Len(queue) : queue[k].act = "add") /\ Len(queue) \in Nat
    <3>1. queue \in Seq(EventType)
      BY <1>1 DEF Types, BusType
    <3> QED
      BY <3>1, <1>1 DEF PhaseInv
  <2>2. CASE queue' = queue
    BY <1>1, <2>2 DEF PhaseInv
  <2>3. ASSUME NEW i \in Ids, queue' = Append(queue, [act |-> "add", id |-> i])
        PROVE  \A k \in DOMAIN queue' : queue'[k].act = "add"
    <3>1. [act |-> "add", id |-> i] \in EventType
      BY DEF EventType
    <3>2. DOMAIN queue' = 1..Len(queue) + 1 /\ queue'[Len(queue) + 1] = [act |-> "add", id |-> i]
          /\ \A k \in 1..Len(queue) : queue'[k] = queue[k]
      BY <2>1, <2>3, <3>1
    <3> QED
      BY <2>1, <3>2
  <2>4. ASSUME queue # <<>>, queue' = Tail(queue) PROVE \A k \in DOMAIN queue' : queue'[k].act = "add"
    <3>1. /\ Tail(queue) \in Seq(EventType) /\ Len(Tail(queue)) = Len(queue) - 1
          /\ \A k \in 1..Len(queue) - 1 : Tail(queue)[k] = queue[k + 1]
      BY <2>1, <2>4, Taken
    <3>2. ASSUME NEW k \in 1..Len(queue) - 1 PROVE Tail(queue)[k].act = "add"
      <4>1. k + 1 \in 1..Len(queue) /\ Tail(queue)[k] = queue[k + 1]
        BY <2>1, <3>1
      <4> QED
        BY <2>1, <4>1
    <3>3. DOMAIN Tail(queue) = 1..Len(queue) - 1
      BY <3>1
    <3> QED
      BY <2>4, <3>2, <3>3
  <2>5. \/ queue' = queue \/ \E i \in Ids : queue' = Append(queue, [act |-> "add", id |-> i])
        \/ queue # <<>> /\ queue' = Tail(queue)
    BY ZenonT(60)
    DEF Next, HotplugLock, Exiting, App, HandleEvents, Plug, Unplug, Receive, PollMore, PollDone, EventDone, ScanMore,
        ScanDone, Known, Gone, Allocate, EnumerateParent, Connect, Arrived, Disconnect, Left, Unreferenced, Scan,
        HotplugInit, Exit, FreeMessage, MessagesFreed, ReleaseListed, Released, ListPoll, ListWalk, FreeList,
        OpenRefused, Open, Opened, OpenNoDevice, OpenFailed, Wrap, Close, Register, CallArrived, Registered,
        Deregister, PollError, TakeMessages, NextMessage, NextCallback, CallBack, MessageDone, StartSweep, Sweep,
        Swept, Finished
  <2> QED
    BY <2>2, <2>3, <2>4, <2>5
<1>12. (~ready => hp.step \notin {"disconnect", "left", "unref"})'
  <2> SUFFICES ASSUME ~ready PROVE hp'.step \notin {"disconnect", "left", "unref"}
    BY <1>10
  <2>1. /\ hp.step \notin {"disconnect", "left", "unref"} /\ phase # "ready" /\ \A t \in Apps : pc[t] = "idle"
    BY <1>1 DEF PhaseInv
  <2>2. queue # <<>> => Head(queue).act = "add"
    <3>1. queue \in Seq(EventType)
      BY <1>1 DEF Types, BusType
    <3>2. ASSUME queue # <<>> PROVE 1 \in DOMAIN queue /\ Head(queue) = queue[1]
      BY <3>1, <3>2
    <3> QED
      BY <1>1, <3>2 DEF PhaseInv
  <2>3. ~\E t \in Apps : OpenNoDevice(t)
    BY <2>1 DEF OpenNoDevice
  <2>4. ~PollError /\ ~Disconnect /\ ~Left
    BY <2>1 DEF PollError, Disconnect, Left
  <2>5. hp'.step = hp.step \/ hp'.step \in {"idle", "next", "enumerate", "parent", "connect", "arrived"}
    <3>1. ASSUME Receive \/ PollMore PROVE hp'.step = "enumerate"
      BY <2>2, <3>1, <1>1 DEF Receive, PollMore, Lock, Idle, StepOf, Types, HpType
    <3>2. ASSUME PollDone \/ EventDone \/ ScanDone PROVE hp'.step = "idle"
      BY <3>2 DEF PollDone, EventDone, ScanDone, Unlock, Idle
    <3>3. ASSUME NEW t \in Apps, ListPoll(t) PROVE hp'.step = "next"
      BY <3>3 DEF ListPoll, Lock, Idle
    <3>4. ASSUME \/ ScanMore \/ Known \/ Gone \/ Allocate \/ EnumerateParent \/ Connect \/ Arrived \/ Unreferenced
          PROVE  hp'.step \in {"enumerate", "next", "parent", "connect", "arrived"}
      BY <1>1, <3>4 DEF ScanMore, Known, Gone, Allocate, EnumerateParent, Connect, Arrived, Unreferenced, Types, HpType
    <3>5. ASSUME Scan PROVE hp'.step = "next"
      BY <3>5 DEF Scan, Idle
    <3> QED
      BY <3>1, <3>2, <3>3, <3>4, <3>5, <2>3, <2>4
      DEF Next, HotplugLock, Exiting, App, HandleEvents, Plug, Unplug, HotplugInit, Exit, FreeMessage, MessagesFreed,
          ReleaseListed, Released, ListWalk, FreeList, OpenRefused, Open, Opened, OpenFailed, Wrap, Close, Register,
          CallArrived, Registered, Deregister, TakeMessages, NextMessage, NextCallback, CallBack, MessageDone,
          StartSweep, Sweep, Swept, Finished
  <2> QED
    BY <2>1, <2>5
<1> QED
  BY <1>4, <1>5, <1>7, <1>8, <1>9, <1>11, <1>12 DEF PhaseInv

LEMMA NewIdIs ==
  ASSUME Distinct, ListType, NEW i
  PROVE  NewId(i) <=> \A d \in Range(listed) : dev[d].id # i
<1>1. Range(listed) \subseteq Devs
  BY RangeIs DEF ListType
<1> QED
  BY <1>1, ListedAsIs DEF NewId, Distinct

LEMMA NewIdNext ==
  ASSUME Distinct, ListType', NEW i
  PROVE  NewId(i)' <=> \A d \in Range(listed') : dev'[d].id # i
<1>1. Range(listed') \subseteq Devs
  BY RangeIs DEF ListType
<1> QED
  BY <1>1 DEF NewId, ListedAs, Distinct

\* Fields of a device that is in use.
LEMMA Steady ==
  ASSUME Finite, Topology, Distinct, SafeInv, MsgType', EvType', [Next]_vars, NEW d \in Devs, d \notin Unused
  PROVE  /\ dev'[d].id = dev[d].id /\ dev'[d].wrapped = dev[d].wrapped
         /\ ~Arrived => dev'[d].parent = dev[d].parent
         /\ hp.child # d => dev'[d].parent = dev[d].parent
         /\ ~Connect /\ ~Disconnect => dev'[d].attached = dev[d].attached
<1>1. DevStep
  BY CountsNext
<1>2. ASSUME NEW x, NEW i, NEW p, NEW b, IsNew(x, i, p, b)
      PROVE  dev'[d].id = dev[d].id /\ dev'[d].wrapped = dev[d].wrapped /\ dev'[d].parent = dev[d].parent
             /\ dev'[d].attached = dev[d].attached
  BY <1>2 DEF IsNew, Unused
<1> QED
  BY <1>1, <1>2 DEF DevStep, SameButRef, SetAttached, Adopts

LEMMA ListStep ==
  ASSUME Distinct, ListType, HpType, HpInv, [Next]_vars
  PROVE  \/ listed' = listed
         \/ Connect /\ \A d : d \in Range(listed') <=> d = hp.new \/ d \in Range(listed)
         \/ /\ Disconnect /\ ListedAs(hp.id) # NoDev
            /\ \A d : d \in Range(listed') <=> d # ListedAs(hp.id) /\ d \in Range(listed)
         \/ ReleaseListed /\ Range(listed') \subseteq Range(listed)
<1>1. ASSUME Connect PROVE \A d : d \in Range(listed') <=> d = hp.new \/ d \in Range(listed)
  <2>1. listed' = <<hp.new>> \o listed /\ hp.new \in Devs
    BY <1>1 DEF Connect, HpInv
  <2> QED
    BY <2>1, Prepended DEF ListType
<1>2. ASSUME Disconnect
      PROVE  \/ listed' = listed
             \/ ListedAs(hp.id) # NoDev /\ \A d : d \in Range(listed') <=> d # ListedAs(hp.id) /\ d \in Range(listed)
  <2>1. listed' = listed \/ (ListedAs(hp.id) # NoDev /\ listed' = RemoveFirst(listed, ListedAs(hp.id)))
    BY <1>2 DEF Disconnect
  <2> QED
    BY <2>1, Unlisted DEF ListType
<1>3. ASSUME ReleaseListed PROVE Range(listed') \subseteq Range(listed)
  <2>1. PICK S, T : listed' = Unlink(Unlink(listed, S), T)
    BY <1>3 DEF ReleaseListed
  <2> DEFINE l == Unlink(listed, S)
  <2>2. l \in Seq(Devs) /\ IsInjective(l) /\ Range(l) \subseteq Range(listed)
    BY Unlisted DEF ListType, Unlink
  <2> HIDE DEF l
  <2>3. Range(Unlink(l, T)) \subseteq Range(l)
    BY <2>2, Unlisted DEF Unlink
  <2> QED
    BY <2>1, <2>2, <2>3 DEF l
<1> QED
  BY ZenonT(60), <1>1, <1>2, <1>3
  DEF Next, HotplugLock, Exiting, App, HandleEvents, Plug, Unplug, Receive, PollMore, PollDone, EventDone, ScanMore,
      ScanDone, Known, Gone, Allocate, EnumerateParent, Arrived, Left, Unreferenced, Scan, HotplugInit, Exit,
      FreeMessage, MessagesFreed, Released, ListPoll, ListWalk, FreeList, OpenRefused, Open, Opened, OpenNoDevice,
      OpenFailed, Wrap, Close, Register, CallArrived, Registered, Deregister, PollError, TakeMessages, NextMessage,
      NextCallback, CallBack, MessageDone, StartSweep, Sweep, Swept, Finished

LEMMA ListNext ==
  ASSUME Finite, Topology, Distinct, SafeInv, MsgType', EvType', [Next]_vars
  PROVE  ListInv'
<1>1. ListInv /\ HpInv /\ ListType /\ HpType /\ DevType
  BY DEF SafeInv, Types
<1>2. Range(listed) \subseteq Devs
  BY <1>1, RangeIs DEF ListType
<1>3. ASSUME phase' \notin {"devices", "end"}
      PROVE  phase \notin {"devices", "end"} /\ \A d \in Range(listed) : d \notin Unused
  <2>1. phase \notin {"devices", "end"}
    <3>1. hp.owner = Main => phase = "scan"
      BY DEF SafeInv, PhaseInv
    <3> QED
      BY ZenonT(60), <1>3, <3>1
      DEF Next, HotplugLock, Exiting, App, HandleEvents, Plug, Unplug, Receive, PollMore, PollDone, EventDone,
          ScanMore, ScanDone, Known, Gone, Allocate, EnumerateParent, Connect, Arrived, Disconnect, Left,
          Unreferenced, Scan, HotplugInit, Exit, FreeMessage, MessagesFreed, ReleaseListed, Released, ListPoll,
          ListWalk, FreeList, OpenRefused, Open, Opened, OpenNoDevice, OpenFailed, Wrap, Close, Register,
          CallArrived, Registered, Deregister, PollError, TakeMessages, NextMessage, NextCallback, CallBack,
          MessageDone, StartSweep, Sweep, Swept, Finished
  <2> QED
    BY <2>1, WayIsAlive
<1>4. ASSUME Connect PROVE ListInv'
  <2>1. SetAttached(hp.new, TRUE)
    BY <1>4, ConnectCounts
  <2>2. \A d : d \in Range(listed') <=> d = hp.new \/ d \in Range(listed)
    <3>1. listed' = <<hp.new>> \o listed /\ hp.new \in Devs
      BY <1>1, <1>4 DEF Connect, HpInv
    <3> QED
      BY <1>1, <3>1, Prepended DEF ListType
  <2>3. hp.new \in Devs /\ ~dev[hp.new].wrapped /\ \A d \in Range(listed) : dev[d].id # dev[hp.new].id
    BY <1>1, <1>4, NewIdIs DEF Connect, HpInv
  <2>4. phase \notin {"devices", "end"} /\ phase' = phase
    BY <1>4, InLock DEF Connect, Exits
  <2> DEFINE x == hp.new
  <2>5. /\ \A d \in Devs : /\ dev'[d].id = dev[d].id /\ dev'[d].wrapped = dev[d].wrapped
                           /\ dev'[d].attached = IF d = x THEN TRUE ELSE dev[d].attached
        /\ \A d : d \in Range(listed') <=> d = x \/ d \in Range(listed)
        /\ x \in Devs /\ ~dev[x].wrapped /\ \A d \in Range(listed) : dev[d].id # dev[x].id
    BY <2>1, <2>2, <2>3 DEF SetAttached
  <2> HIDE DEF x
  <2>10. \A d, e \in Range(listed) : dev[d].id = dev[e].id => d = e
    BY <1>1 DEF ListInv
  <2>6. \A d, e \in Range(listed') : dev'[d].id = dev'[e].id => d = e
    BY ZenonT(60), <1>2, <2>5, <2>10
  <2>7. \A d \in Range(listed') : ~dev'[d].wrapped
    BY <1>1, <1>2, <2>5 DEF ListInv
  <2>8. \A d \in Devs : ~dev'[d].wrapped => (dev'[d].attached <=> d \in Range(listed'))
    BY <1>1, <1>2, <2>4, <2>5 DEF ListInv
  <2> QED
    BY <2>6, <2>7, <2>8 DEF ListInv
<1>5. ASSUME Disconnect, ListedAs(hp.id) # NoDev PROVE ListInv'
  <2> DEFINE x == ListedAs(hp.id)
  <2>1. SetAttached(x, FALSE)
    BY <1>5, DisconnectCounts
  <2>2. \A d : d \in Range(listed') <=> d # x /\ d \in Range(listed)
    <3>1. listed' = RemoveFirst(listed, x)
      BY <1>5 DEF Disconnect
    <3> QED
      BY <1>1, <3>1, Unlisted DEF ListType
  <2>3. x \in Devs
    BY <1>1, <1>5, ListedAsIs
  <2>4. phase \notin {"devices", "end"} /\ phase' = phase
    BY <1>5, InLock DEF Disconnect, Exits
  <2> HIDE DEF x
  <2> QED
    BY ZenonT(60), <1>1, <1>2, <2>1, <2>2, <2>3, <2>4 DEF ListInv, SetAttached
<1>6. ASSUME SameButRef, Range(listed') \subseteq Range(listed), listed' = listed \/ phase' \in {"devices", "end"}
      PROVE  ListInv'
  BY <1>1, <1>2, <1>3, <1>6 DEF ListInv, SameButRef
<1>7. ASSUME NEW x, NEW i, NEW p, NEW b, IsNew(x, i, p, b), b \in BOOLEAN, listed' = listed, x \notin Range(listed) PROVE ListInv'
  BY <1>1, <1>2, <1>3, <1>7 DEF ListInv, IsNew
<1>8. ASSUME Allocate \/ EnumerateParent \/ \E t \in Apps : Wrap(t)
      PROVE  listed' = listed /\ \A x \in Devs : dev[x].state = "unused" => x \notin Range(listed)
  <2>1. listed' = listed /\ phase \notin {"devices", "end"}
    <3>1. CASE Allocate \/ EnumerateParent
      BY <3>1, InLock DEF Allocate, EnumerateParent, Exits
    <3>2. CASE \E t \in Apps : Wrap(t)
      BY <3>2 DEF Wrap, Next1
    <3> QED
      BY <1>8, <3>1, <3>2
  <2> QED
    BY <2>1, WayIsAlive DEF Unused
<1>9. ASSUME Arrived, Adopts PROVE ListInv'
  <2>1. listed' = listed /\ phase' = phase
    BY <1>9 DEF Arrived
  <2> QED
    BY <1>1, <1>2, <1>9, <2>1 DEF ListInv, Adopts
<1>10. DevStep
  BY CountsNext
<1>11. CASE Connect \/ (Disconnect /\ ListedAs(hp.id) # NoDev)
  BY <1>4, <1>5, <1>11
<1>12. CASE ~Connect /\ ~(Disconnect /\ ListedAs(hp.id) # NoDev)
  <2>1. listed' = listed \/ (ReleaseListed /\ Range(listed') \subseteq Range(listed))
    BY <1>1, <1>12, ListStep
  <2>2. Range(listed') \subseteq Range(listed) /\ (listed' = listed \/ phase' \in {"devices", "end"})
    BY <2>1 DEF ReleaseListed
  <2> QED
    BY <1>6, <1>7, <1>8, <1>9, <1>10, <1>12, <2>2 DEF DevStep, IsNew
<1> QED
  BY <1>11, <1>12

\* Callbacks.
LEMMA CbNext ==
  ASSUME Distinct, SafeInv, [Next]_vars
  PROVE  CbInv'
<1>1. CbInv /\ CbType /\ EvType /\ AppType /\ MsgType /\ TargetInv /\ PhaseInv
  BY DEF SafeInv, Types
<1>2. Range(cbs) \subseteq Cbs /\ cbs \in Seq(Cbs) /\ ev.rest \in Seq(Cbs) /\ IsInjective(cbs) /\ IsInjective(ev.rest)
      /\ Range(ev.rest) \subseteq Range(cbs)
  BY <1>1, RangeIs DEF CbType, EvType, CbInv
<1>3. \A t \in Apps : target[t] \in Range(target)
  BY <1>1 DEF AppType, Range
<1>4. IsInjective(<<>>) /\ Range(<<>>) = {}
  BY DEF IsInjective, Range
<1> DEFINE Linked == \A c \in Cbs : c \in Range(cbs) <=> cb[c] \in {"armed", "marked"}
           EvSteps == /\ ev.step = "call" => ev.rest # <<>>
                      /\ ev.step \notin {"callbacks", "call"} => ev.rest = <<>>
                      /\ ev.step \in {"callbacks", "call"} => ev.msgs # <<>>
                      /\ ev.step \in {"idle", "sweep"} => ev.msgs = <<>>
           Aims == \A t \in Apps : target[t] \in Cbs => cb[target[t]] = "armed"
<1>5. Linked /\ EvSteps /\ Aims
  BY <1>1 DEF CbInv
<1>6. ASSUME Linked', EvSteps', Aims', IsInjective(cbs'), IsInjective(ev'.rest), Range(ev'.rest) \subseteq Range(cbs')
      PROVE  CbInv'
  BY <1>6 DEF CbInv
<1>7. ASSUME UNCHANGED <<cbs, cb, ev, target>> PROVE CbInv'
  BY <1>1, <1>7 DEF CbInv
\* A callback is freed: nobody registers it, and the walk does not come to it.
<1>8. ASSUME NEW c \in Range(cbs), cbs' = RemoveFirst(cbs, c), cb' = [cb EXCEPT ![c] = "freed"], target' = target,
             c \notin Range(target), EvSteps',
             ev'.rest = <<>> \/ (ev'.rest = Tail(ev.rest) /\ ev.rest # <<>> /\ c = Head(ev.rest))
      PROVE  CbInv'
  <2>1. IsInjective(cbs') /\ \A y : y \in Range(cbs') <=> y \in Range(cbs) /\ y # c
    BY <1>2, <1>8, Unlisted
  <2>2. Linked' /\ Aims'
    BY <1>1, <1>2, <1>3, <1>5, <1>8, <2>1 DEF CbType
  <2>3. IsInjective(ev'.rest) /\ Range(ev'.rest) \subseteq Range(cbs')
    <3>1. CASE ev'.rest = <<>>
      BY <1>4, <3>1
    <3>2. CASE ev'.rest = Tail(ev.rest) /\ ev.rest # <<>> /\ c = Head(ev.rest)
      <4>1. IsInjective(Tail(ev.rest)) /\ c \notin Range(Tail(ev.rest)) /\ Range(Tail(ev.rest)) \subseteq Range(ev.rest)
        BY <1>2, <3>2, Taken
      <4> QED
        BY <1>2, <2>1, <3>2, <4>1
    <3> QED
      BY <1>8, <3>1, <3>2
  <2> QED
    BY <1>6, <1>8, <2>1, <2>2, <2>3
\* The event thread goes on.
<1>9. ASSUME UNCHANGED <<cbs, cb, target>>, EvSteps', IsInjective(ev'.rest), Range(ev'.rest) \subseteq Range(cbs) PROVE CbInv'
  BY <1>1, <1>9 DEF CbInv
<1>10. CASE TakeMessages \/ Swept
  BY <1>4, <1>9, <1>10 DEF TakeMessages, Swept, Resting
<1>11. CASE NextMessage
  <2>1. ev' = [ev EXCEPT !.step = "callbacks", !.rest = cbs] /\ ev.msgs # <<>> /\ UNCHANGED <<cbs, cb, target>>
    BY <1>11 DEF NextMessage
  <2>2. ev'.step = "callbacks" /\ ev'.rest = cbs /\ ev'.msgs = ev.msgs
    BY <1>1, <2>1 DEF EvType
  <2> QED
    BY <1>2, <1>9, <2>1, <2>2
<1>12. CASE NextCallback
  <2>1. ev.step = "callbacks" /\ ev.rest # <<>> /\ ev.msgs # <<>> /\ UNCHANGED <<cbs, cb, target>>
    BY <1>5, <1>12 DEF NextCallback
  <2>2. \/ ev'.step = "callbacks" /\ ev'.rest = Tail(ev.rest) /\ ev'.msgs = ev.msgs
        \/ ev'.step = "call" /\ ev'.rest = ev.rest /\ ev'.msgs = ev.msgs
    BY <1>1, <1>12 DEF NextCallback, EvType
  <2>3. IsInjective(Tail(ev.rest)) /\ Range(Tail(ev.rest)) \subseteq Range(ev.rest)
    BY <1>2, <2>1, Taken
  <2> QED
    BY <1>2, <1>9, <2>1, <2>2, <2>3
<1>13. CASE CallBack
  <2> DEFINE c == Head(ev.rest)
  <2>1. ev.step = "call" /\ ev.rest # <<>> /\ ev.msgs # <<>> /\ target' = target
    BY <1>5, <1>13 DEF CallBack
  <2>2. ev'.step = "callbacks" /\ ev'.rest = Tail(ev.rest) /\ ev'.msgs = ev.msgs
    BY <1>1, <1>13 DEF CallBack, EvType
  <2>3. \/ UNCHANGED <<cbs, cb>>
        \/ c \in Handles /\ cbs' = RemoveFirst(cbs, c) /\ cb' = [cb EXCEPT ![c] = "freed"]
    BY <1>13 DEF CallBack
  <2>4. IsInjective(Tail(ev.rest)) /\ Range(Tail(ev.rest)) \subseteq Range(ev.rest)
    BY <1>2, <2>1, Taken
  <2>5. EvSteps'
    BY <2>1, <2>2
  <2> HIDE DEF EvSteps
  <2> QED
    BY <1>2, <1>8, <1>9, <2>1, <2>2, <2>3, <2>4, <2>5 DEF Handles
<1>14. CASE MessageDone \/ StartSweep
  <2>1. ev.rest = <<>> /\ UNCHANGED <<cbs, cb, target>>
    BY <1>5, <1>14 DEF MessageDone, StartSweep
  <2>2. ev'.rest = ev.rest /\ (ev'.step = "message" \/ (ev'.step = "sweep" /\ ev'.msgs = <<>>))
    <3>1. CASE MessageDone
      BY <1>1, <3>1 DEF MessageDone, EvType
    <3>2. CASE StartSweep
      BY <1>1, <3>2 DEF StartSweep, EvType
    <3> QED
      BY <1>14, <3>1, <3>2
  <2> QED
    BY <1>4, <1>9, <2>1, <2>2
<1>15. CASE Sweep
  <2> DEFINE c == cbs[Min(Marked)]
  <2>1. Min(Marked) \in Marked
    BY <1>2, <1>15, LeastIndex DEF Sweep, Marked
  <2>2. c \in Range(cbs) /\ cb[c] = "marked"
    BY <1>2, <2>1 DEF Marked, Range
  <2>3. cbs' = RemoveFirst(cbs, c) /\ cb' = [cb EXCEPT ![c] = "freed"] /\ UNCHANGED <<ev, target>> /\ ev.step = "sweep"
    BY <1>15 DEF Sweep
  <2>4. c \notin Range(target)
    BY <1>1, <1>2, <1>5, <2>2 DEF AppType, Range
  <2>5. EvSteps' /\ ev'.rest = <<>>
    BY <1>5, <2>3
  <2> HIDE DEF c, EvSteps
  <2> QED
    BY <1>8, <2>2, <2>3, <2>4, <2>5
<1>16. CASE Exit
  <2>1. cbs' = <<>> /\ UNCHANGED <<ev, target>> /\ ev.rest = <<>> /\ (\A t \in Apps : target[t] \notin Cbs)
        /\ cb' = [c \in Cbs |-> IF c \in Range(cbs) THEN "freed" ELSE cb[c]]
    BY <1>1, <1>5, <1>16 DEF Exit, TargetInv, Distinct
  <2>2. Linked'
    BY <1>1, <1>4, <1>5, <2>1 DEF CbType
  <2> QED
    BY <1>4, <1>5, <1>6, <2>1, <2>2
<1>17. ASSUME NEW t \in Apps, Register(t) PROVE CbInv'
  <2> DEFINE c == CHOOSE x \in Cbs : cb[x] = "unused"
  <2>1. c \in Cbs /\ cb[c] = "unused" /\ c \notin Range(cbs) /\ cbs' = <<c>> \o cbs /\ cb' = [cb EXCEPT ![c] = "armed"] /\ ev' = ev
    BY <1>1, <1>5, <1>17 DEF Register, MayRegister
  <2>2. target' = target \/ target' = [target EXCEPT ![t] = c]
    BY <1>17 DEF Register
  <2> HIDE DEF c
  <2>3. IsInjective(cbs') /\ \A y : y \in Range(cbs') <=> y = c \/ y \in Range(cbs)
    BY <1>2, <2>1, Prepended
  <2>4. Linked'
    BY <1>1, <1>5, <2>1, <2>3 DEF CbType
  <2>5. Aims'
    BY <1>1, <1>5, <2>1, <2>2 DEF CbType, AppType
  <2> QED
    BY <1>2, <1>5, <1>6, <2>1, <2>3, <2>4, <2>5
<1>18. ASSUME NEW t \in Apps, Deregister(t) PROVE CbInv'
  <2>1. UNCHANGED <<cbs, ev, target>>
    BY <1>18 DEF Deregister
  <2>2. CASE UNCHANGED cb
    BY <1>7, <2>1, <2>2
  <2>3. ASSUME NEW c \in Handles, cb' = [cb EXCEPT ![c] = "marked"] PROVE CbInv'
    <3>1. c \in Cbs /\ c \in Range(cbs) /\ \A u \in Apps : target[u] # c
      BY <1>2, <1>3, <2>3 DEF Handles
    <3>2. Linked' /\ Aims'
      BY <1>1, <1>5, <2>1, <2>3, <3>1 DEF CbType
    <3> QED
      BY <1>2, <1>5, <1>6, <2>1, <3>2
  <2> QED
    BY <1>18, <2>2, <2>3 DEF Deregister
\* A thread aims at a device, or at nothing.
<1>19. ASSUME NEW t \in Apps, Open(t) \/ Opened(t) \/ OpenFailed(t) \/ Registered(t) PROVE CbInv'
  <2>1. UNCHANGED <<cbs, cb, ev>>
    BY <1>19 DEF Open, Opened, OpenFailed, Registered
  <2>2. target' = target \/ \E x : x \notin Cbs /\ target' = [target EXCEPT ![t] = x]
    <3>1. CASE Open(t)
      <4>1. PICK d \in mine[t] : target' = [target EXCEPT ![t] = d]
        BY <3>1 DEF Open
      <4> QED
        BY <1>1, <4>1 DEF AppType, Distinct
    <3>2. CASE Opened(t) \/ OpenFailed(t) \/ Registered(t)
      BY <3>2 DEF Opened, OpenFailed, Registered, Distinct
    <3> QED
      BY <1>19, <3>1, <3>2
  <2>3. Aims'
    BY <1>1, <1>5, <2>1, <2>2 DEF AppType
  <2> QED
    BY <1>2, <1>5, <1>6, <2>1, <2>3
<1> QED
  BY <1>7, <1>10, <1>11, <1>12, <1>13, <1>14, <1>15, <1>16, <1>17, <1>18, <1>19
  DEF Next, HotplugLock, Exiting, App, HandleEvents, Plug, Unplug, Receive, PollMore, PollDone, EventDone, ScanMore,
      ScanDone, Known, Gone, Allocate, EnumerateParent, Connect, Arrived, Disconnect, Left, Unreferenced, Scan,
      HotplugInit, FreeMessage, MessagesFreed, ReleaseListed, Released, ListPoll, ListWalk, FreeList, OpenRefused,
      OpenNoDevice, Wrap, Close, CallArrived, PollError, Finished

\* What a thread is at, and what it aims at.
LEMMA TargetNext ==
  ASSUME Distinct, SafeInv, [Next]_vars
  PROVE  TargetInv'
<1>1. TargetInv /\ AppType /\ CbType
  BY DEF SafeInv, Types
<1> DEFINE P(t) == /\ pc[t] \in {"opening", "early", "failed"} => target[t] \in Devs /\ target[t] \notin open[t]
                   /\ pc[t] \in {"callback", "enumerate"} => target[t] \in Cbs
                   /\ pc[t] = "idle" => target[t] = NoDev
                   /\ pc[t] \in {"poll", "walk"} => target[t] \in Cbs \cup {NoDev}
                   /\ pc[t] \in {"poll", "walk"} => mine[t] = {}
           Same(u) == pc'[u] = pc[u] /\ mine'[u] = mine[u] /\ open'[u] = open[u] /\ target'[u] = target[u]
<1>2. \A t \in Apps : P(t)
  BY <1>1 DEF TargetInv
<1>3. ASSUME NEW t \in Apps, P(t)', \A u \in Apps : u # t => Same(u) PROVE TargetInv'
  <2>1. \A u \in Apps : P(u)'
    BY <1>2, <1>3
  <2> QED
    BY <2>1 DEF TargetInv
<1>4. ASSUME UNCHANGED <<pc, mine, open, target>> PROVE TargetInv'
  BY <1>1, <1>4 DEF TargetInv
<1>5. ASSUME NEW t \in Apps, ListPoll(t) PROVE TargetInv'
  <2>1. (pc[t] = "idle" \/ pc[t] = "enumerate") /\ mine[t] = {} /\ UNCHANGED <<mine, open, target>>
        /\ pc' = [pc EXCEPT ![t] = "poll"]
    BY <1>5 DEF ListPoll, Next1, OneList, Goto
  <2>2. P(t)' /\ \A u \in Apps : u # t => Same(u)
    BY <1>1, <1>2, <2>1 DEF AppType
  <2> QED
    BY <1>3, <2>2
<1>6. ASSUME NEW t \in Apps, ListWalk(t) PROVE TargetInv'
  <2>1. pc[t] = "walk" /\ mine' = [mine EXCEPT ![t] = Range(listed)] /\ UNCHANGED <<open, target>>
        /\ pc' = [pc EXCEPT ![t] = IF target[t] \in Cbs THEN "callback" ELSE "idle"]
    BY <1>6 DEF ListWalk, Goto
  <2>2. P(t)' /\ \A u \in Apps : u # t => Same(u)
    BY <1>1, <1>2, <2>1 DEF AppType
  <2> QED
    BY <1>3, <2>2
\* Its own list or its handles, while it is between two calls or calls back.
<1>7. ASSUME NEW t \in Apps, FreeList(t) \/ Wrap(t) \/ Close(t) \/ CallArrived(t) PROVE TargetInv'
  <2>1. (pc[t] = "idle" \/ pc[t] = "callback") /\ UNCHANGED <<pc, target>>
    BY <1>7 DEF FreeList, Wrap, Close, CallArrived, Next1
  <2>2. mine' = mine \/ \E S : mine' = [mine EXCEPT ![t] = S]
    BY <1>7 DEF FreeList, Wrap, Close, CallArrived
  <2>3. open' = open \/ \E S : open' = [open EXCEPT ![t] = S]
    BY <1>7 DEF FreeList, Wrap, Close, CallArrived
  <2>4. P(t)' /\ \A u \in Apps : u # t => Same(u)
    BY <1>1, <1>2, <2>1, <2>2, <2>3 DEF AppType
  <2> QED
    BY <1>3, <2>4
<1>8. ASSUME NEW t \in Apps, Open(t) PROVE TargetInv'
  <2>1. PICK d \in mine[t] : d \notin open[t] /\ target' = [target EXCEPT ![t] = d]
    BY <1>8 DEF Open, OneHandle
  <2>2. d \in Devs /\ UNCHANGED <<mine, open>> /\ pc' = [pc EXCEPT ![t] = "opening"]
    BY <1>1, <1>8, <2>1 DEF Open, Goto, AppType
  <2>3. P(t)' /\ \A u \in Apps : u # t => Same(u)
    BY <1>1, <2>1, <2>2 DEF AppType
  <2> QED
    BY <1>3, <2>3
<1>9. ASSUME NEW t \in Apps, Opened(t) PROVE TargetInv'
  <2>1. pc[t] = "opening" /\ mine' = mine
    BY <1>9 DEF Opened
  <2>2. \/ /\ open' = [open EXCEPT ![t] = @ \cup {target[t]}] /\ target' = [target EXCEPT ![t] = NoDev]
           /\ pc' = [pc EXCEPT ![t] = "idle"]
        \/ UNCHANGED <<open, target>> /\ pc' = [pc EXCEPT ![t] = "failed"]
    BY <1>9 DEF Opened, Goto
  <2>3. P(t)' /\ \A u \in Apps : u # t => Same(u)
    BY <1>1, <1>2, <2>1, <2>2 DEF AppType
  <2> QED
    BY <1>3, <2>3
<1>10. ASSUME NEW t \in Apps, OpenNoDevice(t) PROVE TargetInv'
  <2>1. pc[t] = "opening" /\ UNCHANGED <<mine, open, target>>
        /\ (pc' = [pc EXCEPT ![t] = "early"] \/ pc' = [pc EXCEPT ![t] = "failed"])
    BY <1>10 DEF OpenNoDevice, Goto
  <2>2. P(t)' /\ \A u \in Apps : u # t => Same(u)
    BY <1>1, <1>2, <2>1 DEF AppType
  <2> QED
    BY <1>3, <2>2
<1>11. ASSUME NEW t \in Apps, OpenFailed(t) \/ Registered(t) PROVE TargetInv'
  <2>1. UNCHANGED open /\ target' = [target EXCEPT ![t] = NoDev] /\ pc' = [pc EXCEPT ![t] = "idle"] /\ UNCHANGED mine
    BY <1>11 DEF OpenFailed, Registered, Goto
  <2>2. P(t)' /\ \A u \in Apps : u # t => Same(u)
    BY <1>1, <2>1 DEF AppType
  <2> QED
    BY <1>3, <2>2
<1>12. ASSUME NEW t \in Apps, Register(t) PROVE TargetInv'
  <2> DEFINE c == CHOOSE x \in Cbs : cb[x] = "unused"
  <2>1. c \in Cbs /\ pc[t] = "idle" /\ UNCHANGED <<mine, open>>
    BY <1>12 DEF Register, MayRegister, Next1
  <2>2. \/ pc' = [pc EXCEPT ![t] = "idle"] /\ target' = target
        \/ pc' = [pc EXCEPT ![t] = "enumerate"] /\ target' = [target EXCEPT ![t] = c]
    BY <1>12 DEF Register, Goto
  <2> HIDE DEF c
  <2>3. P(t)' /\ \A u \in Apps : u # t => Same(u)
    BY <1>1, <1>2, <2>1, <2>2 DEF AppType
  <2> QED
    BY <1>3, <2>3
<1>13. ASSUME PollDone PROVE TargetInv'
  <2>1. PICK t \in Apps : pc[t] = "poll" /\ pc' = [pc EXCEPT ![t] = "walk"] /\ UNCHANGED <<mine, open, target>>
    BY <1>13 DEF PollDone
  <2>2. P(t)' /\ \A u \in Apps : u # t => Same(u)
    BY <1>1, <1>2, <2>1 DEF AppType
  <2> QED
    BY <1>3, <2>1, <2>2
<1>14. ASSUME EventDone PROVE TargetInv'
  <2>1. CASE UNCHANGED pc
    BY <1>4, <1>14, <2>1 DEF EventDone
  <2>2. CASE hp.owner \in Apps /\ pc[hp.owner] = "early" /\ pc' = [pc EXCEPT ![hp.owner] = "failed"]
    <3>1. PICK t \in Apps : pc[t] = "early" /\ pc' = [pc EXCEPT ![t] = "failed"] /\ UNCHANGED <<mine, open, target>>
      BY <1>14, <2>2 DEF EventDone
    <3>2. P(t)' /\ \A u \in Apps : u # t => Same(u)
      BY <1>1, <1>2, <3>1 DEF AppType
    <3> QED
      BY <1>3, <3>1, <3>2
  <2> QED
    BY <1>14, <2>1, <2>2 DEF EventDone
<1> QED
  BY <1>4, <1>5, <1>6, <1>7, <1>8, <1>9, <1>10, <1>11, <1>12, <1>13, <1>14
  DEF Next, HotplugLock, Exiting, App, HandleEvents, Plug, Unplug, Receive, PollMore, ScanMore, ScanDone, Known, Gone,
      Allocate, EnumerateParent, Connect, Arrived, Disconnect, Left, Unreferenced, Scan, HotplugInit, Exit,
      FreeMessage, MessagesFreed, ReleaseListed, Released, OpenRefused, Deregister, PollError, TakeMessages,
      NextMessage, NextCallback, CallBack, MessageDone, StartSweep, Sweep, Swept, Finished

\* Messages that a device left: a queue loses them, and only Left adds one.
LEMMA SaidStep ==
  ASSUME Finite, SafeInv, MsgType', EvType', [Next]_vars, NEW d \in Devs
  PROVE  /\ Said(d) \in Nat /\ Said(d)' \in Nat
         /\ Said(d)' <= Said(d) \/ (Left /\ d = hp.new /\ Said(d)' <= Said(d) + 1)
<1>1. msgs \in Seq(MessageType) /\ ev.msgs \in Seq(MessageType) /\ MsgType /\ EvType /\ HpInv
  BY DEF SafeInv, Types, MsgType, EvType
<1>2. Said(d) \in Nat /\ Leavings(msgs, d) \in Nat /\ Leavings(ev.msgs, d) \in Nat
  BY <1>1, LeavingsNat DEF Said
<1>3. Said(d)' \in Nat
  BY PartsNext
<1>4. ASSUME UNCHANGED <<msgs, ev>> PROVE Said(d)' = Said(d)
  BY <1>4 DEF Said
<1>5. ASSUME ev'.msgs = ev.msgs, NEW m \in MessageType, msgs' = Append(msgs, m)
      PROVE  Said(d)' = Said(d) + (IF m = Message("LEFT", d) THEN 1 ELSE 0)
  <2>1. Leavings(msgs', d) = Leavings(msgs, d) + (IF m = Message("LEFT", d) THEN 1 ELSE 0)
    BY <1>1, <1>5, LeavingsAppend
  <2> QED
    BY <1>2, <1>5, <2>1 DEF Said
<1>6. CASE Left
  <2>1. hp.new \in Devs /\ ev' = ev /\ (msgs' = msgs \/ msgs' = Append(msgs, Message("LEFT", hp.new)))
    BY <1>1, <1>6 DEF Left, HpInv, Notify
  <2>2. Message("LEFT", hp.new) \in MessageType /\ (Message("LEFT", hp.new) = Message("LEFT", d) <=> hp.new = d)
    BY <2>1 DEF Message, MessageType
  <2>3. Said(d)' = Said(d) \/ Said(d)' = Said(d) + (IF hp.new = d THEN 1 ELSE 0)
    BY <1>4, <1>5, <2>1, <2>2
  <2> QED
    BY <1>2, <1>3, <1>6, <2>3
<1>7. CASE Arrived
  <2>1. hp.new \in Devs /\ ev' = ev /\ (msgs' = msgs \/ msgs' = Append(msgs, Message("ARRIVED", hp.new)))
    BY <1>1, <1>7 DEF Arrived, HpInv, Notify
  <2>2. Message("ARRIVED", hp.new) \in MessageType /\ Message("ARRIVED", hp.new) # Message("LEFT", d)
    BY <2>1 DEF Message, MessageType
  <2>3. Said(d)' = Said(d)
    BY <1>2, <1>4, <1>5, <2>1, <2>2
  <2> QED
    BY <1>2, <1>3, <2>3
<1>8. CASE TakeMessages
  <2>1. ev'.msgs = msgs /\ msgs' = <<>> /\ ev.msgs = <<>>
    BY <1>8 DEF TakeMessages, SafeInv, CbInv
  <2>2. Said(d)' = Said(d)
    BY <1>2, <2>1, LeavingsEmpty DEF Said
  <2> QED
    BY <1>2, <1>3, <2>2
<1>9. CASE MessageDone \/ FreeMessage
  <2>1. \/ msgs' = msgs /\ ev.msgs # <<>> /\ ev'.msgs = Tail(ev.msgs)
        \/ ev' = ev /\ msgs # <<>> /\ msgs' = Tail(msgs)
    BY <1>1, <1>9 DEF MessageDone, FreeMessage, SafeInv, CbInv, EvType
  <2>2. CASE msgs' = msgs /\ ev.msgs # <<>> /\ ev'.msgs = Tail(ev.msgs)
    <3>1. /\ Leavings(ev.msgs, d) = Leavings(Tail(ev.msgs), d) + (IF Head(ev.msgs) = Message("LEFT", d) THEN 1 ELSE 0)
          /\ Leavings(Tail(ev.msgs), d) \in Nat
      BY <1>1, <2>2, LeavingsTail, LeavingsNat, Taken
    <3>2. Leavings(ev'.msgs, d) <= Leavings(ev.msgs, d) /\ Leavings(ev'.msgs, d) \in Nat
      BY <2>2, <3>1
    <3>3. Said(d)' = Leavings(msgs, d) + Leavings(ev'.msgs, d)
      BY <2>2 DEF Said
    <3> QED
      BY <1>2, <1>3, <3>2, <3>3 DEF Said
  <2>3. CASE ev' = ev /\ msgs # <<>> /\ msgs' = Tail(msgs)
    <3>1. /\ Leavings(msgs, d) = Leavings(Tail(msgs), d) + (IF Head(msgs) = Message("LEFT", d) THEN 1 ELSE 0)
          /\ Leavings(Tail(msgs), d) \in Nat
      BY <1>1, <2>3, LeavingsTail, LeavingsNat, Taken
    <3>2. Leavings(msgs', d) <= Leavings(msgs, d) /\ Leavings(msgs', d) \in Nat
      BY <2>3, <3>1
    <3>3. Said(d)' = Leavings(msgs', d) + Leavings(ev.msgs, d)
      BY <2>3 DEF Said
    <3> QED
      BY <1>2, <1>3, <3>2, <3>3 DEF Said
  <2> QED
    BY <2>1, <2>2, <2>3
<1>10. ASSUME msgs' = msgs, ev'.msgs = ev.msgs PROVE Said(d)' <= Said(d)
  <2>1. Said(d)' = Said(d)
    BY <1>10 DEF Said
  <2> QED
    BY <1>2, <2>1
<1>11. ASSUME NextMessage \/ NextCallback \/ CallBack \/ StartSweep PROVE msgs' = msgs /\ ev'.msgs = ev.msgs
  BY <1>1, <1>11 DEF NextMessage, NextCallback, CallBack, StartSweep, EvType
<1>12. ASSUME Swept PROVE msgs' = msgs /\ ev'.msgs = ev.msgs
  BY <1>12 DEF Swept, Resting, SafeInv, CbInv
<1> QED
  BY ZenonT(60), <1>2, <1>3, <1>6, <1>7, <1>8, <1>9, <1>10, <1>11, <1>12
  DEF Next, HotplugLock, Exiting, App, HandleEvents, Plug, Unplug, Receive, PollMore, PollDone, EventDone, ScanMore,
      ScanDone, Known, Gone, Allocate, EnumerateParent, Connect, Disconnect, Unreferenced, Scan, HotplugInit, Exit,
      MessagesFreed, ReleaseListed, Released, ListPoll, ListWalk, FreeList, OpenRefused, Open, Opened, OpenNoDevice,
      OpenFailed, Wrap, Close, Register, CallArrived, Registered, Deregister, PollError, Sweep, Finished

\* Who is inside linux_hotplug_lock goes on; nobody else gets in.
LEMMA LockStep ==
  ASSUME Distinct, SafeInv, [Next]_vars
  PROVE  \/ hp' = hp
         \/ hp.owner = NoOne /\ hp'.new = NoDev /\ hp'.child = NoDev /\ hp'.step \in {"next", "enumerate", "disconnect"}
         \/ hp.step \in {"next", "enumerate"} /\ hp'.new = NoDev /\ hp'.child = NoDev
            /\ hp'.step \in {"idle", "next", "enumerate", "disconnect"}
         \/ Allocate \/ EnumerateParent \/ Connect \/ Arrived \/ Disconnect \/ Left \/ Unreferenced
<1>1. HpType /\ HpInv /\ BusType
  BY DEF SafeInv, Types
<1>2. ASSUME PollDone \/ EventDone \/ ScanDone
      PROVE  hp.step = "next" /\ hp'.new = NoDev /\ hp'.child = NoDev /\ hp'.step = "idle"
  BY <1>2 DEF PollDone, EventDone, ScanDone, Unlock, Idle
<1>3. ASSUME PollMore \/ ScanMore \/ Known \/ Gone
      PROVE  hp.step \in {"next", "enumerate"} /\ hp'.new = NoDev /\ hp'.child = NoDev
             /\ hp'.step \in {"next", "enumerate", "disconnect"}
  <2>1. hp.step \in {"next", "enumerate"}
    BY <1>3 DEF PollMore, ScanMore, Known, Gone
  <2>2. hp.new = NoDev /\ hp.child = NoDev
    BY <1>1, <2>1 DEF HpInv
  <2>3. hp'.new = hp.new /\ hp'.child = hp.child /\ hp'.step \in {"next", "enumerate", "disconnect"}
    BY <1>1, <1>3 DEF PollMore, ScanMore, Known, Gone, HpType, StepOf
  <2> QED
    BY <2>1, <2>2, <2>3
<1>4. ASSUME NEW o, NEW s, NEW i, Lock(o, s, i), s \in {"next", "enumerate", "disconnect"}
      PROVE  hp.owner = NoOne /\ hp'.new = NoDev /\ hp'.child = NoDev /\ hp'.step \in {"next", "enumerate", "disconnect"}
  BY <1>4 DEF Lock, Idle
<1>5. ASSUME Receive \/ PollError \/ \E t \in Apps : ListPoll(t) \/ OpenNoDevice(t)
      PROVE  hp' = hp \/ \E o, i : \E s \in {"next", "enumerate", "disconnect"} : Lock(o, s, i)
  <2>1. CASE Receive
    BY <2>1 DEF Receive, StepOf
  <2>2. CASE PollError
    BY <2>2 DEF PollError
  <2>3. CASE \E t \in Apps : ListPoll(t) \/ OpenNoDevice(t)
    BY <2>3 DEF ListPoll, OpenNoDevice
  <2> QED
    BY <1>5, <2>1, <2>2, <2>3
<1>6. ASSUME Scan
      PROVE  hp.owner = NoOne /\ hp'.new = NoDev /\ hp'.child = NoDev /\ hp'.step \in {"next", "enumerate", "disconnect"}
  BY <1>6 DEF Scan, Idle
<1> QED
  BY ZenonT(60), <1>2, <1>3, <1>4, <1>5, <1>6
  DEF Next, HotplugLock, Exiting, App, HandleEvents, Plug, Unplug, HotplugInit, Exit, FreeMessage, MessagesFreed,
      ReleaseListed, Released, ListWalk, FreeList, OpenRefused, Open, Opened, OpenFailed, Wrap, Close, Register,
      CallArrived, Registered, Deregister, TakeMessages, NextMessage, NextCallback, CallBack, MessageDone, StartSweep,
      Sweep, Swept, Finished

LEMMA KeptStep ==
  ASSUME Distinct, SafeInv, [Next]_vars
  PROVE  \A d \in Range(Kept') : d \in Range(Kept) \/ (Connect /\ d = hp.new)
<1>1. ListType /\ HpType /\ HpInv /\ PhaseInv
  BY DEF SafeInv, Types
<1>2. CASE MessagesFreed
  BY <1>2 DEF MessagesFreed, Kept
<1>3. CASE ReleaseListed
  <2>1. Kept = leaving /\ Kept' = leaving' /\ leaving # <<>> /\ leaving' = Tail(leaving)
    BY <1>3 DEF ReleaseListed, Kept
  <2> QED
    BY <1>1, <2>1, Taken DEF ListType
<1>4. CASE Connect
  <2>1. Kept = listed /\ phase' = phase /\ phase \notin {"devices", "end"}
    BY <1>4, InLock DEF Connect, Exits
  <2>2. Kept' = listed' /\ listed' = <<hp.new>> \o listed /\ hp.new \in Devs
    BY <1>1, <1>4, <2>1 DEF Connect, Kept, HpInv
  <2> QED
    BY <1>1, <1>4, <2>1, <2>2, Prepended DEF ListType
<1>5. CASE Disconnect
  <2>1. Kept = listed /\ phase' = phase /\ phase \notin {"devices", "end"}
    BY <1>5, InLock DEF Disconnect, Exits
  <2>2. Kept' = listed' /\ (listed' = listed \/ listed' = RemoveFirst(listed, ListedAs(hp.id)))
    BY <1>5, <2>1 DEF Disconnect, Kept
  <2> QED
    BY <1>1, <2>1, <2>2, Unlisted DEF ListType
<1>6. UNCHANGED <<listed, leaving>> \/ MessagesFreed \/ ReleaseListed \/ Connect \/ Disconnect
  BY ZenonT(60)
  DEF Next, HotplugLock, Exiting, App, HandleEvents, Plug, Unplug, Receive, PollMore, PollDone, EventDone, ScanMore,
      ScanDone, Known, Gone, Allocate, EnumerateParent, Arrived, Left, Unreferenced, Scan, HotplugInit, Exit,
      FreeMessage, Released, ListPoll, ListWalk, FreeList, OpenRefused, Open, Opened, OpenNoDevice, OpenFailed, Wrap,
      Close, Register, CallArrived, Registered, Deregister, PollError, TakeMessages, NextMessage, NextCallback,
      CallBack, MessageDone, StartSweep, Sweep, Swept, Finished
<1>7. MessagesFreed \/ (phase \in {"devices", "end"} <=> phase' \in {"devices", "end"})
  <2>1. hp.owner = Main => phase = "scan"
    BY <1>1 DEF PhaseInv
  <2>2. CASE Scan \/ HotplugInit \/ ScanDone \/ Exit \/ Released
    BY <2>1, <2>2 DEF Scan, HotplugInit, ScanDone, Exit, Released
  <2>3. phase' = phase \/ MessagesFreed \/ Scan \/ HotplugInit \/ ScanDone \/ Exit \/ Released
    BY ZenonT(60)
    DEF Next, HotplugLock, Exiting, App, HandleEvents, Plug, Unplug, Receive, PollMore, PollDone, EventDone, ScanMore,
        Known, Gone, Allocate, EnumerateParent, Connect, Arrived, Disconnect, Left, Unreferenced, FreeMessage,
        ReleaseListed, ListPoll, ListWalk, FreeList, OpenRefused, Open, Opened, OpenNoDevice, OpenFailed, Wrap, Close,
        Register, CallArrived, Registered, Deregister, PollError, TakeMessages, NextMessage, NextCallback, CallBack,
        MessageDone, StartSweep, Sweep, Swept, Finished
  <2> QED
    BY <2>2, <2>3
<1>8. CASE UNCHANGED <<listed, leaving>> /\ (phase \in {"devices", "end"} <=> phase' \in {"devices", "end"})
  BY <1>8 DEF Kept
<1> QED
  BY <1>2, <1>3, <1>4, <1>5, <1>6, <1>7, <1>8

\* A device is said to have left once, when it is neither listed nor on its way.
LEMMA SaidNext ==
  ASSUME Finite, Distinct, SafeInv, MsgType', EvType', [Next]_vars
  PROVE  SaidInv'
<1>1. SaidInv /\ HpInv /\ HpType /\ MsgType /\ EvType /\ ListType
  BY DEF SafeInv, Types
<1> DEFINE OnWay(d) == hp.child = d \/ (hp.new = d /\ hp.step \in {"connect", "left"})
<1>2. ASSUME NEW d \in Devs, OnWay(d)'
      PROVE  ~Left /\ (OnWay(d) \/ d \in Unused \/ d \in Range(Kept))
  <2>1. CASE hp' = hp /\ ~Left
    BY <1>2, <2>1
  <2>2. CASE hp'.new = NoDev /\ hp'.child = NoDev
    BY <1>2, <2>2 DEF Distinct
  <2>3. CASE Allocate
    <3>1. hp.child = NoDev /\ hp.new = NoDev /\ hp.step = "enumerate" /\ NextNew \in Unused
      BY <1>1, <2>3 DEF Allocate, HpInv, NextNew, MayAllocate
    <3>2. (hp'.child = NextNew /\ hp'.new = hp.new) \/ (hp'.child = hp.child /\ hp'.new = NextNew)
      BY <1>1, <2>3 DEF Allocate, NextNew, HpType
    <3>3. ~Left
      BY <3>1 DEF Left
    <3> QED
      BY <1>2, <3>1, <3>2, <3>3 DEF Distinct
  <2>4. CASE EnumerateParent
    <3>1. hp.step = "parent" /\ (hp'.child = hp.child \/ hp'.child = NoDev)
          /\ ((hp'.new = NextNew /\ NextNew \in Unused) \/ hp'.new = hp.child)
      BY <1>1, <2>4 DEF EnumerateParent, NextNew, MayAllocate, HpType
    <3> QED
      BY <1>2, <3>1 DEF Distinct, Left
  <2>5. CASE Connect
    <3>1. hp.step = "connect" /\ hp'.step = "arrived" /\ hp'.child = hp.child
      BY <1>1, <2>5 DEF Connect, HpType
    <3> QED
      BY <1>2, <3>1 DEF Left
  <2>6. CASE Arrived
    <3>1. hp.step = "arrived" /\ hp'.child = NoDev /\ (hp'.new = NoDev \/ hp'.new = hp.child)
      BY <1>1, <2>6 DEF Arrived, HpType
    <3> QED
      BY <1>2, <3>1 DEF Distinct, Left
  <2>7. CASE Disconnect
    <3>1. hp.step = "disconnect" /\ hp.child = NoDev /\ hp.new = NoDev /\ hp'.child = hp.child
          /\ (hp'.new = hp.new \/ (ListedAs(hp.id) # NoDev /\ hp'.new = ListedAs(hp.id)))
      BY <1>1, <2>7 DEF Disconnect, HpType, HpInv
    <3>2. d \in Range(listed)
      BY <1>1, <1>2, <3>1, ListedAsIs DEF Distinct
    <3>3. Kept = listed
      BY <3>1, InLock
    <3> QED
      BY <3>1, <3>2, <3>3 DEF Left
  <2>8. CASE Left
    <3>1. hp'.child = NoDev /\ hp'.step = "unref"
      BY <1>1, <2>8 DEF Left, HpType, HpInv
    <3> QED
      BY <1>2, <3>1 DEF Distinct
  <2>9. CASE Unreferenced
    <3>1. hp'.child = NoDev /\ hp'.new = NoDev
      BY <1>1, <2>9 DEF Unreferenced, HpType, HpInv
    <3> QED
      BY <1>2, <3>1 DEF Distinct
  <2> QED
    BY <2>1, <2>2, <2>3, <2>4, <2>5, <2>6, <2>7, <2>8, <2>9, LockStep
<1>3. ASSUME NEW d \in Devs, d \in Range(Kept')
      PROVE  (d \in Range(Kept) \/ OnWay(d)) /\ ~(Left /\ d = hp.new)
  <2>1. d \in Range(Kept) \/ OnWay(d)
    BY <1>3, KeptStep DEF Connect
  <2>2. ASSUME Left, d = hp.new PROVE FALSE
    <3>1. hp.step = "left" /\ Kept = listed /\ hp.new \notin Range(listed)
      BY <1>1, <2>2, InLock DEF Left, HpInv
    <3>2. listed' = listed /\ phase' = phase
      BY <2>2 DEF Left
    <3>3. Kept' = Kept
      BY <2>2, <3>2 DEF Left, Kept
    <3> QED
      BY <1>3, <2>2, <3>1, <3>3
  <2> QED
    BY <2>1, <2>2
<1>4. ASSUME NEW d \in Devs, d \in Range(Kept) \/ OnWay(d) \/ d \in Unused PROVE Said(d) = 0
  <2>1. CASE d \in Unused
    <3>1. Outer(d) = 0
      BY <2>1, UnusedIs
    <3>2. In(d) \in Nat /\ Said(d) \in Nat /\ HasHandle(d) \in Nat /\ Aiming(d) \in Nat /\ UnderWay(d) \in Nat /\ HasList(d) \in Nat
      BY <1>1, Parts
    <3> QED
      BY <3>1, <3>2 DEF Outer
  <2> QED
    BY <1>1, <1>4, <2>1 DEF SaidInv
<1>5. ASSUME NEW d \in Devs PROVE Said(d)' <= 1
  <2>1. Said(d) \in Nat /\ Said(d)' \in Nat /\ (Said(d)' <= Said(d) \/ (Left /\ d = hp.new /\ Said(d)' <= Said(d) + 1))
    BY SaidStep
  <2>2. Said(d) <= 1 /\ (Left /\ d = hp.new => Said(d) = 0)
    BY <1>1 DEF SaidInv, Left
  <2> QED
    BY <2>1, <2>2
<1>6. ASSUME NEW d \in Devs, OnWay(d)' \/ d \in Range(Kept') PROVE Said(d)' = 0
  <2>1. Said(d) \in Nat /\ Said(d)' \in Nat /\ (Said(d)' <= Said(d) \/ (Left /\ d = hp.new /\ Said(d)' <= Said(d) + 1))
    BY SaidStep
  <2>2. Said(d) = 0 /\ ~(Left /\ d = hp.new)
    BY <1>2, <1>3, <1>4, <1>6
  <2> QED
    BY <2>1, <2>2
<1> QED
  BY <1>5, <1>6 DEF SaidInv

LEMMA Appended ==
  ASSUME NEW S, NEW s \in Seq(S), NEW m \in S
  PROVE  /\ Len(s) \in Nat /\ DOMAIN Append(s, m) = 1..Len(s) + 1 /\ Append(s, m)[Len(s) + 1] = m
         /\ \A j \in 1..Len(s) : Append(s, m)[j] = s[j]
BY AppendProperties

\* What a message that a device arrived relies on.
LEMMA ArrivedNext ==
  ASSUME Distinct, SafeInv, [Next]_vars
  PROVE  ArrivedInv'
<1>1. ArrivedInv /\ HpInv /\ HpType /\ MsgType /\ EvType /\ ListType /\ PhaseInv /\ CbInv
  BY DEF SafeInv, Types
<1>2. msgs \in Seq(MessageType) /\ ev.msgs \in Seq(MessageType) /\ Len(msgs) \in Nat /\ Len(ev.msgs) \in Nat
      /\ DOMAIN msgs = 1..Len(msgs) /\ DOMAIN ev.msgs = 1..Len(ev.msgs)
  <2>1. msgs \in Seq(MessageType) /\ ev.msgs \in Seq(MessageType)
    BY <1>1 DEF MsgType, EvType
  <2> QED
    BY <2>1
<1> DEFINE Gone1(q, d) == \E j \in DOMAIN q : q[j] = Message("LEFT", d)
           Later(q, k, d) == \E j \in DOMAIN q : j > k /\ q[j] = Message("LEFT", d)
           After(d) == d \in Range(listed') \/ (hp'.step = "left" /\ hp'.new = d)
<1>3. /\ \A k \in DOMAIN msgs : msgs[k].event = "ARRIVED" => Standing(msgs[k].dev) \/ Later(msgs, k, msgs[k].dev)
      /\ \A k \in DOMAIN ev.msgs : ev.msgs[k].event = "ARRIVED" =>
            Standing(ev.msgs[k].dev) \/ Later(ev.msgs, k, ev.msgs[k].dev) \/ Gone1(msgs, ev.msgs[k].dev)
  BY <1>1 DEF ArrivedInv
<1>4. ASSUME \A k \in DOMAIN msgs' : msgs'[k].event = "ARRIVED" =>
                  After(msgs'[k].dev) \/ Later(msgs', k, msgs'[k].dev),
             \A k \in DOMAIN ev'.msgs : ev'.msgs[k].event = "ARRIVED" =>
                  After(ev'.msgs[k].dev) \/ Later(ev'.msgs, k, ev'.msgs[k].dev) \/ Gone1(msgs', ev'.msgs[k].dev)
      PROVE  ArrivedInv'
  BY <1>4 DEF ArrivedInv, Standing
<1>5. ASSUME NEW d, Standing(d), ~ReleaseListed PROVE After(d) \/ (Left /\ d = hp.new)
  <2>1. CASE d \in Range(listed)
    <3>1. d \in Range(listed') \/ (Disconnect /\ ListedAs(hp.id) # NoDev /\ d = ListedAs(hp.id))
      BY <1>1, <1>5, <2>1, ListStep
    <3>2. Disconnect /\ ListedAs(hp.id) # NoDev => hp'.step = "left" /\ hp'.new = ListedAs(hp.id)
      BY <1>1 DEF Disconnect, HpType
    <3> QED
      BY <3>1, <3>2 DEF Standing
  <2>2. CASE hp.step = "left" /\ hp.new = d
    <3>1. hp' = hp \/ Left
      BY <1>1, <2>2, LockStep DEF HpInv, Allocate, EnumerateParent, Connect, Arrived, Disconnect, Unreferenced
    <3> QED
      BY <2>2, <3>1 DEF Standing
  <2> QED
    BY <1>5, <2>1, <2>2 DEF Standing
<1>6. ASSUME msgs' = msgs, ev'.msgs = ev.msgs, ~ReleaseListed, ~Left PROVE ArrivedInv'
  BY <1>3, <1>4, <1>5, <1>6
<1>7. CASE ReleaseListed
  <2>1. msgs = <<>> /\ ev.msgs = <<>> /\ UNCHANGED <<msgs, ev>>
    BY <1>1, <1>7 DEF ReleaseListed, PhaseInv, CbInv
  <2> QED
    BY <1>4, <2>1
<1>8. CASE Left
  <2> DEFINE x == hp.new
             m == Message("LEFT", x)
  <2>1. x \in Devs /\ msgs' = Append(msgs, m) /\ ev' = ev /\ ~ReleaseListed
    <3>1. hp.step = "left" /\ hp.owner # NoOne
      BY <1>1, <1>8 DEF Left, HpInv
    <3>2. ready /\ phase \notin Exits
      BY <1>1, <3>1 DEF PhaseInv
    <3> QED
      BY <1>1, <1>8, <3>1, <3>2 DEF Left, Notify, HpInv, ReleaseListed, Exits
  <2>2. m \in MessageType /\ m.event = "LEFT"
    BY <2>1 DEF Message, MessageType
  <2> HIDE DEF m
  <2>3. DOMAIN msgs' = 1..Len(msgs) + 1 /\ (\A j \in 1..Len(msgs) : msgs'[j] = msgs[j]) /\ msgs'[Len(msgs) + 1] = m
    <3>1. /\ DOMAIN Append(msgs, m) = 1..Len(msgs) + 1 /\ Append(msgs, m)[Len(msgs) + 1] = m
          /\ \A j \in 1..Len(msgs) : Append(msgs, m)[j] = msgs[j]
      BY <1>2, <2>2, Appended
    <3> QED
      BY <2>1, <3>1, Zenon
  <2>4. \A d : d = x => m = Message("LEFT", d)
    BY DEF m
  <2> HIDE DEF x
  <2>5. ASSUME NEW d, Standing(d) PROVE After(d) \/ d = x
    BY <1>5, <2>1, <2>5 DEF x
  <2>6. ASSUME NEW k \in DOMAIN msgs', msgs'[k].event = "ARRIVED"
        PROVE  After(msgs'[k].dev) \/ Later(msgs', k, msgs'[k].dev)
    <3>1. k \in 1..Len(msgs) /\ msgs'[k] = msgs[k] /\ Len(msgs) + 1 > k
      BY <1>2, <2>2, <2>3, <2>6
    <3>2. CASE Standing(msgs[k].dev)
      BY <1>2, <2>3, <2>4, <2>5, <3>1, <3>2
    <3>3. CASE Later(msgs, k, msgs[k].dev)
      BY <1>2, <2>3, <3>1, <3>3
    <3> QED
      BY <1>2, <1>3, <2>6, <3>1, <3>2, <3>3
  <2>7. ASSUME NEW k \in DOMAIN ev'.msgs, ev'.msgs[k].event = "ARRIVED"
        PROVE  After(ev'.msgs[k].dev) \/ Later(ev'.msgs, k, ev'.msgs[k].dev) \/ Gone1(msgs', ev'.msgs[k].dev)
    <3>1. CASE Standing(ev.msgs[k].dev)
      <4>1. CASE ev.msgs[k].dev = x
        <5>1. Len(msgs) + 1 \in DOMAIN msgs' /\ msgs'[Len(msgs) + 1] = Message("LEFT", ev.msgs[k].dev)
          BY <1>2, <2>3, <2>4, <4>1
        <5> QED
          BY <2>1, <5>1
      <4> QED
        BY <2>1, <2>5, <3>1, <4>1
    <3>2. CASE Gone1(msgs, ev.msgs[k].dev)
      <4>1. PICK j \in 1..Len(msgs) : msgs[j] = Message("LEFT", ev.msgs[k].dev)
        BY <1>2, <3>2
      <4>2. j \in DOMAIN msgs' /\ msgs'[j] = msgs[j]
        BY <1>2, <2>3, <4>1
      <4> QED
        BY <2>1, <4>1, <4>2
    <3> QED
      BY <1>3, <2>1, <2>7, <3>1, <3>2
  <2> QED
    BY <1>4, <2>6, <2>7
<1>9. CASE Arrived
  <2> DEFINE x == hp.new
             m == Message("ARRIVED", x)
  <2>1. x \in Devs /\ x \in Range(listed) /\ listed' = listed /\ ev' = ev /\ ~ReleaseListed /\ ~Left
        /\ (msgs' = msgs \/ msgs' = Append(msgs, m))
    <3>1. hp.step = "arrived" /\ phase \notin Exits
      BY <1>9, InLock DEF Arrived
    <3> QED
      BY <1>1, <1>9, <3>1 DEF Arrived, Notify, HpInv, ReleaseListed, Left, Exits
  <2>2. CASE msgs' = msgs
    BY <1>6, <2>1, <2>2
  <2>3. CASE msgs' = Append(msgs, m)
    <3>1. m \in MessageType /\ m.dev = x
      BY <2>1 DEF Message, MessageType
    <3> HIDE DEF m, x
    <3>2. DOMAIN msgs' = 1..Len(msgs) + 1 /\ (\A j \in 1..Len(msgs) : msgs'[j] = msgs[j]) /\ msgs'[Len(msgs) + 1] = m
      <4>1. /\ DOMAIN Append(msgs, m) = 1..Len(msgs) + 1 /\ Append(msgs, m)[Len(msgs) + 1] = m
            /\ \A j \in 1..Len(msgs) : Append(msgs, m)[j] = msgs[j]
        BY <1>2, <3>1, Appended
      <4> QED
        BY <2>3, <4>1, Zenon
    <3>3. After(x) /\ \A d : Standing(d) => After(d)
      BY <1>5, <2>1 DEF Standing
    <3>4. ASSUME NEW k \in DOMAIN msgs', msgs'[k].event = "ARRIVED"
          PROVE  After(msgs'[k].dev) \/ Later(msgs', k, msgs'[k].dev)
      <4>1. CASE k = Len(msgs) + 1
        BY <3>1, <3>2, <3>3, <4>1
      <4>2. CASE k \in 1..Len(msgs)
        <5>1. CASE Standing(msgs[k].dev)
          BY <3>2, <3>3, <4>2, <5>1
        <5>2. CASE Later(msgs, k, msgs[k].dev)
          BY <1>2, <3>2, <4>2, <5>2
        <5> QED
          BY <1>2, <1>3, <3>2, <3>4, <4>2, <5>1, <5>2
      <4> QED
        BY <1>2, <3>2, <4>1, <4>2
    <3>5. ASSUME NEW k \in DOMAIN ev'.msgs, ev'.msgs[k].event = "ARRIVED"
          PROVE  After(ev'.msgs[k].dev) \/ Later(ev'.msgs, k, ev'.msgs[k].dev) \/ Gone1(msgs', ev'.msgs[k].dev)
      <4>1. CASE Standing(ev.msgs[k].dev)
        BY <2>1, <3>3, <4>1
      <4>2. CASE Gone1(msgs, ev.msgs[k].dev)
        BY <1>2, <2>1, <3>2, <4>2
      <4> QED
        BY <1>3, <2>1, <3>5, <4>1, <4>2
    <3> QED
      BY <1>4, <3>4, <3>5
  <2> QED
    BY <2>1, <2>2, <2>3
<1>10. CASE TakeMessages
  <2>1. ev'.msgs = msgs /\ msgs' = <<>> /\ ~ReleaseListed /\ ~Left
    <3>1. hp' = hp /\ phase = "ready" /\ ev'.msgs = msgs /\ msgs' = <<>>
      BY <1>10 DEF TakeMessages
    <3> QED
      BY <1>1, <3>1 DEF ReleaseListed, Left, HpType
  <2> QED
    BY <1>3, <1>4, <1>5, <2>1
\* The first message of a queue is done: what is later stays later.
<1>11. ASSUME NEW q \in Seq(MessageType), q # <<>>
       PROVE  /\ DOMAIN Tail(q) = 1..Len(q) - 1 /\ Len(q) \in Nat
              /\ \A k \in DOMAIN Tail(q) : k + 1 \in DOMAIN q /\ Tail(q)[k] = q[k + 1]
              /\ \A d : \A k \in DOMAIN Tail(q) : Later(q, k + 1, d) => Later(Tail(q), k, d)
  <2>1. /\ Tail(q) \in Seq(MessageType) /\ Len(Tail(q)) = Len(q) - 1 /\ Len(q) \in Nat \ {0}
        /\ \A i \in 1..Len(q) - 1 : Tail(q)[i] = q[i + 1]
    BY <1>11, Taken
  <2>2. DOMAIN Tail(q) = 1..Len(q) - 1 /\ DOMAIN q = 1..Len(q)
    BY <2>1
  <2>3. ASSUME NEW k \in DOMAIN Tail(q), NEW d, Later(q, k + 1, d) PROVE Later(Tail(q), k, d)
    <3>1. PICK j \in 1..Len(q) : j > k + 1 /\ q[j] = Message("LEFT", d)
      BY <2>2, <2>3
    <3>2. j - 1 \in DOMAIN Tail(q) /\ j - 1 > k /\ (j - 1) + 1 = j
      BY <2>1, <2>2, <3>1
    <3> QED
      BY <2>1, <2>2, <3>1, <3>2
  <2> QED
    BY <2>1, <2>2, <2>3
<1>12. CASE FreeMessage
  <2>1. msgs # <<>> /\ msgs' = Tail(msgs) /\ ev'.msgs = <<>> /\ ~ReleaseListed /\ ~Left
    BY <1>1, <1>12 DEF FreeMessage, ReleaseListed, Left, PhaseInv, HpInv, CbInv, Exits
  <2>2. ASSUME NEW k \in DOMAIN msgs', msgs'[k].event = "ARRIVED"
        PROVE  After(msgs'[k].dev) \/ Later(msgs', k, msgs'[k].dev)
    <3>1. k + 1 \in DOMAIN msgs /\ msgs'[k] = msgs[k + 1]
          /\ \A d : Later(msgs, k + 1, d) => Later(msgs', k, d)
      <4> HIDE DEF Later
      <4>1. k \in DOMAIN Tail(msgs) /\ msgs \in Seq(MessageType) /\ msgs # <<>>
        BY <1>2, <2>1, <2>2
      <4> QED
        BY <1>11, <2>1, <4>1, Zenon
    <3> HIDE DEF Later
    <3> QED
      BY <1>3, <1>5, <2>1, <2>2, <3>1
  <2> QED
    BY <1>4, <2>1, <2>2
<1>13. CASE MessageDone
  <2>1. ev.msgs # <<>> /\ ev'.msgs = Tail(ev.msgs) /\ msgs' = msgs /\ ~ReleaseListed /\ ~Left
    <3>1. ev.step = "callbacks" /\ hp' = hp /\ phase = "ready"
      BY <1>1, <1>13 DEF MessageDone, PhaseInv
    <3> QED
      BY <1>1, <1>13, <3>1 DEF MessageDone, ReleaseListed, Left, CbInv, EvType, HpType
  <2>2. ASSUME NEW k \in DOMAIN ev'.msgs, ev'.msgs[k].event = "ARRIVED"
        PROVE  After(ev'.msgs[k].dev) \/ Later(ev'.msgs, k, ev'.msgs[k].dev) \/ Gone1(msgs', ev'.msgs[k].dev)
    <3>1. k + 1 \in DOMAIN ev.msgs /\ ev'.msgs[k] = ev.msgs[k + 1]
          /\ \A d : Later(ev.msgs, k + 1, d) => Later(ev'.msgs, k, d)
      BY <1>2, <1>11, <2>1, <2>2
    <3> HIDE DEF Later
    <3> QED
      BY <1>3, <1>5, <2>1, <2>2, <3>1
  <2>3. \A k \in DOMAIN msgs' : msgs'[k].event = "ARRIVED" =>
             After(msgs'[k].dev) \/ Later(msgs', k, msgs'[k].dev)
    BY <1>3, <1>5, <2>1
  <2> QED
    BY <1>4, <2>2, <2>3
<1>14. ASSUME NextMessage \/ NextCallback \/ CallBack \/ StartSweep PROVE msgs' = msgs /\ ev'.msgs = ev.msgs
  BY <1>1, <1>14 DEF NextMessage, NextCallback, CallBack, StartSweep, EvType
<1>15. ASSUME Swept PROVE msgs' = msgs /\ ev'.msgs = ev.msgs
  BY <1>1, <1>15 DEF Swept, Resting, CbInv
<1> QED
  BY ZenonT(60), <1>6, <1>7, <1>8, <1>9, <1>10, <1>12, <1>13, <1>14, <1>15
  DEF Next, HotplugLock, Exiting, App, HandleEvents, Plug, Unplug, Receive, PollMore, PollDone, EventDone, ScanMore,
      ScanDone, Known, Gone, Allocate, EnumerateParent, Connect, Disconnect, Unreferenced, Scan, HotplugInit, Exit,
      MessagesFreed, Released, ListPoll, ListWalk, FreeList, OpenRefused, Open, Opened, OpenNoDevice, OpenFailed,
      Wrap, Close, Register, CallArrived, Registered, Deregister, PollError, Sweep, Finished

\* The lock has an owner while something is under way, and an id to work on.
LEMMA OwnerNext ==
  ASSUME Finite, Distinct, SafeInv, [Next]_vars
  PROVE  /\ hp'.owner = NoOne <=> hp'.step = "idle"
         /\ hp'.step = "idle" => hp' = Idle
         /\ hp'.step \in {"enumerate", "disconnect"} => hp'.id \in Ids
<1>1. HpInv /\ HpType /\ BusType /\ AppType /\ Families /\ TargetInv
  BY DEF SafeInv, Types
<1>2. CASE hp' = hp
  BY <1>1, <1>2 DEF HpInv
<1>3. CASE PollDone \/ EventDone \/ ScanDone
  BY <1>3 DEF PollDone, EventDone, ScanDone, Unlock, Idle
<1>4. queue # <<>> => Head(queue).id \in Ids
  <2>1. queue # <<>> => Head(queue) \in EventType
    BY <1>1, Taken DEF BusType
  <2> QED
    BY <2>1 DEF EventType
<1>5. ASSUME NEW o, NEW s, NEW i, Lock(o, s, i), o # NoOne, s = "next" \/ (s \in {"enumerate", "disconnect"} /\ i \in Ids)
      PROVE  /\ hp'.owner = NoOne <=> hp'.step = "idle"
             /\ hp'.step = "idle" => hp' = Idle
             /\ hp'.step \in {"enumerate", "disconnect"} => hp'.id \in Ids
  BY <1>5 DEF Lock, Idle
<1>6. CASE Receive
  <2>1. Lock(Monitor, StepOf(Head(queue)), Head(queue).id) /\ Head(queue).id \in Ids
    BY <1>4, <1>6 DEF Receive
  <2>2. StepOf(Head(queue)) \in {"enumerate", "disconnect"} /\ Monitor # NoOne
    BY DEF StepOf, Distinct
  <2> QED
    BY <1>5, <2>1, <2>2
<1>7. CASE Scan
  BY <1>7 DEF Scan, Idle, Distinct
<1>8. ASSUME NEW t \in Apps, ListPoll(t) PROVE Lock(t, "next", NoId) /\ t # NoOne
  BY <1>8 DEF ListPoll, Distinct
<1>9. ASSUME NEW d \in Devs, \E t \in Apps : d \in open[t] \/ d = target[t] PROVE dev[d].id \in Ids
  <2>1. dev[d].state = "alive"
    BY <1>9, HeldIsAlive
  <2> QED
    BY <1>1, <2>1 DEF Families
<1>10. ASSUME NEW t \in Apps, OpenNoDevice(t)
       PROVE  hp' = hp \/ (Lock(t, "disconnect", dev[target[t]].id) /\ dev[target[t]].id \in Ids /\ t # NoOne)
  BY <1>1, <1>9, <1>10 DEF OpenNoDevice, TargetInv, Distinct
<1>11. ASSUME PollError
       PROVE  hp' = hp \/ \E i \in Ids : Lock(Events, "disconnect", i)
  <2>1. \E t \in Apps : \E d \in open[t] : hp' = hp \/ Lock(Events, "disconnect", dev[d].id)
    BY <1>11 DEF PollError
  <2> QED
    BY <1>1, <1>9, <2>1 DEF AppType
<1>12. CASE PollMore \/ ScanMore \/ Known \/ Gone
  <2>1. hp.owner # NoOne /\ hp.step # "idle"
    BY <1>1, <1>12 DEF PollMore, ScanMore, Known, Gone, HpInv
  <2>2. hp'.owner = hp.owner /\ hp'.step # "idle" /\ (hp'.step \in {"enumerate", "disconnect"} => hp'.id \in Ids)
    BY <1>1, <1>4, <1>12 DEF PollMore, ScanMore, Known, Gone, HpType, StepOf
  <2> QED
    BY <2>1, <2>2
<1>13. CASE Allocate \/ EnumerateParent \/ Connect \/ Arrived \/ Disconnect \/ Left \/ Unreferenced
  <2>1. hp.owner # NoOne /\ hp.step # "idle"
    BY <1>1, <1>13 DEF Allocate, EnumerateParent, Connect, Arrived, Disconnect, Left, Unreferenced, HpInv
  <2>2. hp'.owner = hp.owner /\ hp'.step \in {"parent", "connect", "arrived", "next", "left", "unref"}
    BY <1>1, <1>13 DEF Allocate, EnumerateParent, Connect, Arrived, Disconnect, Left, Unreferenced, HpType
  <2> QED
    BY <2>1, <2>2
<1> QED
  <2>1. CASE \E t \in Apps : ListPoll(t)
    BY <1>5, <1>8, <2>1
  <2>2. CASE \E t \in Apps : OpenNoDevice(t)
    BY <1>2, <1>5, <1>10, <2>2
  <2>3. CASE PollError
    <3>1. Events # NoOne
      BY DEF Distinct
    <3> QED
      BY <1>2, <1>5, <1>11, <2>3, <3>1
  <2> HIDE DEF Idle
  <2> QED
    BY ZenonT(60), <1>2, <1>3, <1>6, <1>7, <1>12, <1>13, <2>1, <2>2, <2>3
    DEF Next, HotplugLock, Exiting, App, HandleEvents, Plug, Unplug, HotplugInit, Exit, FreeMessage, MessagesFreed,
        ReleaseListed, Released, ListWalk, FreeList, OpenRefused, Open, Opened, OpenFailed, Wrap, Close, Register,
        CallArrived, Registered, Deregister, TakeMessages, NextMessage, NextCallback, CallBack, MessageDone,
        StartSweep, Sweep, Swept, Finished

\* What is under way is not listed, and its id is free.
LEMMA HpNext ==
  ASSUME Finite, Topology, Distinct, SafeInv, ListType', HpType', MsgType', EvType', [Next]_vars
  PROVE  HpInv'
<1>1. HpInv /\ HpType /\ ListType /\ ListInv /\ DevType /\ BusType
  BY DEF SafeInv, Types
<1>2. /\ hp'.owner = NoOne <=> hp'.step = "idle"
      /\ hp'.step = "idle" => hp' = Idle
      /\ hp'.step \in {"enumerate", "disconnect"} => hp'.id \in Ids
  BY OwnerNext
<1>3. Range(listed) \subseteq Devs
  BY <1>1, RangeIs DEF ListType
<1> DEFINE F(i) == \A d \in Range(listed) : dev[d].id # i
           G(i) == \A d \in Range(listed') : dev'[d].id # i
<1>4. \A i : (NewId(i) <=> F(i)) /\ (ListedAs(i) = NoDev <=> F(i))
  BY <1>1, NewIdIs DEF NewId
<1>5. \A i : (NewId(i)' <=> G(i)) /\ (ListedAs(i)' = NoDev <=> G(i))
  <2> SUFFICES ASSUME NEW i PROVE (NewId(i)' <=> G(i)) /\ (ListedAs(i)' = NoDev <=> G(i))
    OBVIOUS
  <2> QED
    BY NewIdNext DEF NewId
\* What has to be shown when the child is NULL, and when it is not.
<1>6. ASSUME hp'.child = NoDev, hp'.step # "parent",
             hp'.step \in {"idle", "next", "enumerate", "disconnect"} => hp'.new = NoDev,
             hp'.step \in {"connect", "arrived", "left", "unref"} => hp'.new \in Devs /\ ~dev'[hp'.new].wrapped,
             hp'.step = "connect" => ~dev'[hp'.new].attached /\ hp'.new \notin Range(listed') /\ G(dev'[hp'.new].id),
             hp'.step = "arrived" => hp'.new \in Range(listed'),
             hp'.step \in {"left", "unref"} => hp'.new \notin Range(listed')
      PROVE  HpInv'
  BY <1>2, <1>5, <1>6 DEF HpInv
<1>7. ASSUME hp'.child # NoDev, hp'.step \in {"parent", "connect", "arrived"},
             hp'.step = "parent" => hp'.new = NoDev /\ Parent[hp'.id] \in Ids /\ G(Parent[hp'.id]),
             hp'.step \in {"connect", "arrived"} => /\ hp'.new \in Devs /\ ~dev'[hp'.new].wrapped
                                                    /\ dev'[hp'.new].id = Parent[hp'.id] /\ Parent[hp'.id] \in Ids,
             hp'.step = "connect" => ~dev'[hp'.new].attached /\ hp'.new \notin Range(listed') /\ G(dev'[hp'.new].id),
             hp'.step = "arrived" => hp'.new \in Range(listed'),
             dev'[hp'.child].id = hp'.id, hp'.id \in Ids, G(hp'.id), hp'.child \notin Range(listed'),
             ~dev'[hp'.child].attached, ~dev'[hp'.child].wrapped, dev'[hp'.child].parent = NoDev
      PROVE  HpInv'
  BY <1>2, <1>5, <1>7 DEF HpInv
<1>8. CASE hp'.new = NoDev /\ hp'.child = NoDev /\ hp'.step \in {"idle", "next", "enumerate", "disconnect"}
  BY <1>6, <1>8
\* While something is under way.
<1>9. ASSUME hp.step # "idle"
      PROVE  /\ phase \notin Exits
             /\ \A d \in Range(listed) : d \in Devs /\ d \notin Unused /\ dev'[d].id = dev[d].id
             /\ hp.new \in Devs => hp.new \notin Unused
             /\ hp.child \in Devs => hp.child \notin Unused
  <2>1. phase \notin Exits /\ phase \notin {"devices", "end"}
    BY <1>9, InLock DEF Exits
  <2>2. \A d \in Range(listed) : d \in Devs /\ d \notin Unused
    BY <2>1, WayIsAlive
  <2>3. \A d \in Range(listed) : dev'[d].id = dev[d].id
    BY <2>2, Steady
  <2>4. hp.new \in Devs => hp.new \notin Unused
    <3>1. hp.new \in Devs => hp.step \in {"connect", "left", "unref", "arrived"} /\ (hp.step = "arrived" => hp.new \in Range(listed))
      BY <1>1, <1>9 DEF HpInv, HpType, Distinct, Steps
    <3> QED
      BY <2>2, <3>1, WayIsAlive
  <2>5. hp.child \in Devs => hp.child \notin Unused
    BY WayIsAlive
  <2> QED
    BY <2>1, <2>2, <2>3, <2>4, <2>5
<1>10. ASSUME hp.step # "idle", listed' = listed, NEW i PROVE F(i) <=> G(i)
  BY <1>9, <1>10
<1>11. hp.child # NoDev => hp.child \in Devs
  BY <1>1 DEF HpType, Pointers
<1>12. CASE hp' = hp
  <2>1. CASE hp.step = "idle"
    BY <1>1, <1>8, <1>12, <2>1 DEF HpInv, Idle
  <2>2. CASE hp.step # "idle"
    <3>1. ~Connect /\ ~Arrived /\ (Disconnect => FALSE)
      BY <1>1, <1>12 DEF Connect, Arrived, Disconnect, HpType
    <3>2. listed' = listed
      BY <1>1, <1>9, <2>2, <3>1, ListStep DEF ReleaseListed, Exits
    <3>3. hp.new \in Devs => dev'[hp.new].id = dev[hp.new].id /\ dev'[hp.new].wrapped = dev[hp.new].wrapped
                             /\ dev'[hp.new].attached = dev[hp.new].attached
      BY <1>9, <2>2, <3>1, Steady
    <3>4. hp.child \in Devs => dev'[hp.child].id = dev[hp.child].id /\ dev'[hp.child].wrapped = dev[hp.child].wrapped
                               /\ dev'[hp.child].attached = dev[hp.child].attached /\ dev'[hp.child].parent = dev[hp.child].parent
      BY <1>9, <2>2, <3>1, Steady
    <3>5. \A i : F(i) <=> G(i)
      BY <1>10, <2>2, <3>2
    <3> HIDE DEF F, G
    <3>6. CASE hp.child = NoDev
      BY <1>1, <1>4, <1>6, <1>12, <3>2, <3>3, <3>5, <3>6 DEF HpInv
    <3>7. CASE hp.child # NoDev
      <4>1. hp.step \in {"parent", "connect", "arrived"}
        BY <1>1, <3>7 DEF HpInv
      <4>2. hp.step \in {"connect", "arrived"} => hp.new # NoDev
        BY <1>1 DEF HpInv, Distinct
      <4> QED
        BY <1>1, <1>4, <1>7, <1>11, <1>12, <3>2, <3>3, <3>4, <3>5, <3>7, <4>1, <4>2 DEF HpInv
    <3> QED
      BY <3>6, <3>7
  <2> QED
    BY <2>1, <2>2
<1>13. CASE Allocate
  <2> DEFINE x == NextNew
             i == hp.id
  <2>1. hp.step = "enumerate" /\ hp.child = NoDev /\ hp.new = NoDev /\ i \in Ids /\ F(i) /\ listed' = listed /\ x \in Unused
    BY <1>1, <1>4, <1>13 DEF Allocate, HpInv, NextNew, MayAllocate
  <2>2. IsNew(x, i, HubOf(i), FALSE)
    BY <1>13, AllocateCounts DEF NextNew, HubOf
  <2>3. x \in Devs /\ x \notin Range(listed) /\ dev'[x].id = i /\ dev'[x].parent = HubOf(i) /\ ~dev'[x].attached
        /\ ~dev'[x].wrapped
    BY <1>9, <2>1, <2>2 DEF IsNew
  <2>4. G(i)
    BY <1>10, <2>1
  <2>5. \/ /\ HubOf(i) = NoDev /\ Parent[i] # NoId
           /\ hp'.step = "parent" /\ hp'.child = x /\ hp'.new = NoDev /\ hp'.id = i
        \/ hp'.step = "connect" /\ hp'.new = x /\ hp'.child = NoDev
    BY <1>1, <1>13, <2>1 DEF Allocate, HpType, NextNew, HubOf
  <2>6. CASE /\ HubOf(i) = NoDev /\ Parent[i] # NoId
             /\ hp'.step = "parent" /\ hp'.child = x /\ hp'.new = NoDev /\ hp'.id = i
    <3>1. Parent[i] \in Ids /\ F(Parent[i])
      BY <1>4, <2>1, <2>6 DEF Topology, HubOf
    <3>2. G(Parent[i])
      BY <1>10, <2>1, <3>1
    <3> HIDE DEF F, G, x, i
    <3> QED
      BY <1>7, <2>1, <2>3, <2>4, <2>6, <3>1, <3>2 DEF Distinct
  <2>7. CASE hp'.step = "connect" /\ hp'.new = x /\ hp'.child = NoDev
    <3> HIDE DEF F, G, x, i
    <3> QED
      BY <1>6, <2>1, <2>3, <2>4, <2>7
  <2> QED
    BY <2>5, <2>6, <2>7
<1>14. CASE EnumerateParent
  <2> DEFINE x == NextNew
             i == hp.id
             c == hp.child
  <2>1. /\ hp.step = "parent" /\ listed' = listed /\ hp.new = NoDev /\ Parent[i] \in Ids /\ F(Parent[i])
        /\ c \in Devs /\ dev[c].id = i /\ i \in Ids /\ F(i) /\ c \notin Range(listed)
        /\ ~dev[c].attached /\ ~dev[c].wrapped /\ dev[c].parent = NoDev /\ c \notin Unused
    BY <1>1, <1>4, <1>9, <1>11, <1>14 DEF EnumerateParent, HpInv
  <2>2. G(i) /\ G(Parent[i])
    BY <1>10, <2>1
  <2>3. CASE Parent[i] \in plugged
    <3>1. x \in Unused /\ hp'.step = "connect" /\ hp'.new = x /\ hp'.child = c /\ hp'.id = i
      BY <1>1, <1>14, <2>3 DEF EnumerateParent, NextNew, MayAllocate, HpType
    <3>2. IsNew(x, Parent[i], NoDev, FALSE)
      <4>1. ~(Parent[hp.id] \notin plugged)
        BY <2>3
      <4> QED
        BY <1>14, <4>1, EnumerateParentCounts DEF NextNew
    <3>3. x \in Devs /\ x \notin Range(listed) /\ dev'[x].id = Parent[i] /\ ~dev'[x].attached /\ ~dev'[x].wrapped
      BY <1>9, <2>1, <3>1, <3>2 DEF IsNew
    <3>4. c # x /\ dev'[c].id = i /\ ~dev'[c].attached /\ ~dev'[c].wrapped /\ dev'[c].parent = NoDev
      BY <2>1, <3>1, <3>2 DEF IsNew
    <3>5. hp'.child # NoDev
      BY <2>1, <3>1 DEF Distinct
    <3> HIDE DEF F, G, x, i, c
    <3> QED
      BY <1>7, <2>1, <2>2, <3>1, <3>3, <3>4, <3>5
  <2>4. CASE Parent[i] \notin plugged
    <3>1. dev' = dev /\ hp'.step = "connect" /\ hp'.new = c /\ hp'.child = NoDev
      BY <1>1, <1>14, <2>4 DEF EnumerateParent, HpType
    <3> HIDE DEF F, G, x, i, c
    <3> QED
      BY <1>6, <2>1, <2>2, <3>1
  <2> QED
    BY <2>3, <2>4
<1>15. CASE Connect
  <2> DEFINE x == hp.new
             i == hp.id
             c == hp.child
  <2>1. /\ hp.step = "connect" /\ x \in Devs /\ ~dev[x].wrapped
        /\ hp'.step = "arrived" /\ hp'.new = x /\ hp'.child = c /\ hp'.id = i
    BY <1>1, <1>15 DEF Connect, HpInv, HpType
  <2>2. SetAttached(x, TRUE)
    BY <1>15, ConnectCounts
  <2>3. \A d : d \in Range(listed') <=> d = x \/ d \in Range(listed)
    <3>1. listed' = <<x>> \o listed
      BY <1>15 DEF Connect
    <3> QED
      BY <1>1, <2>1, <3>1, Prepended DEF ListType
  <2>4. ~dev'[x].wrapped /\ dev'[x].id = dev[x].id
    BY <2>1, <2>2 DEF SetAttached
  <2>5. CASE c = NoDev
    <3> HIDE DEF F, G, x, i, c
    <3> QED
      BY <1>6, <2>1, <2>3, <2>4, <2>5
  <2>6. CASE c # NoDev
    <3>1. /\ c \in Devs /\ dev[c].id = i /\ i \in Ids /\ F(i) /\ c \notin Range(listed)
          /\ ~dev[c].attached /\ ~dev[c].wrapped /\ dev[c].parent = NoDev
      BY <1>1, <1>4, <1>11, <2>6 DEF HpInv
    <3>2. dev[x].id = Parent[i] /\ Parent[i] \in Ids /\ Parent[i] # i
      BY <1>1, <2>1, <2>6 DEF HpInv, Distinct, Topology
    <3>3. c # x /\ c \notin Range(listed')
      BY <2>3, <3>1, <3>2
    <3>4. dev'[c].id = i /\ ~dev'[c].attached /\ ~dev'[c].wrapped /\ dev'[c].parent = NoDev
      BY <2>2, <3>1, <3>3 DEF SetAttached
    <3>5. G(i)
      BY <1>9, <2>1, <2>3, <2>4, <3>1, <3>2
    <3> HIDE DEF F, G, x, i, c
    <3> QED
      BY <1>7, <2>1, <2>3, <2>4, <2>6, <3>1, <3>2, <3>3, <3>4, <3>5
  <2> QED
    BY <2>5, <2>6
<1>16. CASE Arrived
  <2> DEFINE i == hp.id
             c == hp.child
  <2>1. CASE c = NoDev
    <3>1. hp'.step = "next" /\ hp'.new = NoDev /\ hp'.child = NoDev
      BY <1>1, <1>16, <2>1 DEF Arrived, HpType
    <3> QED
      BY <1>8, <3>1
  <2>2. CASE c # NoDev
    <3>1. /\ hp.step = "arrived" /\ listed' = listed /\ hp'.step = "connect" /\ hp'.new = c /\ hp'.child = NoDev
          /\ c \in Devs /\ dev[c].id = i /\ i \in Ids /\ F(i) /\ c \notin Range(listed) /\ ~dev[c].attached /\ ~dev[c].wrapped
      BY ZenonT(60), <1>1, <1>4, <1>11, <1>16, <2>2 DEF Arrived, HpInv, HpType
    <3>2. Adopts
      BY <1>16, <2>2, ArrivedCounts
    <3>3. dev'[c].id = i /\ ~dev'[c].attached /\ ~dev'[c].wrapped
      BY <3>1, <3>2 DEF Adopts
    <3>4. G(i)
      BY <1>10, <3>1
    <3> HIDE DEF F, G, i, c
    <3> QED
      BY <1>6, <3>1, <3>3, <3>4
  <2> QED
    BY <2>1, <2>2
<1>17. CASE Disconnect
  <2> DEFINE x == ListedAs(hp.id)
  <2>1. hp.step = "disconnect" /\ hp.new = NoDev /\ hp.child = NoDev
    BY <1>1, <1>17 DEF Disconnect, HpInv
  <2>2. CASE x = NoDev
    <3>1. hp'.step = "next" /\ hp'.new = NoDev /\ hp'.child = NoDev
      BY <1>1, <1>17, <2>1, <2>2 DEF Disconnect, HpType
    <3> QED
      BY <1>8, <3>1
  <2>3. CASE x # NoDev
    <3>1. hp'.step = "left" /\ hp'.new = x /\ hp'.child = NoDev /\ listed' = RemoveFirst(listed, x)
      BY <1>1, <1>17, <2>1, <2>3 DEF Disconnect, HpType
    <3>2. SetAttached(x, FALSE)
      BY <1>17, <2>3, DisconnectCounts
    <3>3. x \in Range(listed) /\ x \in Devs
      BY <1>1, <2>3, ListedAsIs
    <3>4. ~dev'[x].wrapped /\ x \notin Range(listed')
      BY ZenonT(60), <1>1, <3>1, <3>2, <3>3, Unlisted DEF ListInv, ListType, SetAttached
    <3> HIDE DEF F, G, x
    <3> QED
      BY <1>6, <3>1, <3>3, <3>4
  <2> QED
    BY <2>2, <2>3
<1>18. CASE Left
  <2>1. hp.step = "left" /\ hp.new \in Devs /\ hp'.step = "unref" /\ hp'.new = hp.new /\ hp'.child = NoDev /\ UNCHANGED <<listed, dev>>
    BY <1>1, <1>18 DEF Left, HpType, HpInv
  <2> QED
    BY <1>1, <1>6, <2>1 DEF HpInv
<1>19. CASE Unreferenced
  <2>1. hp'.step = "next" /\ hp'.new = NoDev /\ hp'.child = NoDev
    BY <1>1, <1>19 DEF Unreferenced, HpType, HpInv
  <2> QED
    BY <1>8, <2>1
<1> QED
  BY <1>8, <1>12, <1>13, <1>14, <1>15, <1>16, <1>17, <1>18, <1>19, LockStep

-----------------------------------------------------------------------------
\* --- the invariant is inductive

LEMMA SafeInit ==
  ASSUME Finite, Topology, Distinct, Init
  PROVE  SafeInv
<1>1. /\ queue = <<>> /\ changes = 0 /\ plugged \subseteq Ids
      /\ dev = [d \in Devs |-> [NewDev(NoId, NoDev) EXCEPT !.ref = 0, !.state = "unused"]]
      /\ listed = <<>> /\ leaving = <<>> /\ msgs = <<>> /\ ready = FALSE /\ hp = Idle
      /\ pc = [t \in Apps |-> "idle"] /\ mine = [t \in Apps |-> {}] /\ target = [t \in Apps |-> NoDev]
      /\ open = [t \in Apps |-> {}] /\ cbs = <<>> /\ cb = [c \in Cbs |-> "unused"] /\ swept = FALSE
      /\ ev = Resting /\ lost = {} /\ phase = "init"
  BY DEF Init
<1>2. \A S : <<>> \in Seq(S)
  OBVIOUS
<1>3. IsInjective(<<>>) /\ Range(<<>>) = {}
  BY DEF IsInjective, Range
<1>4. \A d \in Devs : dev[d] = [id |-> NoId, parent |-> NoDev, ref |-> 0, attached |-> FALSE, wrapped |-> FALSE,
                                state |-> "unused"]
  BY <1>1 DEF NewDev
<1>5. BusType /\ ListType /\ MsgType /\ PhaseType /\ CbType
  <2>1. BusType
    BY <1>1, <1>2 DEF BusType, Finite
  <2>2. ListType
    BY <1>1, <1>2, <1>3 DEF ListType
  <2>3. MsgType /\ PhaseType
    BY <1>1, <1>2 DEF MsgType, PhaseType
  <2>4. CbType
    BY <1>1, <1>2 DEF CbType
  <2> QED
    BY <2>1, <2>2, <2>3, <2>4
<1>6. DevType
  BY <1>1, <1>4 DEF DevType, Device, Pointers
<1>7. HpType
  BY <1>1 DEF HpType, Idle, Owners, Steps, Pointers
<1>8. AppType
  BY <1>1 DEF AppType, Labels, Pointers
<1>9. EvType
  BY <1>1, <1>2 DEF EvType, Resting
<1>10. PhaseInv
  BY <1>1, <1>3 DEF PhaseInv, Idle, Resting, Exits, Distinct
<1>11. Families
  BY <1>4 DEF Families
<1>12. ASSUME NEW d \in Devs PROVE Holders(d) = 0 /\ Said(d) = 0
  <2>1. Leavings(msgs, d) = 0 /\ Leavings(ev.msgs, d) = 0
    BY <1>1, LeavingsEmpty DEF Resting
  <2>2. Having(mine, d) = 0 /\ Having(open, d) = 0
    <3>1. /\ Having(mine, d) \in Nat /\ (Having(mine, d) > 0 <=> \E t \in Apps : d \in mine[t])
          /\ Having(open, d) \in Nat /\ (Having(open, d) > 0 <=> \E t \in Apps : d \in open[t])
      BY HavingNat
    <3> QED
      BY <1>1, <3>1
  <2>3. Aiming(d) = 0
    <3>1. Aiming(d) \in Nat /\ (Aiming(d) > 0 <=> \E t \in Apps : d = target[t])
      BY AimingNat
    <3> QED
      BY <1>1, <3>1 DEF Distinct
  <2>4. Children(d) = 0
    <3>1. Children(d) \in Nat /\ (Children(d) > 0 <=> \E c \in Devs : Alive(c) /\ dev[c].parent = d)
      BY ChildrenNat
    <3> QED
      BY <1>4, <3>1 DEF Alive
  <2>5. UnderWay(d) = 0
    BY <1>1 DEF UnderWay, Idle, Distinct
  <2>6. d \notin Range(Kept)
    BY <1>1, <1>3 DEF Kept
  <2> QED
    BY <2>1, <2>2, <2>3, <2>4, <2>5, <2>6 DEF Holders, Said
<1>13. Refs
  BY <1>4, <1>12 DEF Refs, Alive
<1>14. HpInv
  BY <1>1 DEF HpInv, Idle
<1>15. TargetInv
  BY <1>1 DEF TargetInv
<1>16. ListInv
  BY <1>1, <1>3, <1>4 DEF ListInv
<1>17. SaidInv
  BY <1>12 DEF SaidInv
<1>18. ArrivedInv
  BY <1>1 DEF ArrivedInv, Resting
<1>19. CbInv
  BY <1>1, <1>3 DEF CbInv, Resting, Distinct
<1> QED
  BY <1>5, <1>6, <1>7, <1>8, <1>9, <1>10, <1>11, <1>13, <1>14, <1>15, <1>16, <1>17, <1>18, <1>19 DEF SafeInv, Types

LEMMA SafeNext ==
  ASSUME Finite, Topology, Distinct, StableStart, SafeInv, [Next]_vars
  PROVE  SafeInv'
<1>1. Types /\ HpInv /\ CbInv /\ TargetInv /\ Families
  BY DEF SafeInv
<1>2. BusType' /\ ListType' /\ PhaseType' /\ MsgType' /\ CbType' /\ EvType' /\ HpType' /\ AppType'
  BY <1>1, BusTypeNext, ListTypeNext, PhaseTypeNext, MsgTypeNext, CbTypeNext, EvTypeNext, HpTypeNext, AppTypeNext
  DEF Types
<1>3. DevType' /\ Refs' /\ DevStep
  BY <1>2, CountsNext
<1>4. Families'
  BY <1>3, FamiliesNext
<1>5. PhaseInv' /\ HpInv' /\ TargetInv' /\ ListInv' /\ SaidInv' /\ ArrivedInv' /\ CbInv'
  BY <1>2, PhaseNext, HpNext, TargetNext, ListNext, SaidNext, ArrivedNext, CbNext
<1> QED
  BY <1>2, <1>3, <1>4, <1>5 DEF SafeInv, Types

\* The invariant is inductive.  Whatever the bus, the udev monitor, the event
\* thread, the application threads and libusb_exit do, and in whatever order, every
\* reference of a device has one holder (core.c and hotplug.c), and the device,
\* message and callback lists agree with each other.
THEOREM Safety ==
  ASSUME StableStart
  PROVE  Spec => []SafeInv
<1>1. Init => SafeInv
  BY SafeInit, Finite, Topology, Distinct
<1>2. SafeInv /\ [Next]_vars => SafeInv'
  BY SafeNext, Finite, Topology, Distinct, StableStart
<1> QED
  BY <1>1, <1>2, PTL DEF Spec

\* No count is larger than the places there are: a thread that opens a device has
\* no handle of it yet.
LEMMA CountsBounded ==
  ASSUME Finite, Distinct, SafeInv, NEW d \in Devs
  PROVE  dev[d].ref \in 0..(2 * Cardinality(Apps) + Cardinality(Devs) + 4)
<1>1. Types /\ TargetInv /\ SaidInv /\ Refs
  BY DEF SafeInv
<1>2. Having(open, d) + Aiming(d) <= Cardinality(Apps)
  <2> DEFINE A == {t \in Apps : d \in open[t]}
             B == {t \in Apps : target[t] = d}
  <2>1. IsFiniteSet(Apps) /\ IsFiniteSet(A) /\ IsFiniteSet(B) /\ IsFiniteSet(A \cup B)
    BY FS_Subset, FS_Union DEF Finite
  <2>2. A \cap B = {}
    <3>1. ASSUME NEW t \in Apps, target[t] = d PROVE d \notin open[t]
      <4>1. pc[t] \in Labels /\ target[t] \notin Cbs \cup {NoDev}
        BY <1>1, <3>1 DEF Types, AppType, Distinct
      <4> QED
        BY <1>1, <3>1, <4>1 DEF TargetInv, Labels
    <3> QED
      BY <3>1
  <2>3. Cardinality(A \cup B) = Cardinality(A) + Cardinality(B) - Cardinality(A \cap B)
    BY <2>1, FS_Union
  <2>4. Cardinality(A \cap B) = 0
    BY <2>2, FS_EmptySet
  <2>5. Cardinality(A \cup B) <= Cardinality(Apps)
    BY <2>1, FS_Subset
  <2>6. Cardinality(A) \in Nat /\ Cardinality(B) \in Nat /\ Cardinality(Apps) \in Nat
    BY <2>1, FS_CardinalityType
  <2> QED
    BY <2>3, <2>4, <2>5, <2>6 DEF Having, Aiming
<1>3. In(d) + Said(d) <= 1
  BY <1>1, Parts DEF In, SaidInv, Types
<1>4. UnderWay(d) <= 3
  BY DEF UnderWay
<1>5. Having(mine, d) <= Cardinality(Apps) /\ Children(d) <= Cardinality(Devs)
  BY HavingNat, ChildrenNat
<1>6. /\ In(d) \in Nat /\ Said(d) \in Nat /\ HasList(d) \in Nat /\ HasHandle(d) \in Nat
      /\ Aiming(d) \in Nat /\ UnderWay(d) \in Nat /\ Children(d) \in Nat /\ Outer(d) \in Nat
      /\ dev[d].ref = Outer(d) + Children(d)
  BY <1>1, Parts DEF Types, Refs
<1>7. Cardinality(Apps) \in Nat /\ Cardinality(Devs) \in Nat
  BY FS_CardinalityType DEF Finite
<1>8. Outer(d) = In(d) + Said(d) + HasList(d) + HasHandle(d) + Aiming(d) + UnderWay(d)
  BY DEF Outer
<1>9. HasList(d) = Having(mine, d) /\ HasHandle(d) = Having(open, d)
  BY DEF HasList, HasHandle
<1> HIDE DEF In, Outer, HasList, HasHandle
<1> QED
  BY <1>2, <1>3, <1>4, <1>5, <1>6, <1>7, <1>8, <1>9

\* The reference count of a device is the number of places that hold it, so that
\* libusb_ref_device and libusb_unref_device pair up in the list, the messages, the
\* opens that fail, the hubs, and the exit: no reference leaks, and a device is
\* destroyed with its last reference, not earlier.
THEOREM CountsAreOwned ==
  ASSUME StableStart
  PROVE  Spec => []RefsAreOwned
<1>1. SafeInv => RefsAreOwned
  <2> SUFFICES ASSUME SafeInv PROVE RefsAreOwned
    OBVIOUS
  <2>1. \A d \in Devs : dev[d].ref \in 0..(2 * Cardinality(Apps) + Cardinality(Devs) + 4)
    BY CountsBounded, Finite, Distinct
  <2>2. Range(listed) \subseteq Devs /\ IsInjective(listed)
    BY RangeIs DEF SafeInv, Types, ListType
  <2>3. TypeOK
    BY <2>1, <2>2 DEF TypeOK, SafeInv, Types, BusType, HpType, Owners, CbType, PhaseType
  <2> QED
    BY <2>3 DEF RefsAreOwned, SafeInv, Refs
<1> QED
  BY <1>1, Safety, PTL

\* Nothing freed is used.  A message that a device arrived holds no reference, and
\* usbi_hotplug_process still finds its device alive; the walk over the callbacks,
\* which lets the lock go for every call, never comes to a freed one; and
\* usbi_recursively_remove_parents never unlinks the device that the walk of
\* usbi_hotplug_exit goes to next.
THEOREM NobodyUsesFreed ==
  ASSUME StableStart
  PROVE  Spec => []NothingFreedIsUsed
<1>1. SafeInv => NothingFreedIsUsed
  <2> SUFFICES ASSUME SafeInv PROVE NothingFreedIsUsed
    OBVIOUS
  <2>1. Finite /\ Distinct
    BY Finite, Distinct
  <2>2. Types /\ CbInv /\ ArrivedInv /\ PhaseInv /\ HpInv /\ Refs
    BY DEF SafeInv
  <2>3. msgs \in Seq(MessageType) /\ ev.msgs \in Seq(MessageType)
    BY <2>2 DEF Types, MsgType, EvType
  <2>4. ASSUME NEW d \in Devs, Standing(d), phase \notin {"devices", "end"} PROVE Alive(d)
    BY <2>1, <2>4, WayIsAlive DEF Standing
  <2>5. ASSUME NEW q \in Seq(MessageType), q = msgs \/ q = ev.msgs, NEW j \in DOMAIN q, NEW d \in Devs,
               q[j] = Message("LEFT", d)
        PROVE  Alive(d)
    <3>1. Leavings(q, d) > 0
      BY <2>5, LeavingsNat
    <3>2. Leavings(msgs, d) \in Nat /\ Leavings(ev.msgs, d) \in Nat
      BY <2>3, LeavingsNat
    <3>3. Said(d) > 0
      BY <2>5, <3>1, <3>2 DEF Said
    <3> QED
      BY <2>1, <3>3, HeldIsAlive
  <2>6. ASSUME NEW q \in Seq(MessageType), NEW k \in DOMAIN q, q[k].event # "ARRIVED"
        PROVE  q[k] = Message("LEFT", q[k].dev) /\ q[k].dev \in Devs
    <3>1. q[k] \in MessageType
      BY <2>6
    <3> QED
      BY <2>6, <3>1 DEF MessageType, Message
  <2>7. ASSUME NEW q \in Seq(MessageType), NEW k \in DOMAIN q PROVE q[k].dev \in Devs
    <3>1. q[k] \in MessageType
      BY <2>7
    <3> QED
      BY <2>7, <3>1 DEF MessageType
  <2>8. ASSUME NEW k \in DOMAIN msgs PROVE Alive(msgs[k].dev)
    <3>1. phase \notin {"devices", "end"} /\ msgs[k].dev \in Devs
      <4>1. msgs # <<>>
        BY <2>8
      <4> QED
        BY <2>2, <2>3, <2>7, <2>8, <4>1 DEF PhaseInv
    <3>2. CASE msgs[k].event = "ARRIVED"
      BY <2>2, <2>3, <2>4, <2>5, <2>8, <3>1, <3>2 DEF ArrivedInv
    <3>3. CASE msgs[k].event # "ARRIVED"
      BY <2>3, <2>5, <2>6, <2>8, <3>3
    <3> QED
      BY <3>2, <3>3
  <2>9. ASSUME NEW k \in DOMAIN ev.msgs PROVE Alive(ev.msgs[k].dev)
    <3>1. phase \notin {"devices", "end"} /\ ev.msgs[k].dev \in Devs
      <4>1. ev.msgs # <<>>
        BY <2>9
      <4> QED
        BY <2>2, <2>3, <2>7, <2>9, <4>1 DEF PhaseInv, CbInv
    <3>2. CASE ev.msgs[k].event = "ARRIVED"
      BY <2>2, <2>3, <2>4, <2>5, <2>9, <3>1, <3>2 DEF ArrivedInv
    <3>3. CASE ev.msgs[k].event # "ARRIVED"
      BY <2>3, <2>5, <2>6, <2>9, <3>3
    <3> QED
      BY <3>2, <3>3
  <2>10. /\ \A c \in Range(ev.rest) \cup Range(cbs) : cb[c] \in {"armed", "marked"}
         /\ IsInjective(ev.rest) /\ IsInjective(cbs)
         /\ \A t \in Apps : target[t] \in Cbs => cb[target[t]] # "freed"
    <3>1. Range(cbs) \subseteq Cbs
      BY <2>2, RangeIs DEF Types, CbType
    <3> QED
      BY <2>2, <3>1 DEF CbInv
  <2>11. ASSUME phase = "devices", leaving # <<>>
         PROVE  /\ \A d \in Range(leaving) : Alive(d)
                /\ LastChildOf(Head(leaving)) \cap Range(Tail(leaving)) = {}
    <3>1. Kept = leaving /\ leaving \in Seq(Devs) /\ Range(leaving) \subseteq Devs
      BY <2>2, <2>11, RangeIs DEF Kept, Types, ListType
    <3>2. \A d \in Range(leaving) : Alive(d)
      BY <2>1, <3>1, HeldIsAlive
    <3>3. Head(leaving) \in Range(leaving) /\ Range(Tail(leaving)) \subseteq Range(leaving)
      BY <2>11, <3>1, Taken
    <3>4. ASSUME NEW p \in LastChildOf(Head(leaving)), p \in Range(leaving) PROVE FALSE
      <4>1. p \in Devs /\ dev[p].ref = 1 /\ dev[Head(leaving)].parent = p
        BY <3>1, <3>4 DEF LastChildOf
      <4>2. Children(p) > 0 /\ Children(p) \in Nat
        BY <2>1, <3>1, <3>2, <3>3, <4>1, ChildrenNat
      <4>3. Outer(p) > 0
        BY <2>1, <3>1, <3>4, <4>1, HeldIsAlive
      <4>4. dev[p].ref > Children(p) /\ dev[p].ref \in Nat
        BY <2>1, <4>1, <4>3, RefsMean
      <4> QED
        BY <4>1, <4>2, <4>4
    <3> QED
      BY <3>2, <3>3, <3>4
  <2> QED
    BY <2>8, <2>9, <2>10, <2>11 DEF NothingFreedIsUsed
<1> QED
  BY <1>1, Safety, PTL

\* A session id is listed once, attached is what the list says, and at most one
\* message says that a device left, whether the monitor, libusb_open or the event
\* thread noticed it first.
THEOREM NobodyIsListedTwice ==
  ASSUME StableStart
  PROVE  Spec => []ListedOnce
<1>1. SafeInv => ListedOnce
  BY DEF SafeInv, ListInv, SaidInv, Said, ListedOnce
<1> QED
  BY <1>1, Safety, PTL

-----------------------------------------------------------------------------
\* --- the list catches up with the bus

\* What the socket and the function that is under way say of an id.
NoWraps == \A d \in Devs : dev[d].wrapped => d \in Unused
Pending(i) == \E k \in DOMAIN queue : queue[k].id = i
Removal(i) == [act |-> "remove", id |-> i]
Removing(i) == \E k \in DOMAIN queue : queue[k] = Removal(i)
InList(i) == \E d \in Range(listed) : dev[d].id = i
Made(i) == (hp.child # NoDev /\ dev[hp.child].id = i) \/ (hp.step = "connect" /\ dev[hp.new].id = i)
Enumerating(i) == hp.step = "enumerate" /\ hp.id = i
Disconnecting(i) == hp.step = "disconnect" /\ hp.id = i

\* The last event of an id tells whether it is plugged.
LastTells ==
  \A i \in Ids : \A k \in DOMAIN queue :
    queue[k].id = i /\ (\A j \in DOMAIN queue : j > k => queue[j].id # i) => (queue[k].act = "add" <=> i \in plugged)
Hubs == \A i \in plugged : Parent[i] \in plugged \cup {NoId}

\* Without an event to come, what is listed is plugged, and what is plugged is
\* listed or on its way.
NoGhosts == \A i \in Ids : i \notin plugged /\ ~Pending(i) /\ ~Disconnecting(i) => ~InList(i) /\ ~Made(i)
NoneMissed ==
  \A i \in Ids : i \in plugged /\ ~Pending(i) /\ phase # "init" =>
    InList(i) \/ i \in hp.todo \/ Made(i) \/ Enumerating(i)

\* What is under way was told by the bus, and may be told otherwise later.
Begun ==
  /\ hp.owner # Main => hp.todo = {}
  /\ \A i \in Ids : Enumerating(i) \/ i \in hp.todo => Pending(i) \/ i \in plugged
  /\ \A i \in Ids : Disconnecting(i) => Pending(i) \/ i \notin plugged

\* A hub is removed after what was plugged into it: that was removed before it in
\* the queue, or is gone already.
Away(i) == (InList(i) => Disconnecting(i)) /\ ~Made(i) /\ ~Enumerating(i) /\ i \notin hp.todo
RemovedBefore(i, k) ==
  \E j \in DOMAIN queue : /\ j < k /\ queue[j] = Removal(i)
                          /\ \A l \in DOMAIN queue : j < l /\ l < k => queue[l].id # i
NotBefore(i, k) == \A j \in DOMAIN queue : j < k => queue[j].id # i
HubsLast ==
  \A i \in Ids : \A k \in DOMAIN queue :
    Parent[i] \in Ids /\ queue[k] = Removal(Parent[i]) => RemovedBefore(i, k) \/ (NotBefore(i, k) /\ Away(i))
HubGoes == \A c \in Ids : Disconnecting(Parent[c]) /\ InList(c) => Removing(c)

\* Nobody has a device that was not listed yet.
Way(d) == d = hp.child \/ (hp.step = "connect" /\ d = hp.new)
Held(d) == \E t \in Apps : d \in mine[t] \/ d \in open[t] \/ d = target[t]
HeldWas == \A d \in Devs : Held(d) => ~Way(d)

\* The handles whose poll() reports an error, and the hubs of what is listed.
LostGo ==
  \A t \in Apps, d \in Devs : <<t, d>> \in lost =>
    /\ d \in open[t]
    /\ dev[d].attached => Removing(dev[d].id) \/ Disconnecting(dev[d].id)
HubIsListed ==
  /\ \A d \in Range(listed) : Parent[dev[d].id] \in Ids =>
       dev[d].parent \in Range(listed) \/ Removing(dev[d].id) \/ Disconnecting(dev[d].id)
  /\ hp.step = "connect" /\ Parent[dev[hp.new].id] \in Ids =>
       dev[hp.new].parent \in Range(listed) \/ Removing(dev[hp.new].id)

Follows == LastTells /\ Hubs /\ NoGhosts /\ NoneMissed /\ Begun /\ HubsLast /\ HubGoes /\ HeldWas /\ LostGo /\ HubIsListed
BusInv == NoWraps /\ Active => Follows

\* The last event of an id, and what it says of one that is not plugged.
LEMMA LastOf ==
  ASSUME NEW q \in Seq(EventType), NEW i, NEW n \in DOMAIN q, q[n].id = i
  PROVE  \E k \in DOMAIN q : q[k].id = i /\ \A j \in DOMAIN q : j > k => q[j].id # i
<1> DEFINE J == {k \in DOMAIN q : q[k].id = i}
           I == {Len(q) - k : k \in J}
<1>1. Len(q) \in Nat /\ DOMAIN q = 1..Len(q)
  OBVIOUS
<1>2. I \in SUBSET Nat /\ I # {}
  <2>1. n \in J
    OBVIOUS
  <2>2. Len(q) - n \in I
    BY <2>1
  <2> QED
    BY <1>1, <2>2
<1> HIDE DEF I
<1>3. Min(I) \in I /\ \A m \in I : Min(I) <= m
  BY <1>2, LeastIndex
<1>4. PICK k \in J : Len(q) - k = Min(I)
  BY <1>3 DEF I
<1>5. ASSUME NEW j \in DOMAIN q, j > k, q[j].id = i PROVE FALSE
  <2>1. Len(q) - j \in I
    BY <1>5 DEF I
  <2>2. Len(q) - k <= Len(q) - j
    BY <1>3, <1>4, <2>1
  <2> QED
    BY <1>1, <1>5, <2>2
<1> QED
  BY <1>4, <1>5

LEMMA LastRemoves ==
  ASSUME BusType, LastTells, NEW i \in Ids, Pending(i), i \notin plugged
  PROVE  \E k \in DOMAIN queue : queue[k] = Removal(i) /\ \A j \in DOMAIN queue : j > k => queue[j].id # i
<1>1. queue \in Seq(EventType)
  BY DEF BusType
<1>2. PICK k \in DOMAIN queue : queue[k].id = i /\ \A j \in DOMAIN queue : j > k => queue[j].id # i
  BY <1>1, LastOf DEF Pending
<1>3. queue[k] \in EventType /\ queue[k].act # "add"
  BY <1>1, <1>2 DEF LastTells
<1>4. queue[k] = Removal(i)
  BY <1>2, <1>3 DEF EventType, Removal
<1> QED
  BY <1>2, <1>4

\* The bus adds an event, and somebody takes one.
LEMMA EventAdded ==
  ASSUME BusType, NEW e \in EventType, queue' = Append(queue, e)
  PROVE  /\ Len(queue) \in Nat /\ DOMAIN queue = 1..Len(queue) /\ DOMAIN queue' = 1..Len(queue) + 1
         /\ queue'[Len(queue) + 1] = e /\ \A k \in DOMAIN queue : queue'[k] = queue[k]
<1>1. queue \in Seq(EventType)
  BY DEF BusType
<1>2. DOMAIN queue = 1..Len(queue)
  BY <1>1
<1>3. /\ Len(queue) \in Nat /\ DOMAIN Append(queue, e) = 1..Len(queue) + 1 /\ Append(queue, e)[Len(queue) + 1] = e
      /\ \A k \in 1..Len(queue) : Append(queue, e)[k] = queue[k]
  BY <1>1, Appended
<1> QED
  BY <1>2, <1>3, Zenon

LEMMA EventTaken ==
  ASSUME BusType, queue # <<>>, queue' = Tail(queue)
  PROVE  /\ Len(queue) \in Nat \ {0} /\ DOMAIN queue = 1..Len(queue) /\ DOMAIN queue' = 1..Len(queue) - 1
         /\ Head(queue) = queue[1] /\ Head(queue) \in EventType
         /\ \A k \in DOMAIN queue' : queue'[k] = queue[k + 1]
<1>1. queue \in Seq(EventType)
  BY DEF BusType
<1>2. Tail(queue) \in Seq(EventType) /\ Len(Tail(queue)) = Len(queue) - 1 /\ Len(queue) \in Nat \ {0}
      /\ Head(queue) = queue[1] /\ Head(queue) \in EventType
      /\ \A i \in 1..Len(queue) - 1 : Tail(queue)[i] = queue[i + 1]
  BY <1>1, Taken
<1>3. DOMAIN queue' = 1..Len(queue')
  BY <1>2
<1>4. DOMAIN queue = 1..Len(queue)
  BY <1>1
<1> QED
  BY <1>2, <1>3, <1>4

\* Before an event was taken, it was pending: what is pending for another id stays.
LEMMA TakenPending ==
  ASSUME BusType, queue # <<>>, queue' = Tail(queue), NEW i
  PROVE  /\ Pending(i) <=> Pending(i)' \/ Head(queue).id = i
         /\ Removing(i) <=> Removing(i)' \/ Head(queue) = Removal(i)
<1> DEFINE n == Len(queue)
<1>1. /\ n \in Nat \ {0} /\ DOMAIN queue = 1..n /\ DOMAIN queue' = 1..n - 1
      /\ Head(queue) = queue[1] /\ \A k \in DOMAIN queue' : queue'[k] = queue[k + 1]
  BY EventTaken
<1> HIDE DEF n
<1>2. \A k \in DOMAIN queue : queue[k] = Head(queue) \/ \E j \in DOMAIN queue' : queue'[j] = queue[k]
  <2>1. ASSUME NEW k \in 1..n PROVE k = 1 \/ (k - 1 \in 1..n - 1 /\ queue'[k - 1] = queue[k])
    BY <1>1
  <2> QED
    BY <1>1, <2>1
<1>3. \A j \in DOMAIN queue' : \E k \in DOMAIN queue : queue[k] = queue'[j]
  <2>1. ASSUME NEW k \in 1..n - 1 PROVE k + 1 \in 1..n /\ queue'[k] = queue[k + 1]
    BY <1>1
  <2> QED
    BY <1>1, <2>1
<1>4. 1 \in DOMAIN queue /\ Head(queue) = queue[1]
  BY <1>1
<1>5. ASSUME NEW k \in DOMAIN queue
      PROVE  /\ queue[k].id = i => Pending(i)' \/ Head(queue).id = i
             /\ queue[k] = Removal(i) => Removing(i)' \/ Head(queue) = Removal(i)
  <2>1. CASE queue[k] = Head(queue)
    BY <2>1
  <2>2. CASE \E j \in DOMAIN queue' : queue'[j] = queue[k]
    BY <2>2, Zenon DEF Pending, Removing, Removal
  <2> QED
    BY <1>2, <2>1, <2>2
<1>6. ASSUME NEW j \in DOMAIN queue'
      PROVE  (queue'[j].id = i => Pending(i)) /\ (queue'[j] = Removal(i) => Removing(i))
  <2>1. PICK k \in DOMAIN queue : queue[k] = queue'[j]
    BY <1>3
  <2> QED
    BY <2>1, Zenon DEF Pending, Removing
<1>7. (Head(queue).id = i => Pending(i)) /\ (Head(queue) = Removal(i) => Removing(i))
  BY <1>4, Zenon DEF Pending, Removing
<1>8. Pending(i)' => \E j \in DOMAIN queue' : queue'[j].id = i
  BY DEF Pending
<1>9. Removing(i)' => \E j \in DOMAIN queue' : queue'[j] = Removal(i)
  BY DEF Removing, Removal
<1>10. Pending(i) <=> Pending(i)' \/ Head(queue).id = i
  BY <1>5, <1>6, <1>7, <1>8, Zenon DEF Pending
<1>11. Removing(i) <=> Removing(i)' \/ Head(queue) = Removal(i)
  BY <1>5, <1>6, <1>7, <1>9, Zenon DEF Removing
<1> QED
  BY <1>10, <1>11

LEMMA AddedPending ==
  ASSUME BusType, NEW e \in EventType, queue' = Append(queue, e), NEW i
  PROVE  /\ Pending(i)' <=> Pending(i) \/ e.id = i
         /\ Removing(i)' <=> Removing(i) \/ e = Removal(i)
<1> DEFINE n == Len(queue)
<1>1. /\ n \in Nat /\ DOMAIN queue = 1..n /\ DOMAIN queue' = 1..n + 1
      /\ queue'[n + 1] = e /\ \A k \in DOMAIN queue : queue'[k] = queue[k]
  BY EventAdded
<1> HIDE DEF n
<1>2. \A k \in 1..n + 1 : k = n + 1 \/ k \in 1..n
  BY <1>1
<1>3. n + 1 \in 1..n + 1 /\ \A k \in 1..n : k \in 1..n + 1
  BY <1>1
<1>4. Pending(i)' <=> Pending(i) \/ e.id = i
  BY <1>1, <1>2, <1>3 DEF Pending
<1>5. Removing(i)' <=> Removing(i) \/ e = Removal(i)
  BY <1>1, <1>2, <1>3 DEF Removing, Removal
<1> QED
  BY <1>4, <1>5

\* --- what a step does to the ids

SameQueue == queue' = queue /\ plugged' = plugged
SameList == \A i \in Ids : InList(i)' <=> InList(i)
SameWay == \A i \in Ids : /\ Made(i)' <=> Made(i)
                          /\ Enumerating(i)' <=> Enumerating(i)
                          /\ Disconnecting(i)' <=> Disconnecting(i)
SameScan == hp'.todo = hp.todo /\ (phase' = "init" <=> phase = "init")
Rest == \A i \in Ids : ~Made(i) /\ ~Enumerating(i) /\ ~Disconnecting(i)

\* The bus changes; nothing changes; an event is taken; the first scan; it goes on to
\* an id; an id is listed or not; one is taken off the list; a device is found gone.
AsBefore == SameList /\ SameWay /\ SameScan
BusMoves == AsBefore /\ \E i \in Ids : Plug(i) \/ Unplug(i)
Still == SameQueue /\ AsBefore
Takes ==
  /\ queue # <<>> /\ queue' = Tail(queue) /\ plugged' = plugged
  /\ SameList /\ SameScan /\ hp.todo = {} /\ Rest
  /\ \A i \in Ids : /\ ~Made(i)'
                    /\ Enumerating(i)' <=> Head(queue) = [act |-> "add", id |-> i]
                    /\ Disconnecting(i)' <=> Head(queue) = Removal(i)
Scans == SameQueue /\ SameList /\ phase = "init" /\ hp'.todo = plugged /\ Rest /\ Rest'
Looks ==
  /\ SameQueue /\ SameList /\ Rest /\ (phase' = "init" <=> phase = "init")
  /\ \E i \in hp.todo : /\ hp'.todo = hp.todo \ {i}
                        /\ \A j \in Ids : ~Made(j)' /\ ~Disconnecting(j)' /\ (Enumerating(j)' <=> j = i)
Onward ==
  /\ SameQueue /\ SameScan
  /\ \A i \in Ids :
       /\ ~Disconnecting(i) /\ ~Disconnecting(i)' /\ ~Enumerating(i)'
       /\ InList(i) \/ Made(i) => InList(i)' \/ Made(i)'
       /\ InList(i)' \/ Made(i)' => \/ InList(i) \/ Made(i)
                                    \/ i \in plugged /\ (Enumerating(i) \/ Parent[i] \notin Ids)
       /\ Enumerating(i) => InList(i)' \/ Made(i)' \/ i \notin plugged
Drops ==
  /\ SameQueue /\ SameScan /\ Rest'
  /\ \E i \in Ids : \A j \in Ids : /\ ~Made(j) /\ ~Enumerating(j) /\ (Disconnecting(j) <=> j = i)
                                   /\ InList(j)' <=> InList(j) /\ j # i
Lost(d) == \E t \in Apps : <<t, d>> \in lost
Notices(i) ==
  /\ \A j \in Ids : ~Made(j)' /\ ~Enumerating(j)' /\ (Disconnecting(j)' <=> j = i)
  /\ i \notin plugged \/ \E d \in Devs : Lost(d) /\ dev[d].attached /\ dev[d].id = i
Begins == SameQueue /\ SameList /\ SameScan /\ Rest /\ \E i \in Ids : Notices(i)

LEMMA PhaseStep ==
  ASSUME PhaseInv, [Next]_vars
  PROVE  \/ phase' = phase
         \/ phase = "init" /\ phase' = "scan" /\ Scan
         \/ phase = "scan" /\ phase' = "scanned"
         \/ phase = "scanned" /\ phase' = "ready"
         \/ phase \in {"ready", "messages", "devices"} /\ phase' \in {"messages", "devices", "end"}
<1>1. \/ Scan \/ ScanDone \/ HotplugInit \/ Exit \/ MessagesFreed \/ Released
      \/ phase' = phase
  BY
  DEF Next, HotplugLock, Exiting, App, HandleEvents, Plug, Unplug, Receive, PollMore, PollDone, EventDone, ScanMore,
      Known, Gone, Allocate, EnumerateParent, Connect, Arrived, Disconnect, Left, Unreferenced, FreeMessage,
      ReleaseListed, ListPoll, ListWalk, FreeList, OpenRefused, Open, Opened, OpenNoDevice, OpenFailed, Wrap, Close,
      Register, CallArrived, Registered, Deregister, PollError, TakeMessages, NextMessage, NextCallback, CallBack,
      MessageDone, StartSweep, Sweep, Swept, Finished
<1> QED
  BY <1>1 DEF Scan, ScanDone, HotplugInit, Exit, MessagesFreed, Released, PhaseInv

\* Which actions change the bus, its events and the record of the lock.
LEMMA LockFrame ==
  ASSUME PhaseInv, [Next]_vars
  PROVE  /\ \/ \E i \in Ids : (Plug(i) \/ Unplug(i)) /\ hp' = hp
            \/ Receive \/ PollMore
            \/ /\ SameQueue
               /\ \/ hp' = hp
                  \/ PollDone \/ EventDone \/ ScanMore \/ ScanDone \/ Known \/ Gone \/ Allocate \/ EnumerateParent
                  \/ Connect \/ Arrived \/ Disconnect \/ Left \/ Unreferenced \/ Scan
                  \/ \E t \in Apps : ListPoll(t) \/ OpenNoDevice(t)
                  \/ PollError
         /\ Scan \/ (phase' = "init" <=> phase = "init")
<1>1. \/ \E i \in Ids : (Plug(i) \/ Unplug(i)) /\ hp' = hp
      \/ Receive \/ PollMore
      \/ /\ SameQueue
         /\ \/ hp' = hp
            \/ PollDone \/ EventDone \/ ScanMore \/ ScanDone \/ Known \/ Gone \/ Allocate \/ EnumerateParent
            \/ Connect \/ Arrived \/ Disconnect \/ Left \/ Unreferenced \/ Scan
            \/ \E t \in Apps : ListPoll(t) \/ OpenNoDevice(t)
            \/ PollError
  <2>1. ASSUME NEW i \in Ids, Plug(i) \/ Unplug(i) PROVE hp' = hp
    BY <2>1 DEF Plug, Unplug
  <2>2. ASSUME HotplugLock, ~PollMore PROVE SameQueue
    BY <2>2 DEF HotplugLock, SameQueue, PollDone, EventDone, ScanMore, ScanDone, Known, Gone, Allocate, EnumerateParent,
       Connect, Arrived, Disconnect, Left, Unreferenced
  <2>3. ASSUME Scan PROVE SameQueue
    BY <2>3 DEF Scan, SameQueue
  <2>4. ASSUME HotplugInit \/ Exiting PROVE SameQueue /\ hp' = hp
    BY <2>4 DEF HotplugInit, Exiting, Exit, FreeMessage, MessagesFreed, ReleaseListed, Released, SameQueue
  <2>5. ASSUME NEW t \in Apps, App(t) PROVE SameQueue /\ (hp' = hp \/ ListPoll(t) \/ OpenNoDevice(t))
    BY <2>5 DEF App, SameQueue, ListPoll, ListWalk, FreeList, OpenRefused, Open, Opened, OpenNoDevice, OpenFailed, Wrap,
       Close, Register, CallArrived, Registered, Deregister
  <2>6. ASSUME HandleEvents PROVE SameQueue /\ (hp' = hp \/ PollError)
    BY <2>6 DEF HandleEvents, SameQueue, PollError, TakeMessages, NextMessage, NextCallback, CallBack, MessageDone,
       StartSweep, Sweep, Swept
  <2>7. ASSUME Finished \/ UNCHANGED vars PROVE SameQueue /\ hp' = hp
    BY <2>7 DEF Finished, SameQueue
  <2> QED
    BY <2>1, <2>2, <2>3, <2>4, <2>5, <2>6, <2>7 DEF Next, HotplugLock
<1>2. Scan \/ (phase' = "init" <=> phase = "init")
  BY PhaseStep DEF Scan
<1> QED
  BY <1>1, <1>2

LEMMA ActiveBack ==
  ASSUME PhaseInv, [Next]_vars, Active'
  PROVE  Active /\ ~ReleaseListed /\ phase \notin Exits
BY PhaseStep DEF Active, ReleaseListed, Exits

LEMMA ListView ==
  ASSUME Finite, Topology, Distinct, SafeInv, SafeInv', [Next]_vars, Active'
  PROVE  /\ \A d \in Range(listed) : d \in Devs /\ d \notin Unused /\ dev'[d].id = dev[d].id
         /\ ~Connect /\ ~Disconnect => listed' = listed /\ SameList
         /\ Connect => /\ \A d : d \in Range(listed') <=> d = hp.new \/ d \in Range(listed)
                       /\ \A i \in Ids : InList(i)' <=> InList(i) \/ i = dev[hp.new].id
         /\ Disconnect => /\ \A d : d \in Range(listed') <=> d # ListedAs(hp.id) /\ d \in Range(listed)
                          /\ \A i \in Ids : InList(i)' <=> InList(i) /\ i # hp.id
<1>1. ListType /\ HpType /\ HpInv /\ ListInv /\ PhaseInv /\ MsgType' /\ EvType'
  BY DEF SafeInv, Types
<1>2. phase \notin {"devices", "end"} /\ ~ReleaseListed
  BY <1>1, ActiveBack DEF Exits
<1>3. ASSUME NEW d \in Range(listed) PROVE d \in Devs /\ d \notin Unused /\ dev'[d].id = dev[d].id
  <2>1. d \in Devs /\ d \notin Unused
    BY <1>2, <1>3, WayIsAlive
  <2> QED
    BY <1>1, <2>1, Steady
<1>4. ASSUME ~Connect, ~Disconnect PROVE listed' = listed /\ SameList
  <2>1. listed' = listed
    BY <1>1, <1>2, <1>4, ListStep
  <2> QED
    BY <1>3, <2>1 DEF SameList, InList
<1>5. ASSUME Connect
      PROVE  /\ \A d : d \in Range(listed') <=> d = hp.new \/ d \in Range(listed)
             /\ \A i \in Ids : InList(i)' <=> InList(i) \/ i = dev[hp.new].id
  <2>1. \A d : d \in Range(listed') <=> d = hp.new \/ d \in Range(listed)
    BY <1>1, <1>5, Prepended DEF ListType, Connect, HpInv
  <2>2. hp.new \in Devs /\ hp.new \notin Unused
    BY <1>1, <1>5, WayIsAlive DEF Connect, HpInv
  <2>3. dev'[hp.new].id = dev[hp.new].id
    BY <1>1, <2>2, Steady
  <2>4. \A i \in Ids : InList(i)' <=> InList(i) \/ i = dev[hp.new].id
    BY <1>3, <2>1, <2>3 DEF InList
  <2> QED
    BY <2>1, <2>4
<1>6. ASSUME Disconnect
      PROVE  /\ \A d : d \in Range(listed') <=> d # ListedAs(hp.id) /\ d \in Range(listed)
             /\ \A i \in Ids : InList(i)' <=> InList(i) /\ i # hp.id
  <2> DEFINE x == ListedAs(hp.id)
  <2>1. \/ x = NoDev /\ \A d \in Range(listed) : dev[d].id # hp.id
        \/ x # NoDev /\ x \in Range(listed) /\ x \in Devs /\ dev[x].id = hp.id
    BY <1>1, ListedAsIs
  <2>2. listed' = IF x = NoDev THEN listed ELSE RemoveFirst(listed, x)
    BY <1>6 DEF Disconnect
  <2> HIDE DEF x
  <2>3. \A d : d \in Range(listed') <=> d # x /\ d \in Range(listed)
    <3>1. CASE x = NoDev
      BY <1>3, <2>2, <3>1 DEF Distinct
    <3>2. CASE x # NoDev
      BY <1>1, <2>2, <3>2, Unlisted DEF ListType
    <3> QED
      BY <3>1, <3>2
  <2>4. \A d, e \in Range(listed) : dev[d].id = dev[e].id => d = e
    BY <1>1 DEF ListInv
  <2>5. \A i \in Ids : InList(i)' <=> InList(i) /\ i # hp.id
    BY <1>3, <2>1, <2>3, <2>4 DEF InList
  <2> QED
    BY <2>3, <2>5 DEF x
<1> QED
  BY <1>3, <1>4, <1>5, <1>6

\* Nothing is under way.
LEMMA RestIs ==
  ASSUME HpInv, hp.step \in {"idle", "next", "left", "unref"} \/ hp.owner = NoOne
  PROVE  Rest
<1>1. hp.step \in {"idle", "next", "left", "unref"} /\ hp.child = NoDev
  BY DEF HpInv
<1> QED
  BY <1>1 DEF Rest, Made, Enumerating, Disconnecting

\* Every step is one of these, as long as libusb_exit has not begun.
LEMMA View ==
  ASSUME Finite, Topology, Distinct, SafeInv, SafeInv', Begun, Active', [Next]_vars
  PROVE  BusMoves \/ Still \/ Takes \/ Scans \/ Looks \/ Onward \/ Drops \/ Begins
<1>1. /\ BusType /\ DevType /\ ListType /\ HpType /\ AppType /\ EvType /\ HpInv /\ TargetInv /\ PhaseInv /\ Families
      /\ MsgType' /\ EvType' /\ HpInv' /\ HpType'
  BY DEF SafeInv, Types
<1>2. /\ ~Connect /\ ~Disconnect => SameList
      /\ Connect => \A i \in Ids : InList(i)' <=> InList(i) \/ i = dev[hp.new].id
      /\ Disconnect => \A i \in Ids : InList(i)' <=> InList(i) /\ i # hp.id
  BY ListView
<1>3. \A d \in Devs : d = hp.child \/ (hp.step = "connect" /\ d = hp.new) => d \notin Unused /\ dev'[d].id = dev[d].id
  <2>1. ASSUME NEW d \in Devs, d = hp.child \/ (hp.step = "connect" /\ d = hp.new) PROVE d \notin Unused
    BY <2>1, WayIsAlive
  <2> QED
    BY <1>1, <2>1, Steady
<1>4. DevStep
  BY <1>1, CountsNext
<1>5. ASSUME hp'.step \in {"idle", "next", "left", "unref"} PROVE Rest' /\ hp'.child = NoDev
  <2>1. hp'.child = NoDev
    BY <1>1, <1>5 DEF HpInv
  <2> QED
    BY <1>5, <2>1 DEF Rest, Made, Enumerating, Disconnecting
<1>6. Scan \/ (phase' = "init" <=> phase = "init")
  BY <1>1, LockFrame
<1>7. ASSUME hp' = hp PROVE AsBefore
  <2>1. ~Connect /\ ~Disconnect /\ ~Scan
    BY <1>1, <1>7 DEF Connect, Disconnect, Scan, HpType, HpInv, Idle
  <2>2. SameWay
    BY <1>1, <1>3, <1>7 DEF SameWay, Made, Enumerating, Disconnecting, HpType, Pointers, HpInv
  <2> QED
    BY <1>2, <1>6, <1>7, <2>1, <2>2 DEF AsBefore, SameScan
<1>8. ASSUME SameQueue, Rest, Rest', hp'.todo = hp.todo, ~Connect, ~Disconnect, ~Scan PROVE Still
  BY <1>2, <1>6, <1>8 DEF Still, AsBefore, SameWay, SameScan, Rest
<1>9. ASSUME Receive \/ PollMore PROVE Takes
  <2> DEFINE e == Head(queue)
  <2>1. /\ queue # <<>> /\ queue' = Tail(queue) /\ plugged' = plugged /\ hp.owner # Main
        /\ hp.owner = NoOne \/ hp.step = "next"
    BY <1>9 DEF Receive, PollMore, Lock, Distinct
  <2>2. Rest /\ hp.child = NoDev /\ hp.new = NoDev
    BY <1>1, <2>1, RestIs DEF HpInv
  <2>3. hp.todo = {}
    BY <2>1 DEF Begun
  <2>4. hp'.step = StepOf(e) /\ hp'.id = e.id /\ hp'.todo = {} /\ hp'.child = NoDev
    <3>1. CASE Receive
      BY <3>1 DEF Receive, Lock, Idle
    <3>2. CASE PollMore
      BY <1>1, <2>2, <2>3, <3>2 DEF PollMore, HpType
    <3> QED
      BY <1>9, <3>1, <3>2
  <2>5. e \in EventType
    BY <1>1, <2>1, EventTaken
  <2>6. ASSUME NEW i \in Ids
        PROVE  (e.act = "add" /\ e.id = i <=> e = [act |-> "add", id |-> i]) /\ (e.act # "add" /\ e.id = i <=> e = Removal(i))
    BY <2>5 DEF EventType, Removal
  <2> HIDE DEF e
  <2>7. ASSUME NEW i \in Ids
        PROVE  ~Made(i)' /\ (Enumerating(i)' <=> e = [act |-> "add", id |-> i]) /\ (Disconnecting(i)' <=> e = Removal(i))
    <3>1. hp'.step \in {"enumerate", "disconnect"} /\ (hp'.step = "enumerate" <=> e.act = "add")
      BY <2>4 DEF StepOf
    <3> QED
      BY <2>4, <2>6, <3>1 DEF Made, Enumerating, Disconnecting
  <2>8. ~Connect /\ ~Disconnect /\ ~Scan
    BY <1>9, <2>1, <2>4, <1>1 DEF Receive, PollMore, Connect, Disconnect, Scan, HpInv, StepOf, Idle
  <2> QED
    BY <1>2, <1>6, <2>1, <2>2, <2>3, <2>4, <2>7, <2>8 DEF Takes, SameScan, e
<1>10. ASSUME SameQueue, PollDone \/ EventDone \/ ScanDone PROVE Still
  <2>1. hp.step = "next" /\ hp' = Idle /\ hp.todo = {}
    BY <1>10 DEF PollDone, EventDone, ScanDone, Unlock, Begun, Distinct
  <2>2. ~Connect /\ ~Disconnect /\ ~Scan
    BY <1>1, <2>1 DEF Connect, Disconnect, Scan, HpInv
  <2> QED
    BY <1>1, <1>5, <1>8, <1>10, <2>1, <2>2, RestIs DEF Idle
<1>11. ASSUME SameQueue, ScanMore PROVE Looks
  <2>1. hp.step = "next" /\ hp.child = NoDev /\ Rest
    BY <1>1, <1>11, RestIs DEF ScanMore, HpInv
  <2>2. PICK i \in hp.todo : hp' = [hp EXCEPT !.step = "enumerate", !.id = i, !.todo = @ \ {i}]
    BY <1>11 DEF ScanMore
  <2>3. hp'.step = "enumerate" /\ hp'.id = i /\ hp'.todo = hp.todo \ {i} /\ hp'.child = NoDev
    BY <1>1, <2>1, <2>2 DEF HpType
  <2>4. ~Connect /\ ~Disconnect /\ ~Scan
    BY <1>1, <2>1, <1>11 DEF Connect, Disconnect, Scan, ScanMore, HpInv, Distinct
  <2> QED
    BY <1>2, <1>6, <1>11, <2>1, <2>2, <2>3, <2>4 DEF Looks, Made, Enumerating, Disconnecting
<1>12. ASSUME SameQueue, Known \/ Gone \/ Allocate PROVE Onward
  <2>1. hp.step = "enumerate" /\ hp.child = NoDev /\ hp.id \in Ids
    BY <1>1, <1>12 DEF Known, Gone, Allocate, HpInv
  <2>2. ~Connect /\ ~Disconnect /\ ~Scan
    BY <1>1, <1>12, <2>1 DEF Connect, Disconnect, Scan, HpInv
  <2>3. \A i \in Ids : ~Made(i) /\ ~Disconnecting(i) /\ (Enumerating(i) <=> i = hp.id)
    BY <2>1 DEF Made, Disconnecting, Enumerating
  <2>4. hp'.todo = hp.todo
    BY <1>1, <1>12 DEF Known, Gone, Allocate, HpType
  <2>5. CASE Known \/ Gone
    <3>1. hp'.step = "next"
      BY <1>1, <2>5 DEF Known, Gone, HpType
    <3>2. InList(hp.id) \/ hp.id \notin plugged
      BY <1>1, <2>5, NewIdIs DEF Known, Gone, InList
    <3> QED
      BY <1>2, <1>5, <1>6, <1>12, <2>2, <2>3, <2>4, <3>1, <3>2 DEF Onward, Rest, SameList, SameScan
  <2>6. CASE Allocate
    <3> DEFINE x == NextNew
    <3>1. x \in Unused /\ x \in Devs /\ x # NoDev
      BY <2>6 DEF Allocate, MayAllocate, NextNew, Unused, Distinct
    <3>2. dev'[x].id = hp.id
      BY <1>1, <2>6, AllocateCounts DEF NextNew, IsNew
    <3>3. \/ hp'.step = "parent" /\ hp'.child = x
          \/ hp'.step = "connect" /\ hp'.new = x /\ hp'.child = NoDev
      BY <1>1, <2>1, <2>6 DEF Allocate, HpType, NextNew
    <3> HIDE DEF x
    <3>4. \A i \in Ids : (Made(i)' <=> i = hp.id) /\ ~Enumerating(i)' /\ ~Disconnecting(i)'
      BY <3>1, <3>2, <3>3 DEF Made, Enumerating, Disconnecting
    <3>5. hp.id \in plugged
      BY <2>6 DEF Allocate
    <3> QED
      BY <1>2, <1>6, <1>12, <2>2, <2>3, <2>4, <3>4, <3>5 DEF Onward, SameList, SameScan
  <2> QED
    BY <1>12, <2>5, <2>6
<1>13. ASSUME SameQueue, EnumerateParent PROVE Onward
  <2>1. hp.step = "parent" /\ hp.child # NoDev /\ hp.child \in Devs /\ hp.id \in Ids /\ Parent[hp.id] \in Ids
        /\ dev[hp.child].id = hp.id
    BY <1>1, <1>13 DEF EnumerateParent, HpInv, HpType, Pointers
  <2>2. ~Connect /\ ~Disconnect /\ ~Scan
    BY <1>1, <2>1 DEF Connect, Disconnect, Scan, HpInv
  <2>3. \A i \in Ids : (Made(i) <=> i = hp.id) /\ ~Disconnecting(i) /\ ~Enumerating(i)
    BY <2>1 DEF Made, Disconnecting, Enumerating
  <2>4. hp'.todo = hp.todo /\ hp'.step = "connect"
    BY <1>1, <1>13 DEF EnumerateParent, HpType
  <2>5. dev'[hp.child].id = hp.id
    BY <1>3, <2>1
  <2>6. \A i \in Ids : /\ Made(i)' => i = hp.id \/ (i \in plugged /\ Parent[i] \notin Ids)
                       /\ i = hp.id => Made(i)'
    <3>1. CASE Parent[hp.id] \in plugged
      <4>1. hp'.new = NextNew /\ hp'.child = hp.child
        BY <1>1, <1>13, <3>1 DEF EnumerateParent, HpType, NextNew
      <4>2. dev'[NextNew].id = Parent[hp.id]
        BY <1>1, <1>13, <3>1, EnumerateParentCounts DEF NextNew, IsNew
      <4>3. Parent[Parent[hp.id]] \notin Ids
        BY <2>1 DEF Topology, Distinct
      <4> QED
        BY <2>1, <2>5, <3>1, <4>1, <4>2, <4>3 DEF Made
    <3>2. CASE Parent[hp.id] \notin plugged
      <4>1. hp'.new = hp.child /\ hp'.child = NoDev
        BY <1>1, <1>13, <3>2 DEF EnumerateParent, HpType
      <4> QED
        BY <2>4, <2>5, <4>1 DEF Made
    <3> QED
      BY <3>1, <3>2
  <2>7. \A i \in Ids : ~Disconnecting(i)' /\ ~Enumerating(i)'
    BY <2>4 DEF Disconnecting, Enumerating
  <2> QED
    BY <1>2, <1>6, <1>13, <2>2, <2>3, <2>4, <2>6, <2>7 DEF Onward, SameList, SameScan
<1>14. ASSUME SameQueue, Connect PROVE Onward
  <2>1. hp.step = "connect" /\ ~Scan
    BY <1>1, <1>14 DEF Connect, Scan, HpInv
  <2>2. hp'.step = "arrived" /\ hp'.child = hp.child /\ hp'.todo = hp.todo
    BY <1>1, <1>14 DEF Connect, HpType
  <2>3. \A i \in Ids : Made(i) <=> (hp.child # NoDev /\ dev[hp.child].id = i) \/ dev[hp.new].id = i
    BY <2>1 DEF Made
  <2>4. \A i \in Ids : Made(i)' <=> hp.child # NoDev /\ dev[hp.child].id = i
    BY <1>1, <1>3, <2>2 DEF Made, HpType, Pointers
  <2>5. \A i \in Ids : ~Disconnecting(i) /\ ~Enumerating(i) /\ ~Disconnecting(i)' /\ ~Enumerating(i)'
    BY <2>1, <2>2 DEF Disconnecting, Enumerating
  <2> QED
    BY <1>2, <1>6, <1>14, <2>1, <2>2, <2>3, <2>4, <2>5 DEF Onward, SameScan
<1>15. ASSUME SameQueue, Arrived PROVE Still
  <2>1. hp.step = "arrived" /\ ~Connect /\ ~Disconnect /\ ~Scan
    BY <1>1, <1>15 DEF Arrived, Connect, Disconnect, Scan, HpInv
  <2>2. \A i \in Ids : (Made(i) <=> hp.child # NoDev /\ dev[hp.child].id = i) /\ ~Disconnecting(i) /\ ~Enumerating(i)
    BY <2>1 DEF Made, Disconnecting, Enumerating
  <2>3. CASE hp.child = NoDev
    <3>1. hp'.step = "next" /\ hp'.todo = hp.todo
      BY <1>1, <1>15, <2>3 DEF Arrived, HpType
    <3>2. Rest
      BY <2>2, <2>3 DEF Rest
    <3> QED
      BY <1>5, <1>8, <1>15, <2>1, <3>1, <3>2
  <2>4. CASE hp.child # NoDev
    <3>1. hp'.step = "connect" /\ hp'.todo = hp.todo /\ hp'.new = hp.child /\ hp'.child = NoDev
      BY <1>1, <1>15, <2>4 DEF Arrived, HpType
    <3>2. \A i \in Ids : (Made(i)' <=> dev[hp.child].id = i) /\ ~Disconnecting(i)' /\ ~Enumerating(i)'
      BY <1>1, <1>3, <2>4, <3>1 DEF Made, Disconnecting, Enumerating, HpType, Pointers
    <3> QED
      BY <1>2, <1>6, <1>15, <2>1, <2>2, <2>4, <3>1, <3>2 DEF Still, AsBefore, SameWay, SameScan
  <2> QED
    BY <2>3, <2>4
<1>16. ASSUME SameQueue, Disconnect PROVE Drops
  <2>1. hp.step = "disconnect" /\ hp.child = NoDev /\ hp.id \in Ids /\ ~Scan
    BY <1>1, <1>16 DEF Disconnect, HpInv, Scan
  <2>2. hp'.step \in {"next", "left"} /\ hp'.todo = hp.todo
    BY <1>1, <1>16 DEF Disconnect, HpType
  <2>3. \A i \in Ids : ~Made(i) /\ ~Enumerating(i) /\ (Disconnecting(i) <=> i = hp.id)
    BY <2>1 DEF Made, Enumerating, Disconnecting
  <2> QED
    BY <1>2, <1>5, <1>6, <1>16, <2>1, <2>2, <2>3 DEF Drops, SameScan
<1>17. ASSUME SameQueue, Left \/ Unreferenced PROVE Still
  <2>1. hp.step \in {"left", "unref"} /\ ~Connect /\ ~Disconnect /\ ~Scan
    BY <1>1, <1>17 DEF Left, Unreferenced, Connect, Disconnect, Scan, HpInv
  <2>2. hp'.step \in {"unref", "next"} /\ hp'.todo = hp.todo
    BY <1>1, <1>17 DEF Left, Unreferenced, HpType
  <2> QED
    BY <1>1, <1>5, <1>8, <1>17, <2>1, <2>2, RestIs
<1>18. ASSUME SameQueue, Scan PROVE Scans
  <2>1. hp.owner = NoOne /\ phase = "init" /\ hp'.step = "next" /\ hp'.todo = plugged
    BY <1>18 DEF Scan, Idle
  <2>2. ~Connect /\ ~Disconnect
    BY <1>1, <2>1 DEF Connect, Disconnect, HpInv
  <2> QED
    BY <1>1, <1>2, <1>5, <1>18, <2>1, <2>2, RestIs DEF Scans
<1>19. ASSUME hp.owner = NoOne PROVE Rest /\ hp.todo = {} /\ ~Connect /\ ~Disconnect
  BY <1>1, <1>19, RestIs DEF HpInv, Idle, Connect, Disconnect
<1>20. ASSUME SameQueue, NEW t \in Apps, ListPoll(t) PROVE Still
  <2>1. hp.owner = NoOne /\ hp'.step = "next" /\ hp'.todo = {} /\ ~Scan
    BY <1>20 DEF ListPoll, Lock, Idle, Scan
  <2> QED
    BY <1>5, <1>8, <1>19, <1>20, <2>1
<1>21. ASSUME SameQueue, hp.owner = NoOne, ~Scan, NEW o, NEW i \in Ids, Lock(o, "disconnect", i),
              i \notin plugged \/ \E d \in Devs : Lost(d) /\ dev[d].attached /\ dev[d].id = i
       PROVE  Begins
  <2>1. hp'.step = "disconnect" /\ hp'.todo = {} /\ hp'.child = NoDev /\ hp'.id = i
    BY <1>21 DEF Lock, Idle
  <2>2. Notices(i)
    BY <1>21, <2>1 DEF Notices, Made, Enumerating, Disconnecting
  <2> QED
    BY <1>2, <1>6, <1>19, <1>21, <2>1, <2>2 DEF Begins, SameScan
<1>22. ASSUME NEW t \in Apps, NEW d \in Devs, d \in open[t] \/ d = target[t] PROVE dev[d].id \in Ids
  BY <1>1, <1>22, HeldIsAlive DEF Families
<1>23. ASSUME SameQueue, NEW t \in Apps, OpenNoDevice(t) PROVE Still \/ Begins
  <2>1. target[t] \in Devs /\ dev[target[t]].id \notin plugged /\ hp.owner = NoOne /\ ~Scan
    BY <1>1, <1>23 DEF OpenNoDevice, TargetInv, Scan
  <2>2. hp' = hp \/ Lock(t, "disconnect", dev[target[t]].id)
    BY <1>23 DEF OpenNoDevice
  <2> QED
    BY <1>7, <1>21, <1>22, <1>23, <2>1, <2>2 DEF Still
<1>24. ASSUME SameQueue, PollError PROVE Still \/ Begins
  <2>1. hp.owner = NoOne /\ ~Scan
    BY <1>24 DEF PollError, Scan
  <2>2. PICK t \in Apps : \E d \in open[t] :
          <<t, d>> \in lost /\ (hp' = hp \/ (dev[d].attached /\ Lock(Events, "disconnect", dev[d].id)))
    BY <1>24 DEF PollError
  <2> PICK d \in open[t] : <<t, d>> \in lost /\ (hp' = hp \/ (dev[d].attached /\ Lock(Events, "disconnect", dev[d].id)))
    BY <2>2
  <2>3. d \in Devs
    BY <1>1, <2>2 DEF AppType
  <2>4. dev[d].id \in Ids
    BY <1>22, <2>2, <2>3
  <2>5. CASE hp' = hp
    BY <1>7, <1>24, <2>5 DEF Still
  <2>6. CASE dev[d].attached /\ Lock(Events, "disconnect", dev[d].id)
    <3>1. Lost(d)
      BY <2>2 DEF Lost
    <3> QED
      BY <1>21, <1>24, <2>1, <2>3, <2>4, <2>6, <3>1
  <2> QED
    BY <2>2, <2>5, <2>6
<1>25. ASSUME NEW i \in Ids, Plug(i) \/ Unplug(i), hp' = hp PROVE BusMoves
  BY <1>7, <1>25 DEF BusMoves
<1> QED
  BY <1>1, <1>7, <1>9, <1>10, <1>11, <1>12, <1>13, <1>14, <1>15, <1>16, <1>17, <1>18, <1>20, <1>23, <1>24, <1>25, LockFrame
  DEF Still

\* --- what the socket says after a step

\* The event that the bus adds.
LEMMA Moved ==
  ASSUME BusType, BusMoves
  PROVE  \E x \in Ids : \E e \in EventType :
           /\ e.id = x /\ queue' = Append(queue, e)
           /\ \/ Plug(x) /\ e.act = "add" /\ plugged' = plugged \cup {x} /\ Parent[x] \in plugged \cup {NoId}
              \/ Unplug(x) /\ e = Removal(x) /\ plugged' = plugged \ {x} /\ \A j \in plugged : Parent[j] # x
<1>1. PICK x \in Ids : Plug(x) \/ Unplug(x)
  BY DEF BusMoves
<1>2. CASE Plug(x)
  <2> DEFINE e == [act |-> "add", id |-> x]
  <2>1. e \in EventType /\ e.id = x /\ e.act = "add"
    BY DEF EventType
  <2>2. queue' = Append(queue, e) /\ plugged' = plugged \cup {x} /\ Parent[x] \in plugged \cup {NoId}
    BY <1>2 DEF Plug
  <2> QED
    BY <1>2, <2>1, <2>2
<1>3. CASE Unplug(x)
  <2>1. Removal(x) \in EventType /\ Removal(x).id = x
    BY DEF EventType, Removal
  <2>2. queue' = Append(queue, Removal(x)) /\ plugged' = plugged \ {x} /\ \A j \in plugged : Parent[j] # x
    BY <1>3 DEF Unplug, Removal
  <2> QED
    BY <1>3, <2>1, <2>2
<1> QED
  BY <1>1, <1>2, <1>3

\* The queue of events only grows at its end and shrinks at its front.
LEMMA Steps3 ==
  ASSUME Finite, Topology, Distinct, SafeInv, SafeInv', Begun, Active', [Next]_vars
  PROVE  SameQueue \/ BusMoves \/ Takes
BY View DEF Still, Scans, Looks, Onward, Drops, Begins

LEMMA LastTellsNext ==
  ASSUME Finite, Topology, Distinct, SafeInv, SafeInv', Begun, LastTells, Active', [Next]_vars
  PROVE  LastTells'
<1>1. BusType
  BY DEF SafeInv, Types
<1>2. CASE SameQueue
  BY <1>2 DEF SameQueue, LastTells
<1>3. CASE BusMoves
  <2>1. PICK x \in Ids, e \in EventType :
           /\ e.id = x /\ queue' = Append(queue, e)
           /\ \/ Plug(x) /\ e.act = "add" /\ plugged' = plugged \cup {x} /\ Parent[x] \in plugged \cup {NoId}
              \/ Unplug(x) /\ e = Removal(x) /\ plugged' = plugged \ {x} /\ \A j \in plugged : Parent[j] # x
    BY <1>1, <1>3, Moved
  <2>2. e.act = "add" <=> x \in plugged'
    BY <2>1 DEF Removal
  <2>3. \A i \in Ids : i # x => (i \in plugged' <=> i \in plugged)
    BY <2>1
  <2> DEFINE n == Len(queue)
  <2>4. /\ n \in Nat /\ DOMAIN queue = 1..n /\ DOMAIN queue' = 1..n + 1
        /\ queue'[n + 1] = e /\ \A k \in DOMAIN queue : queue'[k] = queue[k]
    BY <1>1, <2>1, EventAdded
  <2> HIDE DEF n
  <2>5. ASSUME NEW i \in Ids, NEW k \in DOMAIN queue', queue'[k].id = i, \A j \in DOMAIN queue' : j > k => queue'[j].id # i
        PROVE  queue'[k].act = "add" <=> i \in plugged'
    <3>1. CASE k = n + 1
      BY <2>1, <2>2, <2>4, <2>5, <3>1
    <3>2. CASE k # n + 1
      <4>1. k \in 1..n /\ n + 1 > k /\ n + 1 \in 1..n + 1
        BY <2>4, <3>2
      <4>2. i # x
        BY <2>1, <2>4, <2>5, <4>1
      <4>3. queue[k].id = i /\ \A j \in DOMAIN queue : j > k => queue[j].id # i
        <5>1. ASSUME NEW j \in DOMAIN queue, j > k PROVE queue[j].id # i
          BY <2>4, <2>5, <5>1
        <5> QED
          BY <2>4, <2>5, <4>1, <5>1
      <4>4. queue[k].act = "add" <=> i \in plugged
        BY <2>4, <4>1, <4>3 DEF LastTells
      <4> QED
        BY <2>3, <2>4, <4>1, <4>2, <4>4
    <3> QED
      BY <3>1, <3>2
  <2> QED
    BY <2>5 DEF LastTells
<1>4. CASE Takes
  <2>1. queue # <<>> /\ queue' = Tail(queue) /\ plugged' = plugged
    BY <1>4 DEF Takes
  <2> DEFINE n == Len(queue)
  <2>2. /\ n \in Nat \ {0} /\ DOMAIN queue = 1..n /\ DOMAIN queue' = 1..n - 1
        /\ \A k \in DOMAIN queue' : queue'[k] = queue[k + 1]
    BY <1>1, <2>1, EventTaken
  <2> HIDE DEF n
  <2>3. ASSUME NEW i \in Ids, NEW k \in DOMAIN queue', queue'[k].id = i, \A j \in DOMAIN queue' : j > k => queue'[j].id # i
        PROVE  queue'[k].act = "add" <=> i \in plugged'
    <3>1. k + 1 \in DOMAIN queue /\ queue[k + 1].id = i /\ queue[k + 1].act = queue'[k].act
      BY <2>2, <2>3
    <3>2. ASSUME NEW j \in DOMAIN queue, j > k + 1 PROVE queue[j].id # i
      <4>1. j - 1 \in DOMAIN queue' /\ j - 1 > k /\ queue'[j - 1] = queue[j]
        BY <2>2, <3>2
      <4> QED
        BY <2>3, <4>1
    <3> QED
      BY <2>1, <3>1, <3>2 DEF LastTells
  <2> QED
    BY <2>3 DEF LastTells
<1> QED
  BY <1>2, <1>3, <1>4, Steps3

LEMMA HubsNext ==
  ASSUME Finite, Topology, Distinct, SafeInv, SafeInv', Begun, Hubs, Active', [Next]_vars
  PROVE  Hubs'
<1>1. BusType
  BY DEF SafeInv, Types
<1>2. CASE plugged' = plugged
  BY <1>2 DEF Hubs
<1>3. CASE BusMoves
  <2>1. PICK x \in Ids, e \in EventType :
           \/ plugged' = plugged \cup {x} /\ Parent[x] \in plugged \cup {NoId}
           \/ plugged' = plugged \ {x} /\ \A j \in plugged : Parent[j] # x
    BY <1>1, <1>3, Moved
  <2> QED
    BY <2>1 DEF Hubs
<1> QED
  BY <1>2, <1>3, Steps3 DEF SameQueue, Takes

\* How the events of an id change, and what is plugged.
LEMMA EventsOf ==
  ASSUME Finite, Topology, Distinct, SafeInv, SafeInv', Begun, Active', [Next]_vars, NEW i \in Ids
  PROVE  /\ SameQueue => /\ Pending(i)' <=> Pending(i)
                         /\ Removing(i)' <=> Removing(i)
                         /\ i \in plugged' <=> i \in plugged
         /\ BusMoves => /\ Pending(i) => Pending(i)'
                        /\ Removing(i) => Removing(i)'
                        /\ ~Pending(i)' => (i \in plugged' <=> i \in plugged)
         /\ Takes => /\ Pending(i) <=> Pending(i)' \/ Head(queue).id = i
                     /\ Removing(i) <=> Removing(i)' \/ Head(queue) = Removal(i)
                     /\ i \in plugged' <=> i \in plugged
<1>1. BusType
  BY DEF SafeInv, Types
<1>2. ASSUME SameQueue
      PROVE  /\ Pending(i)' <=> Pending(i)
             /\ Removing(i)' <=> Removing(i)
             /\ i \in plugged' <=> i \in plugged
  BY <1>2 DEF SameQueue, Pending, Removing, Removal
<1>3. ASSUME BusMoves
      PROVE  /\ Pending(i) => Pending(i)'
             /\ Removing(i) => Removing(i)'
             /\ ~Pending(i)' => (i \in plugged' <=> i \in plugged)
  <2>1. PICK x \in Ids, e \in EventType :
           e.id = x /\ queue' = Append(queue, e) /\ (plugged' = plugged \cup {x} \/ plugged' = plugged \ {x})
    BY <1>1, <1>3, Moved
  <2>2. (Pending(i)' <=> Pending(i) \/ e.id = i) /\ (Removing(i)' <=> Removing(i) \/ e = Removal(i))
    BY <1>1, <2>1, AddedPending
  <2> QED
    BY <2>1, <2>2
<1>4. ASSUME Takes
      PROVE  /\ Pending(i) <=> Pending(i)' \/ Head(queue).id = i
             /\ Removing(i) <=> Removing(i)' \/ Head(queue) = Removal(i)
             /\ i \in plugged' <=> i \in plugged
  BY <1>1, <1>4, TakenPending DEF Takes
<1> QED
  BY <1>2, <1>3, <1>4, Zenon

\* The event that was taken is the last one of its id, unless there is another.
LEMMA HeadTells ==
  ASSUME BusType, LastTells, queue # <<>>, queue' = Tail(queue), NEW i \in Ids, Head(queue).id = i, ~Pending(i)'
  PROVE  IF i \in plugged THEN Head(queue) = [act |-> "add", id |-> i] ELSE Head(queue) = Removal(i)
<1> DEFINE n == Len(queue)
<1>1. /\ n \in Nat \ {0} /\ DOMAIN queue = 1..n /\ DOMAIN queue' = 1..n - 1
      /\ Head(queue) = queue[1] /\ Head(queue) \in EventType /\ \A k \in DOMAIN queue' : queue'[k] = queue[k + 1]
  BY EventTaken
<1> HIDE DEF n
<1>2. ASSUME NEW j \in DOMAIN queue, j > 1 PROVE queue[j].id # i
  <2>1. j - 1 \in DOMAIN queue' /\ queue'[j - 1] = queue[j]
    BY <1>1, <1>2
  <2> QED
    BY <2>1 DEF Pending
<1>3. 1 \in DOMAIN queue
  BY <1>1
<1>4. queue[1].act = "add" <=> i \in plugged
  BY <1>1, <1>2, <1>3 DEF LastTells
<1> QED
  BY <1>1, <1>4 DEF EventType, Removal

\* --- what is listed follows the bus

LEMMA TodoNext ==
  ASSUME SafeInv, [Next]_vars, hp.owner # Main => hp.todo = {}
  PROVE  hp'.owner # Main => hp'.todo = {}
<1>1. HpType /\ PhaseInv
  BY DEF SafeInv, Types
<1>2. CASE hp' = hp
  BY <1>2
<1>3. CASE PollDone \/ EventDone \/ ScanDone
  BY <1>3 DEF PollDone, EventDone, ScanDone, Unlock, Idle
<1>4. CASE Receive
  BY <1>4 DEF Receive, Lock, Idle
<1>5. CASE Scan
  BY <1>5 DEF Scan, Idle
<1>6. CASE PollMore \/ Known \/ Gone \/ Connect \/ Left \/ Unreferenced
  BY <1>1, <1>6 DEF PollMore, Known, Gone, Connect, Left, Unreferenced, HpType
<1>7. CASE Allocate \/ EnumerateParent
  BY <1>1, <1>7 DEF Allocate, EnumerateParent, HpType
<1>8. CASE Arrived \/ Disconnect
  BY <1>1, <1>8 DEF Arrived, Disconnect, HpType
<1>9. CASE ScanMore
  BY <1>1, <1>9 DEF ScanMore, HpType
<1>10. ASSUME NEW t \in Apps, ListPoll(t) \/ OpenNoDevice(t) PROVE hp' = hp \/ hp'.todo = {}
  BY <1>10 DEF ListPoll, OpenNoDevice, Lock, Idle
<1>11. CASE PollError
  <2>1. hp' = hp \/ \E i : Lock(Events, "disconnect", i)
    BY <1>11 DEF PollError
  <2> QED
    BY <1>2, <2>1 DEF Lock, Idle
<1> QED
  BY <1>1, <1>2, <1>3, <1>4, <1>5, <1>6, <1>7, <1>8, <1>9, <1>10, <1>11, LockFrame

LEMMA BegunNext ==
  ASSUME Finite, Topology, Distinct, SafeInv, SafeInv', LastTells, LostGo, Begun, Active', [Next]_vars
  PROVE  Begun'
<1>1. BusType
  BY DEF SafeInv, Types
<1>2. hp'.owner # Main => hp'.todo = {}
  BY TodoNext DEF Begun
<1>3. ASSUME NEW i \in Ids, Enumerating(i)' \/ i \in hp'.todo, ~Pending(i)' PROVE i \in plugged'
  <2>1. Enumerating(i) \/ i \in hp.todo => Pending(i) \/ i \in plugged
    BY DEF Begun
  <2>2. CASE BusMoves \/ Still
    BY <1>3, <2>1, <2>2, EventsOf DEF BusMoves, Still, AsBefore, SameWay, SameScan
  <2>3. CASE Takes
    <3>1. hp'.todo = {} /\ Head(queue) = [act |-> "add", id |-> i]
      BY <1>3, <2>3 DEF Takes, SameScan
    <3>2. queue # <<>> /\ queue' = Tail(queue) /\ plugged' = plugged /\ Head(queue).id = i /\ Head(queue) # Removal(i)
      BY <2>3, <3>1 DEF Takes, Removal
    <3> QED
      BY <1>1, <1>3, <3>2, HeadTells
  <2>4. CASE Scans
    BY <1>3, <2>4 DEF Scans, Rest, SameQueue
  <2>5. CASE Looks
    BY <1>3, <2>1, <2>5, EventsOf DEF Looks
  <2>6. CASE Onward \/ Drops \/ Begins
    BY <1>3, <2>1, <2>6, EventsOf DEF Onward, Drops, Begins, Notices, Rest, SameScan
  <2> QED
    BY <2>2, <2>3, <2>4, <2>5, <2>6, View
<1>4. ASSUME NEW i \in Ids, Disconnecting(i)', ~Pending(i)' PROVE i \notin plugged'
  <2>1. Disconnecting(i) => Pending(i) \/ i \notin plugged
    BY DEF Begun
  <2>2. CASE BusMoves \/ Still
    BY <1>4, <2>1, <2>2, EventsOf DEF BusMoves, Still, AsBefore, SameWay
  <2>3. CASE Takes
    <3>1. Head(queue) = Removal(i) /\ queue # <<>> /\ queue' = Tail(queue) /\ plugged' = plugged
      BY <1>4, <2>3 DEF Takes
    <3>2. Head(queue).id = i /\ Head(queue) # [act |-> "add", id |-> i]
      BY <3>1 DEF Removal
    <3> QED
      BY <1>1, <1>4, <3>1, <3>2, HeadTells
  <2>4. CASE Scans \/ Looks \/ Onward \/ Drops
    BY <1>4, <2>4 DEF Scans, Looks, Onward, Drops, Rest
  <2>5. CASE Begins
    <3>1. ~Pending(i) /\ ~Removing(i) /\ (i \in plugged' <=> i \in plugged) /\ ~Disconnecting(i)
      <4>1. Removing(i) => Pending(i)
        BY DEF Removing, Pending, Removal
      <4> QED
        BY <1>4, <2>5, <4>1, EventsOf DEF Begins, Rest
    <3>2. i \notin plugged \/ \E d \in Devs : Lost(d) /\ dev[d].attached /\ dev[d].id = i
      BY <1>4, <2>5 DEF Begins, Notices
    <3> QED
      BY <3>1, <3>2 DEF LostGo, Lost
  <2> QED
    BY <2>2, <2>3, <2>4, <2>5, View
<1> QED
  BY <1>2, <1>3, <1>4 DEF Begun

LEMMA NoGhostsNext ==
  ASSUME Finite, Topology, Distinct, SafeInv, SafeInv', LastTells, NoGhosts, Begun, Active', [Next]_vars
  PROVE  NoGhosts'
<1>1. BusType
  BY DEF SafeInv, Types
<1>2. ASSUME NEW i \in Ids, i \notin plugged', ~Pending(i)', ~Disconnecting(i)' PROVE ~InList(i)' /\ ~Made(i)'
  <2>1. i \notin plugged /\ ~Pending(i) /\ ~Disconnecting(i) => ~InList(i) /\ ~Made(i)
    BY DEF NoGhosts
  <2>2. CASE BusMoves \/ Still
    BY <1>2, <2>1, <2>2, EventsOf DEF BusMoves, Still, AsBefore, SameWay, SameList
  <2>3. CASE Takes
    <3>1. i \notin plugged /\ queue # <<>> /\ queue' = Tail(queue) /\ Head(queue) # Removal(i)
      BY <1>2, <2>3 DEF Takes
    <3>2. Head(queue).id # i
      BY <1>1, <1>2, <3>1, HeadTells
    <3>3. ~Pending(i)
      BY <1>2, <2>3, <3>2, EventsOf
    <3> QED
      BY <2>1, <2>3, <3>1, <3>3 DEF Takes, Rest, SameList
  <2>4. CASE Scans \/ Looks
    BY <1>2, <2>1, <2>4, EventsOf DEF Scans, Looks, SameList, Rest
  <2>5. CASE Onward
    BY <1>2, <2>1, <2>5, EventsOf DEF Onward
  <2>6. CASE Drops \/ Begins
    BY <1>2, <2>1, <2>6, EventsOf DEF Drops, Begins, Notices, Rest, SameList
  <2> QED
    BY <2>2, <2>3, <2>4, <2>5, <2>6, View
<1> QED
  BY <1>2 DEF NoGhosts

LEMMA NoneMissedNext ==
  ASSUME Finite, Topology, Distinct, SafeInv, SafeInv', LastTells, NoneMissed, Begun, Active', [Next]_vars
  PROVE  NoneMissed'
<1>1. BusType
  BY DEF SafeInv, Types
<1>2. ASSUME NEW i \in Ids, i \in plugged', ~Pending(i)', phase' # "init"
      PROVE  InList(i)' \/ i \in hp'.todo \/ Made(i)' \/ Enumerating(i)'
  <2>1. i \in plugged /\ ~Pending(i) /\ phase # "init" => InList(i) \/ i \in hp.todo \/ Made(i) \/ Enumerating(i)
    BY DEF NoneMissed
  <2>2. CASE BusMoves \/ Still
    BY <1>2, <2>1, <2>2, EventsOf DEF BusMoves, Still, AsBefore, SameWay, SameList, SameScan
  <2>3. CASE Takes
    <3>1. i \in plugged /\ queue # <<>> /\ queue' = Tail(queue) /\ phase # "init"
      BY <1>2, <2>3 DEF Takes, SameScan
    <3>2. CASE Head(queue).id = i
      <4>1. Head(queue) = [act |-> "add", id |-> i]
        BY <1>1, <1>2, <3>1, <3>2, HeadTells
      <4> QED
        BY <2>3, <4>1 DEF Takes
    <3>3. CASE Head(queue).id # i
      <4>1. ~Pending(i)
        BY <1>2, <2>3, <3>3, EventsOf
      <4> QED
        BY <2>1, <2>3, <3>1, <4>1 DEF Takes, Rest, SameList
    <3> QED
      BY <3>2, <3>3
  <2>4. CASE Scans
    BY <1>2, <2>4 DEF Scans, SameQueue
  <2>5. CASE Looks
    BY <1>2, <2>1, <2>5, EventsOf DEF Looks, SameList, Rest
  <2>6. CASE Onward
    BY <1>2, <2>1, <2>6, EventsOf DEF Onward, SameScan
  <2>7. CASE Drops
    <3>1. ~Pending(i) /\ i \in plugged /\ phase # "init"
      BY <1>2, <2>7, EventsOf DEF Drops, SameScan
    <3>2. ~Disconnecting(i)
      BY <3>1 DEF Begun
    <3> QED
      BY <2>1, <2>7, <3>1, <3>2 DEF Drops, SameScan
  <2>8. CASE Begins
    BY <1>2, <2>1, <2>8, EventsOf DEF Begins, Rest, SameList, SameScan
  <2> QED
    BY <2>2, <2>3, <2>4, <2>5, <2>6, <2>7, <2>8, View
<1> QED
  BY <1>2 DEF NoneMissed

\* --- a hub goes after what was plugged into it

\* An id that was gone before the removal of its hub stays so.
LEMMA AwayNext ==
  ASSUME Finite, Topology, Distinct, SafeInv, SafeInv', Begun, Active', [Next]_vars,
         NEW i \in Ids, Parent[i] \in Ids, Away(i), phase # "init", SameQueue \/ BusMoves
  PROVE  Away(i)'
<1>1. CASE BusMoves \/ Still
  BY <1>1 DEF BusMoves, Still, AsBefore, SameList, SameWay, SameScan, Away
<1>2. CASE Looks
  BY <1>2 DEF Looks, SameList, Rest, Away
<1>3. CASE Onward
  BY <1>3 DEF Onward, SameScan, Away
<1>4. CASE Drops
  BY <1>4 DEF Drops, SameScan, Rest, Away
<1>5. CASE Begins
  BY <1>5 DEF Begins, Notices, SameList, SameScan, Rest, Away
<1>6. CASE Takes
  <2>1. BusType /\ queue # <<>> /\ queue' = Tail(queue)
    BY <1>6 DEF Takes, SafeInv, Types
  <2>2. Len(queue) \in Nat /\ DOMAIN queue = 1..Len(queue) /\ DOMAIN queue' = 1..Len(queue) - 1 /\ Len(queue) # 0
    BY <2>1, EventTaken
  <2>3. ~SameQueue
    <3>1. Len(queue) \in DOMAIN queue /\ Len(queue) \notin DOMAIN queue'
      BY <2>2
    <3> QED
      BY <3>1 DEF SameQueue
  <2>4. BusMoves
    BY <2>3
  <2> QED
    BY <1>1, <2>4
<1> QED
  BY <1>1, <1>2, <1>3, <1>4, <1>5, <1>6, View DEF Scans

LEMMA HubsLastNext ==
  ASSUME Finite, Topology, Distinct, SafeInv, SafeInv', LastTells, NoGhosts, Begun, HubsLast, Active', [Next]_vars
  PROVE  HubsLast'
<1>1. BusType /\ HpInv /\ PhaseInv
  BY DEF SafeInv, Types
<1>2. ASSUME NEW k \in DOMAIN queue, NEW i \in Ids, queue[k] = Removal(i) PROVE phase # "init"
  <2>1. queue[k].act # "add"
    BY <1>2 DEF Removal
  <2> QED
    BY <1>1, <2>1 DEF PhaseInv, Exits
<1>3. CASE SameQueue
  <2>1. ASSUME NEW i \in Ids, NEW k \in DOMAIN queue', Parent[i] \in Ids, queue'[k] = Removal(Parent[i])
        PROVE  RemovedBefore(i, k)' \/ (NotBefore(i, k)' /\ Away(i)')
    <3>1. k \in DOMAIN queue /\ queue[k] = Removal(Parent[i])
      BY <1>3, <2>1 DEF SameQueue
    <3>2. RemovedBefore(i, k) \/ (NotBefore(i, k) /\ Away(i))
      BY <2>1, <3>1 DEF HubsLast
    <3>3. (RemovedBefore(i, k) => RemovedBefore(i, k)') /\ (NotBefore(i, k) => NotBefore(i, k)')
      BY <1>3 DEF SameQueue, RemovedBefore, NotBefore, Removal
    <3>4. Away(i) => Away(i)'
      BY <1>2, <1>3, <2>1, <3>1, AwayNext
    <3> QED
      BY <3>2, <3>3, <3>4
  <2> QED
    BY <2>1 DEF HubsLast, Removal
<1>4. CASE BusMoves
  <2>1. PICK x \in Ids, e \in EventType :
           /\ e.id = x /\ queue' = Append(queue, e)
           /\ \/ Plug(x) /\ e.act = "add" /\ plugged' = plugged \cup {x} /\ Parent[x] \in plugged \cup {NoId}
              \/ Unplug(x) /\ e = Removal(x) /\ plugged' = plugged \ {x} /\ \A j \in plugged : Parent[j] # x
    BY <1>1, <1>4, Moved
  <2> DEFINE n == Len(queue)
  <2>2. /\ n \in Nat /\ DOMAIN queue = 1..n /\ DOMAIN queue' = 1..n + 1
        /\ queue'[n + 1] = e /\ \A k \in DOMAIN queue : queue'[k] = queue[k]
    BY <1>1, <2>1, EventAdded
  <2> HIDE DEF n
  <2>3. ASSUME NEW i \in Ids, NEW k \in 1..n, RemovedBefore(i, k) PROVE RemovedBefore(i, k)'
    <3>1. PICK j \in 1..n : j < k /\ queue[j] = Removal(i) /\ \A l \in 1..n : j < l /\ l < k => queue[l].id # i
      BY <2>2, <2>3 DEF RemovedBefore
    <3>2. j \in DOMAIN queue' /\ j < k /\ queue'[j] = Removal(i)
      BY <2>2, <3>1
    <3>3. \A l \in DOMAIN queue' : j < l /\ l < k => queue'[l].id # i
      BY <2>2, <3>1
    <3> QED
      BY <3>2, <3>3 DEF RemovedBefore, Removal
  <2>4. ASSUME NEW i \in Ids, NEW k \in 1..n, NotBefore(i, k) PROVE NotBefore(i, k)'
    BY <2>2, <2>4 DEF NotBefore
  <2>5. ASSUME NEW i \in Ids, NEW k \in DOMAIN queue', Parent[i] \in Ids, queue'[k] = Removal(Parent[i])
        PROVE  RemovedBefore(i, k)' \/ (NotBefore(i, k)' /\ Away(i)')
    <3>1. CASE k # n + 1
      <4>1. k \in 1..n /\ queue[k] = Removal(Parent[i])
        BY <2>2, <2>5, <3>1
      <4>2. RemovedBefore(i, k) \/ (NotBefore(i, k) /\ Away(i))
        BY <2>2, <2>5, <4>1 DEF HubsLast
      <4>3. Away(i) => Away(i)'
        BY <1>2, <1>4, <2>2, <2>5, <4>1, AwayNext
      <4> QED
        BY <2>3, <2>4, <4>1, <4>2, <4>3
    <3>2. CASE k = n + 1
      <4>1. e = Removal(Parent[i])
        BY <2>2, <2>5, <3>2
      <4>2. Unplug(x) /\ x = Parent[i] /\ i \notin plugged
        BY <2>1, <4>1 DEF Removal
      <4>3. CASE Pending(i)
        <5>1. PICK j \in DOMAIN queue : queue[j] = Removal(i) /\ \A l \in DOMAIN queue : l > j => queue[l].id # i
          BY <1>1, <4>2, <4>3, LastRemoves
        <5>2. j \in DOMAIN queue' /\ j < k /\ queue'[j] = Removal(i)
          BY <2>2, <3>2, <5>1
        <5>3. \A l \in DOMAIN queue' : j < l /\ l < k => queue'[l].id # i
          BY <2>2, <3>2, <5>1
        <5> QED
          BY <5>2, <5>3 DEF RemovedBefore, Removal
      <4>4. CASE ~Pending(i)
        <5>1. NotBefore(i, k)'
          BY <2>2, <3>2, <4>4 DEF NotBefore, Pending
        <5>2. Away(i)
          <6>1. ~Enumerating(i) /\ i \notin hp.todo
            BY <4>2, <4>4 DEF Begun
          <6>2. Disconnecting(i) => ~Made(i)
            BY <1>1 DEF Disconnecting, Made, HpInv
          <6> QED
            BY <4>2, <4>4, <6>1, <6>2 DEF NoGhosts, Away
        <5>3. phase # "init"
          <6>1. queue'[n + 1].act # "add" /\ n + 1 \in DOMAIN queue'
            BY <2>2, <4>1 DEF Removal
          <6>2. PhaseInv'
            BY DEF SafeInv
          <6>3. phase' = phase
            BY <4>2 DEF Unplug
          <6> QED
            BY <6>1, <6>2, <6>3 DEF PhaseInv, Exits
        <5>4. Away(i)'
          BY <1>4, <2>5, <5>2, <5>3, AwayNext
        <5> QED
          BY <5>1, <5>4
      <4> QED
        BY <4>3, <4>4
    <3> QED
      BY <3>1, <3>2
  <2> QED
    BY <2>5 DEF HubsLast, Removal
<1>5. CASE Takes
  <2>1. queue # <<>> /\ queue' = Tail(queue)
    BY <1>5 DEF Takes
  <2> DEFINE n == Len(queue)
  <2>2. /\ n \in Nat \ {0} /\ DOMAIN queue = 1..n /\ DOMAIN queue' = 1..n - 1
        /\ Head(queue) = queue[1] /\ \A k \in DOMAIN queue' : queue'[k] = queue[k + 1]
    BY <1>1, <2>1, EventTaken
  <2> HIDE DEF n
  <2>3. ASSUME NEW i \in Ids, Head(queue) # [act |-> "add", id |-> i], InList(i) => Disconnecting(i)' PROVE Away(i)'
    BY <1>5, <2>3 DEF Takes, SameScan, SameList, Away
  <2>4. ASSUME NEW i \in Ids, NEW k \in DOMAIN queue', Parent[i] \in Ids, queue'[k] = Removal(Parent[i])
        PROVE  RemovedBefore(i, k)' \/ (NotBefore(i, k)' /\ Away(i)')
    <3>1. k \in 1..n - 1 /\ k + 1 \in DOMAIN queue /\ queue[k + 1] = Removal(Parent[i])
      BY <2>2, <2>4
    <3>2. RemovedBefore(i, k + 1) \/ (NotBefore(i, k + 1) /\ Away(i))
      BY <2>4, <3>1 DEF HubsLast
    <3>3. CASE RemovedBefore(i, k + 1)
      <4>1. PICK j \in DOMAIN queue : /\ j < k + 1 /\ queue[j] = Removal(i)
                                      /\ \A l \in DOMAIN queue : j < l /\ l < k + 1 => queue[l].id # i
        BY <3>3 DEF RemovedBefore
      <4>2. CASE j = 1
        <5>1. Head(queue) = Removal(i)
          BY <2>2, <4>1, <4>2
        <5>2. Disconnecting(i)' /\ Head(queue) # [act |-> "add", id |-> i]
          BY <1>5, <5>1 DEF Takes, Removal
        <5>3. ASSUME NEW l \in DOMAIN queue', l < k PROVE queue'[l].id # i
          <6>1. l + 1 \in DOMAIN queue /\ 1 < l + 1 /\ l + 1 < k + 1 /\ queue'[l] = queue[l + 1]
            BY <2>2, <3>1, <5>3
          <6> QED
            BY <4>1, <4>2, <6>1
        <5>4. NotBefore(i, k)'
          BY <5>3 DEF NotBefore
        <5> QED
          BY <2>3, <5>2, <5>4
      <4>3. CASE j # 1
        <5>1. j - 1 \in DOMAIN queue' /\ j - 1 < k /\ queue'[j - 1] = Removal(i)
          BY <2>2, <3>1, <4>1, <4>3
        <5>2. ASSUME NEW l \in DOMAIN queue', j - 1 < l, l < k PROVE queue'[l].id # i
          <6>1. l + 1 \in DOMAIN queue /\ j < l + 1 /\ l + 1 < k + 1 /\ queue'[l] = queue[l + 1]
            BY <2>2, <3>1, <4>1, <5>2
          <6> QED
            BY <4>1, <6>1
        <5> QED
          BY <5>1, <5>2 DEF RemovedBefore, Removal
      <4> QED
        BY <4>2, <4>3
    <3>4. CASE NotBefore(i, k + 1) /\ Away(i)
      <4>1. ASSUME NEW l \in DOMAIN queue', l < k PROVE queue'[l].id # i
        <5>1. l + 1 \in DOMAIN queue /\ l + 1 < k + 1 /\ queue'[l] = queue[l + 1]
          BY <2>2, <3>1, <4>1
        <5> QED
          BY <3>4, <5>1 DEF NotBefore
      <4>2. Head(queue).id # i
        <5>1. 1 \in DOMAIN queue /\ 1 < k + 1
          BY <2>2, <3>1
        <5> QED
          BY <2>2, <3>4, <5>1 DEF NotBefore
      <4>3. ~InList(i)
        BY <1>5, <3>4 DEF Away, Takes, Rest
      <4>4. NotBefore(i, k)'
        BY <4>1 DEF NotBefore
      <4>5. Head(queue) # [act |-> "add", id |-> i]
        BY <4>2
      <4> QED
        BY <2>3, <4>3, <4>4, <4>5
    <3> QED
      BY <3>2, <3>3, <3>4
  <2> QED
    BY <2>4 DEF HubsLast, Removal
<1> QED
  BY <1>3, <1>4, <1>5, Steps3

LEMMA HubGoesNext ==
  ASSUME Finite, Topology, Distinct, SafeInv, SafeInv', LastTells, Hubs, NoGhosts, Begun, HubsLast, HubGoes, LostGo,
         Active', [Next]_vars
  PROVE  HubGoes'
<1>1. BusType /\ HpInv'
  BY DEF SafeInv, Types
<1>2. ASSUME NEW c \in Ids, Disconnecting(Parent[c])', InList(c)' PROVE Removing(c)'
  <2> DEFINE i == Parent[c]
  <2>1. i \in Ids
    BY <1>1, <1>2 DEF HpInv, Disconnecting
  <2>2. Disconnecting(i) /\ InList(c) => Removing(c)
    BY DEF HubGoes
  <2> HIDE DEF i
  <2>3. Disconnecting(i)'
    BY <1>2 DEF i
  <2>4. CASE BusMoves \/ Still
    <3>1. Disconnecting(i) /\ InList(c)
      BY <1>2, <2>1, <2>3, <2>4 DEF BusMoves, Still, AsBefore, SameWay, SameList
    <3> QED
      BY <2>2, <2>4, <3>1, EventsOf DEF Still
  <2>5. ASSUME NEW k \in DOMAIN queue, queue[k] = Removal(i), ~Disconnecting(c), InList(c)
        PROVE  RemovedBefore(c, k)
    BY <2>1, <2>5 DEF HubsLast, Away, i
  <2>6. CASE Takes
    <3>1. /\ Head(queue) = Removal(i) /\ InList(c) /\ ~Disconnecting(c) /\ queue # <<>> /\ queue' = Tail(queue)
      BY <1>2, <2>1, <2>3, <2>6 DEF Takes, SameList, Rest
    <3>2. DOMAIN queue = 1..Len(queue) /\ 1 \in DOMAIN queue /\ queue[1] = Removal(i)
      <4>1. Len(queue) \in Nat \ {0} /\ DOMAIN queue = 1..Len(queue) /\ Head(queue) = queue[1]
        BY <1>1, <3>1, EventTaken
      <4>2. 1 \in 1..Len(queue)
        BY <4>1
      <4> QED
        BY <3>1, <4>1, <4>2
    <3>3. RemovedBefore(c, 1)
      BY <2>5, <3>1, <3>2
    <3> QED
      BY <3>2, <3>3 DEF RemovedBefore
  <2>7. CASE Scans \/ Looks \/ Onward \/ Drops
    BY <2>1, <2>3, <2>7 DEF Scans, Looks, Onward, Drops, Rest
  <2>8. CASE Begins
    <3>1. InList(c) /\ ~Disconnecting(c) /\ ~Disconnecting(i) /\ SameQueue
      BY <1>2, <2>1, <2>8 DEF Begins, SameList, Rest
    <3>2. Removing(c) => Removing(c)'
      BY <3>1, EventsOf
    <3>3. i \notin plugged \/ \E d \in Devs : Lost(d) /\ dev[d].attached /\ dev[d].id = i
      BY <2>1, <2>3, <2>8 DEF Begins, Notices
    <3>4. CASE i \notin plugged
      <4>1. c \notin plugged
        BY <2>1, <3>4 DEF Hubs, Distinct, i
      <4>2. Pending(c)
        BY <3>1, <4>1 DEF NoGhosts
      <4>3. Removing(c)
        BY <1>1, <4>1, <4>2, LastRemoves DEF Removing
      <4> QED
        BY <3>2, <4>3
    <3>5. CASE \E d \in Devs : Lost(d) /\ dev[d].attached /\ dev[d].id = i
      <4>1. Removing(i)
        BY <3>1, <3>5 DEF LostGo, Lost
      <4>2. PICK k \in DOMAIN queue : queue[k] = Removal(i)
        BY <4>1 DEF Removing
      <4>3. RemovedBefore(c, k)
        BY <2>5, <3>1, <4>2
      <4>4. Removing(c)
        BY <4>3 DEF RemovedBefore, Removing
      <4> QED
        BY <3>2, <4>4
    <3> QED
      BY <3>3, <3>4, <3>5
  <2> QED
    BY <2>4, <2>6, <2>7, <2>8, View
<1> QED
  BY <1>2 DEF HubGoes

\* --- who holds a device, and its hub

LEMMA HeldStep ==
  ASSUME Distinct, SafeInv, [Next]_vars, NEW d \in Devs, Held(d)'
  PROVE  Held(d) \/ d \in Range(listed) \/ (hp' = hp /\ d \in Unused)
<1>1. AppType
  BY DEF SafeInv, Types
<1>2. PICK t \in Apps : d \in mine'[t] \/ d \in open'[t] \/ d = target'[t]
  BY DEF Held
<1>3. UNCHANGED <<mine, open, target>> \/ \E u \in Apps :
        \/ ListWalk(u) \/ FreeList(u) \/ CallArrived(u) \/ Open(u) \/ Opened(u) \/ OpenFailed(u) \/ Wrap(u) \/ Close(u)
        \/ Register(u) \/ Registered(u)
  BY
  DEF Next, HotplugLock, Exiting, App, HandleEvents, Plug, Unplug, Receive, PollMore, PollDone, EventDone, ScanMore,
      ScanDone, Known, Gone, Allocate, EnumerateParent, Connect, Arrived, Disconnect, Left, Unreferenced, Scan,
      HotplugInit, Exit, FreeMessage, MessagesFreed, ReleaseListed, Released, ListPoll, OpenRefused, OpenNoDevice,
      Deregister, PollError, TakeMessages, NextMessage, NextCallback, CallBack, MessageDone, StartSweep, Sweep, Swept,
      Finished
<1>4. CASE UNCHANGED <<mine, open, target>>
  BY <1>2, <1>4 DEF Held
<1>5. ASSUME NEW u \in Apps, ListWalk(u) PROVE d \in Range(listed) \/ Held(d)
  BY <1>1, <1>2, <1>5 DEF ListWalk, Held, AppType
<1>6. ASSUME NEW u \in Apps, FreeList(u) \/ CallArrived(u) PROVE Held(d)
  <2>1. (mine' = mine \/ \E e \in mine[u] : mine' = [mine EXCEPT ![u] = @ \ {e}]) /\ open' = open /\ target' = target
    BY <1>6 DEF FreeList, CallArrived
  <2> QED
    BY <1>1, <1>2, <2>1 DEF Held, AppType
<1>7. ASSUME NEW u \in Apps, Open(u) PROVE Held(d)
  <2>1. (\E e \in mine[u] : target' = [target EXCEPT ![u] = e]) /\ open' = open /\ mine' = mine
    BY <1>7 DEF Open
  <2> QED
    BY <1>1, <1>2, <2>1 DEF Held, AppType
<1>8. ASSUME NEW u \in Apps, Opened(u) PROVE Held(d)
  <2>1. /\ open' = open \/ open' = [open EXCEPT ![u] = @ \cup {target[u]}]
        /\ target' = target \/ target' = [target EXCEPT ![u] = NoDev]
        /\ mine' = mine
    BY <1>8 DEF Opened
  <2> QED
    BY <1>1, <1>2, <2>1 DEF Held, AppType, Distinct
<1>9. ASSUME NEW u \in Apps, OpenFailed(u) \/ Registered(u) PROVE Held(d)
  <2>1. target' = [target EXCEPT ![u] = NoDev] /\ open' = open /\ mine' = mine
    BY <1>9 DEF OpenFailed, Registered
  <2> QED
    BY <1>1, <1>2, <2>1 DEF Held, AppType, Distinct
<1>10. ASSUME NEW u \in Apps, Register(u) PROVE Held(d)
  <2>1. (target' = target \/ \E c \in Cbs : target' = [target EXCEPT ![u] = c]) /\ open' = open /\ mine' = mine
    BY <1>10 DEF Register, MayRegister
  <2> QED
    BY <1>1, <1>2, <2>1 DEF Held, AppType, Distinct
<1>11. ASSUME NEW u \in Apps, Wrap(u) PROVE Held(d) \/ (hp' = hp /\ d \in Unused)
  <2>1. (open' = open \/ \E x \in Unused : open' = [open EXCEPT ![u] = @ \cup {x}]) /\ mine' = mine /\ target' = target
        /\ hp' = hp
    BY <1>11 DEF Wrap, MayAllocate
  <2> QED
    BY <1>1, <1>2, <2>1 DEF Held, AppType
<1>12. ASSUME NEW u \in Apps, Close(u) PROVE Held(d)
  <2>1. (open' = open \/ \E e \in open[u] : open' = [open EXCEPT ![u] = @ \ {e}]) /\ mine' = mine /\ target' = target
    BY <1>12 DEF Close
  <2> QED
    BY <1>1, <1>2, <2>1 DEF Held, AppType
<1> QED
  BY <1>3, <1>4, <1>5, <1>6, <1>7, <1>8, <1>9, <1>10, <1>11, <1>12

\* A device comes under way when it is allocated.
LEMMA WayStep ==
  ASSUME Distinct, SafeInv, SafeInv', [Next]_vars, NEW d \in Devs, Way(d)'
  PROVE  Way(d) \/ (hp' # hp /\ d \in Unused /\ (Allocate \/ EnumerateParent))
<1>1. HpType /\ HpInv /\ HpInv'
  BY DEF SafeInv, Types
<1>2. d # NoDev
  BY DEF Distinct
<1>3. d = hp'.child \/ (hp'.step = "connect" /\ d = hp'.new)
  BY DEF Way
<1>4. CASE hp' = hp
  BY <1>4 DEF Way
<1>5. CASE hp'.new = NoDev /\ hp'.child = NoDev
  BY <1>2, <1>3, <1>5
<1>6. CASE Allocate
  <2>1. /\ hp.step = "enumerate" /\ NextNew \in Unused /\ hp.child = NoDev /\ hp.new = NoDev
    BY <1>1, <1>6 DEF Allocate, MayAllocate, HpInv, NextNew
  <2>2. \/ hp'.step = "parent" /\ hp'.child = NextNew /\ hp'.new = hp.new
        \/ hp'.step = "connect" /\ hp'.new = NextNew /\ hp'.child = hp.child
    BY <1>1, <1>6 DEF Allocate, NextNew, HpType
  <2> QED
    BY <1>2, <1>3, <1>6, <2>1, <2>2
<1>7. CASE EnumerateParent
  <2>1. hp.step = "parent" /\ hp.new = NoDev
    BY <1>1, <1>7 DEF EnumerateParent, HpInv
  <2>2. \/ hp'.step = "connect" /\ hp'.new = NextNew /\ NextNew \in Unused /\ hp'.child = hp.child
        \/ hp'.step = "connect" /\ hp'.new = hp.child /\ hp'.child = NoDev
    BY <1>1, <1>7 DEF EnumerateParent, MayAllocate, NextNew, HpType
  <2> QED
    BY <1>2, <1>3, <1>7, <2>1, <2>2 DEF Way
<1>8. CASE Connect
  BY <1>1, <1>3, <1>8 DEF Connect, HpType, Way
<1>9. CASE Arrived
  <2>1. \/ hp'.step = "next" /\ hp'.child = hp.child
        \/ hp'.new = hp.child /\ hp'.child = NoDev
    BY <1>1, <1>9 DEF Arrived, HpType
  <2> QED
    BY <1>2, <1>3, <2>1 DEF Way
<1>10. CASE Disconnect \/ Left \/ Unreferenced
  <2>1. hp'.step \in {"next", "left", "unref"}
    BY <1>1, <1>10 DEF Disconnect, Left, Unreferenced, HpType
  <2> QED
    BY <1>1, <1>2, <1>3, <2>1 DEF HpInv
<1> QED
  BY <1>4, <1>5, <1>6, <1>7, <1>8, <1>9, <1>10, LockStep

LEMMA HeldWasNext ==
  ASSUME Finite, Distinct, SafeInv, SafeInv', HeldWas, Active', [Next]_vars
  PROVE  HeldWas'
<1>1. HpInv /\ PhaseInv
  BY DEF SafeInv
<1>2. phase \notin {"devices", "end"}
  BY <1>1, ActiveBack DEF Exits
<1>3. ASSUME NEW d \in Devs, Held(d)', Way(d)' PROVE FALSE
  <2>1. Held(d) \/ d \in Range(listed) \/ (hp' = hp /\ d \in Unused)
    BY <1>3, HeldStep
  <2>2. Way(d) \/ (hp' # hp /\ d \in Unused)
    BY <1>3, WayStep
  <2>3. Held(d) => d \notin Unused
    BY HeldIsAlive DEF Held
  <2>4. d \in Range(listed) => d \notin Unused
    BY <1>2, WayIsAlive
  <2>5. Way(d) => d \notin Unused /\ d \notin Range(listed) /\ ~Held(d)
    <3>1. Way(d) => d \notin Unused
      BY WayIsAlive DEF Way
    <3>2. Way(d) => d \notin Range(listed)
      BY <1>1 DEF Way, HpInv, Distinct
    <3> QED
      BY <3>1, <3>2 DEF HeldWas
  <2> QED
    BY <2>1, <2>2, <2>3, <2>4, <2>5
<1> QED
  BY <1>3 DEF HeldWas

\* What was lost before, or is lost with the device of an id.
LEMMA LostStep ==
  ASSUME SafeInv, [Next]_vars, NEW t \in Apps, NEW d \in Devs, <<t, d>> \in lost'
  PROVE  \/ /\ d \in open[t] /\ open' = open /\ dev' = dev
            /\ \E x \in Ids : Unplug(x) /\ dev[d].id = x
         \/ <<t, d>> \in lost /\ (d \in open[t] => d \in open'[t])
<1>1. AppType
  BY DEF SafeInv, Types
<1>2. ASSUME NEW x \in Ids, Unplug(x)
      PROVE  <<t, d>> \in lost \/ (d \in open[t] /\ dev[d].id = x)
  BY <1>2 DEF Unplug
<1>3. ASSUME NEW x \in Ids, Unplug(x) PROVE open' = open /\ dev' = dev
  BY <1>3 DEF Unplug
<1>4. ASSUME NEW u \in Apps, Close(u) PROVE <<t, d>> \in lost /\ (d \in open[t] => d \in open'[t])
  <2>1. \/ lost' = lost /\ open' = open
        \/ \E e \in open[u] : lost' = lost \ {<<u, e>>} /\ open' = [open EXCEPT ![u] = @ \ {e}]
    BY <1>4 DEF Close
  <2> QED
    BY <1>1, <2>1 DEF AppType
<1>5. ASSUME PollError PROVE <<t, d>> \in lost /\ open' = open
  BY <1>5 DEF PollError
<1>6. ASSUME NEW u \in Apps, Wrap(u) \/ Opened(u) PROVE lost' = lost /\ (d \in open[t] => d \in open'[t])
  BY <1>1, <1>6 DEF Wrap, Opened, AppType
<1>7. \/ \E x \in Ids : Unplug(x)
      \/ \E u \in Apps : Close(u) \/ Wrap(u) \/ Opened(u)
      \/ PollError
      \/ lost' = lost /\ open' = open
  BY ZenonT(60)
  DEF Next, HotplugLock, Exiting, App, HandleEvents, Plug, Receive, PollMore, PollDone, EventDone, ScanMore, ScanDone,
      Known, Gone, Allocate, EnumerateParent, Connect, Arrived, Disconnect, Left, Unreferenced, Scan, HotplugInit,
      Exit, FreeMessage, MessagesFreed, ReleaseListed, Released, ListPoll, ListWalk, FreeList, OpenRefused, Open,
      OpenNoDevice, OpenFailed, Register, CallArrived, Registered, Deregister, TakeMessages, NextMessage,
      NextCallback, CallBack, MessageDone, StartSweep, Sweep, Swept, Finished
<1> QED
  BY <1>2, <1>3, <1>4, <1>5, <1>6, <1>7

LEMMA LostGoNext ==
  ASSUME Finite, Topology, Distinct, SafeInv, SafeInv', NoWraps, LostGo, HeldWas, Begun, Active', [Next]_vars
  PROVE  LostGo'
<1>1. BusType /\ ListInv' /\ Families /\ MsgType' /\ EvType' /\ HpInv /\ ListType'
  BY DEF SafeInv, Types
<1>2. ASSUME NEW t \in Apps, NEW d \in Devs, <<t, d>> \in lost'
      PROVE  /\ d \in open'[t]
             /\ dev'[d].attached => \E i \in Ids : i = dev'[d].id /\ (Removing(i)' \/ Disconnecting(i)')
  <2>1. CASE d \in open[t] /\ open' = open /\ dev' = dev /\ \E x \in Ids : Unplug(x) /\ dev[d].id = x
    <3>1. PICK x \in Ids : Unplug(x) /\ dev[d].id = x
      BY <2>1
    <3>2. Removal(x) \in EventType /\ queue' = Append(queue, Removal(x))
      BY <3>1 DEF Unplug, EventType, Removal
    <3>3. Removing(x)'
      BY <1>1, <3>2, AddedPending
    <3>4. dev'[d].id = x
      BY <2>1, <3>1
    <3> QED
      BY <2>1, <3>3, <3>4
  <2>2. CASE <<t, d>> \in lost /\ (d \in open[t] => d \in open'[t])
    <3>1. /\ d \in open[t] /\ d \in open'[t]
          /\ dev[d].attached => Removing(dev[d].id) \/ Disconnecting(dev[d].id)
      BY <2>2 DEF LostGo
    <3>2. d \notin Unused /\ Held(d)
      BY <3>1, HeldIsAlive DEF Held
    <3>3. dev'[d].id = dev[d].id /\ dev'[d].wrapped = dev[d].wrapped
          /\ (~Connect /\ ~Disconnect => dev'[d].attached = dev[d].attached)
      BY <1>1, <3>2, Steady
    <3>4. dev'[d].attached => dev[d].attached
      <4>1. CASE Connect
        <5>1. SetAttached(hp.new, TRUE)
          BY <1>1, <4>1, ConnectCounts
        <5>2. d # hp.new
          BY <3>2, <4>1 DEF HeldWas, Way, Connect
        <5> QED
          BY <5>1, <5>2 DEF SetAttached
      <4>2. CASE Disconnect
        BY <1>1, <4>2, DisconnectCounts DEF SetAttached
      <4> QED
        BY <3>3, <4>1, <4>2
    <3>5. dev[d].id \in Ids /\ ~dev'[d].wrapped
      <4>1. dev[d].state # "unused"
        BY <3>2 DEF Unused
      <4>2. dev[d].id \in Ids
        BY <1>1, <4>1 DEF Families
      <4>3. ~dev[d].wrapped
        BY <3>2 DEF NoWraps
      <4> QED
        BY <3>3, <4>2, <4>3
    <3>6. PICK i \in Ids : i = dev[d].id
      BY <3>5
    <3>7. ASSUME dev'[d].attached PROVE InList(i)'
      <4>1. phase' \notin {"devices", "end"}
        BY DEF Active
      <4>2. d \in Range(listed')
        BY <1>1, <3>5, <3>7, <4>1 DEF ListInv
      <4> QED
        BY <3>3, <3>6, <4>2 DEF InList
    <3>8. ASSUME dev'[d].attached PROVE Removing(i)' \/ Disconnecting(i)'
      <4>1. Removing(i) \/ Disconnecting(i)
        BY <3>1, <3>4, <3>6, <3>8
      <4>2. CASE BusMoves \/ Still
        BY <4>1, <4>2, EventsOf DEF BusMoves, Still, AsBefore, SameWay
      <4>3. CASE Takes
        BY <4>1, <4>3, EventsOf DEF Takes, Rest
      <4>4. CASE Scans \/ Looks \/ Begins
        BY <4>1, <4>4, EventsOf DEF Scans, Looks, Begins, Rest
      <4>5. CASE Onward
        BY <4>1, <4>5, EventsOf DEF Onward
      <4>6. CASE Drops
        BY <3>7, <3>8, <4>1, <4>6, EventsOf DEF Drops
      <4> QED
        BY <4>2, <4>3, <4>4, <4>5, <4>6, View
    <3>9. dev'[d].id = i
      BY <3>3, <3>6
    <3> QED
      BY <3>1, <3>8, <3>9
  <2> QED
    BY <1>2, <2>1, <2>2, LostStep
<1>3. ASSUME NEW t \in Apps, NEW d \in Devs, <<t, d>> \in lost', dev'[d].attached
      PROVE  Removing(dev[d].id)' \/ Disconnecting(dev[d].id)'
  <2>1. PICK i \in Ids : i = dev'[d].id /\ (Removing(i)' \/ Disconnecting(i)')
    BY <1>2, <1>3
  <2> QED
    BY <2>1 DEF Removing, Disconnecting, Removal
<1> QED
  BY <1>2, <1>3 DEF LostGo

\* A removal that was pending is pending still, or somebody is at it.
LEMMA RemovingStays ==
  ASSUME Finite, Topology, Distinct, SafeInv, SafeInv', Begun, Active', [Next]_vars, NEW i \in Ids
  PROVE  /\ Removing(i) => Removing(i)' \/ (Takes /\ Disconnecting(i)')
         /\ Disconnecting(i) => Disconnecting(i)' \/ ~InList(i)'
<1>1. ASSUME Removing(i) PROVE Removing(i)' \/ (Takes /\ Disconnecting(i)')
  <2>1. CASE Takes
    BY <1>1, <2>1, EventsOf DEF Takes
  <2>2. CASE BusMoves \/ SameQueue
    BY <1>1, <2>2, EventsOf
  <2> QED
    BY <2>1, <2>2, Steps3
<1>2. ASSUME Disconnecting(i) PROVE Disconnecting(i)' \/ ~InList(i)'
  <2>1. CASE BusMoves \/ Still
    BY <1>2, <2>1 DEF BusMoves, Still, AsBefore, SameWay
  <2>2. CASE Drops
    BY <1>2, <2>2 DEF Drops
  <2> QED
    BY <1>2, <2>1, <2>2, View DEF Takes, Scans, Looks, Onward, Begins, Rest
<1> QED
  BY <1>1, <1>2

\* The hub of what is connected next.
LEMMA NextHub ==
  ASSUME Finite, Topology, Distinct, SafeInv, SafeInv', LastTells, Hubs, NoGhosts, Begun, HubIsListed, Active', [Next]_vars,
         hp'.step = "connect", NEW i \in Ids, dev'[hp'.new].id = i, Parent[i] \in Ids
  PROVE  dev'[hp'.new].parent \in Range(listed') \/ Removing(i)'
<1>1. /\ BusType /\ HpType /\ HpInv /\ HpInv' /\ MsgType' /\ EvType' /\ Families /\ ListType
  BY DEF SafeInv, Types
<1>2. \A d : d \in Range(listed) /\ ~Disconnect => d \in Range(listed')
  BY ListView
<1>3. CASE hp' = hp
  <2>1. hp.step = "connect" /\ ~Connect /\ ~Disconnect /\ ~Arrived
    BY <1>1, <1>3 DEF Connect, Disconnect, Arrived, HpType, HpInv
  <2>2. hp.new \in Devs /\ hp.new \notin Unused
    BY <1>1, <2>1, WayIsAlive DEF HpInv
  <2>3. dev'[hp.new].id = dev[hp.new].id /\ dev'[hp.new].parent = dev[hp.new].parent
    BY <1>1, <2>1, <2>2, Steady
  <2>4. dev[hp.new].parent \in Range(listed) \/ Removing(i)
    BY <1>3, <2>1, <2>3 DEF HubIsListed
  <2>5. ~Takes
    <3>1. Made(i)
      BY <1>3, <2>1, <2>3 DEF Made
    <3> QED
      BY <3>1 DEF Takes, Rest
  <2> QED
    BY <1>2, <1>3, <2>1, <2>3, <2>4, <2>5, RemovingStays
<1>4. CASE Allocate
  <2>1. IsNew(NextNew, hp.id, HubOf(hp.id), FALSE)
    BY <1>1, <1>4, AllocateCounts DEF NextNew, HubOf
  <2>2. hp'.new = NextNew /\ (HubOf(hp.id) # NoDev \/ Parent[hp.id] = NoId)
    BY <1>1, <1>4 DEF Allocate, NextNew, HubOf, HpType
  <2>3. hp.id = i /\ dev'[hp'.new].parent = HubOf(hp.id)
    BY <2>1, <2>2 DEF IsNew
  <2>4. HubOf(i) = ListedAs(Parent[i]) /\ HubOf(i) # NoDev
    BY <2>2, <2>3 DEF HubOf, Distinct
  <2>5. HubOf(i) \in Range(listed) /\ listed' = listed
    BY <1>1, <1>4, <2>4, ListedAsIs DEF Allocate
  <2> QED
    BY <2>3, <2>5
<1>5. CASE EnumerateParent
  <2>1. hp.step = "parent" /\ hp.child \in Devs /\ hp.child # NoDev /\ hp.id \in Ids /\ dev[hp.child].id = hp.id
        /\ Parent[hp.id] \in Ids
    BY <1>1, <1>5 DEF EnumerateParent, HpInv, HpType, Pointers
  <2>2. CASE Parent[hp.id] \in plugged
    <3>1. IsNew(NextNew, Parent[hp.id], NoDev, FALSE)
      BY <1>1, <1>5, <2>2, EnumerateParentCounts DEF NextNew
    <3>2. hp'.new = NextNew
      BY <1>1, <1>5, <2>2 DEF EnumerateParent, NextNew, HpType
    <3>3. i = Parent[hp.id]
      BY <3>1, <3>2 DEF IsNew
    <3> QED
      BY <2>1, <3>3 DEF Topology, Distinct
  <2>3. CASE Parent[hp.id] \notin plugged
    <3>1. hp'.new = hp.child /\ dev' = dev /\ SameQueue
      BY <1>1, <1>5, <2>3 DEF EnumerateParent, HpType, SameQueue
    <3>2. i = hp.id /\ Made(i) /\ ~Disconnecting(i)
      BY <2>1, <3>1 DEF Made, Disconnecting
    <3>3. i \notin plugged
      BY <2>1, <2>3, <3>2 DEF Hubs, Distinct
    <3>4. Pending(i)
      BY <3>2, <3>3 DEF NoGhosts
    <3>5. Removing(i)
      BY <1>1, <3>3, <3>4, LastRemoves DEF Removing
    <3> QED
      BY <3>1, <3>5, EventsOf
  <2> QED
    BY <2>2, <2>3
<1>6. CASE Arrived
  <2>1. hp.child # NoDev /\ hp'.new = hp.child /\ hp.child \in Devs
    BY <1>1, <1>6 DEF Arrived, HpType, Pointers
  <2>2. Adopts
    BY <1>1, <1>6, <2>1, ArrivedCounts
  <2>3. dev'[hp'.new].parent = hp.new
    BY <2>1, <2>2 DEF Adopts
  <2>4. hp.new \in Range(listed) /\ listed' = listed
    BY <1>1, <1>6 DEF Arrived, HpInv
  <2> QED
    BY <2>3, <2>4
<1>7. CASE Connect \/ Disconnect \/ Left \/ Unreferenced
  BY <1>1, <1>7 DEF Connect, Disconnect, Left, Unreferenced, HpType
<1> QED
  BY <1>3, <1>4, <1>5, <1>6, <1>7, LockStep

LEMMA NextIdIs ==
  ASSUME Finite, Topology, Distinct, SafeInv, SafeInv', [Next]_vars, hp'.step = "connect"
  PROVE  dev'[hp'.new].id \in Ids
<1>1. HpType /\ HpInv /\ HpInv' /\ MsgType' /\ EvType' /\ Families
  BY DEF SafeInv, Types
<1>2. ASSUME NEW d \in Devs, Way(d) PROVE dev'[d].id \in Ids
  <2>1. d \notin Unused
    BY <1>2, WayIsAlive DEF Way
  <2>2. dev'[d].id = dev[d].id
    BY <1>1, <2>1, Steady
  <2> QED
    BY <1>1, <2>1, <2>2 DEF Families, Unused
<1>3. hp'.new \in Devs
  BY <1>1 DEF HpInv
<1>4. CASE Allocate
  <2>1. IsNew(NextNew, hp.id, HubOf(hp.id), FALSE)
    BY <1>1, <1>4, AllocateCounts DEF NextNew, HubOf
  <2>2. hp'.new = NextNew /\ hp.id \in Ids
    BY <1>1, <1>4 DEF Allocate, NextNew, HpType, HpInv
  <2> QED
    BY <2>1, <2>2 DEF IsNew
<1>5. CASE EnumerateParent
  <2>1. hp.child # NoDev /\ Parent[hp.id] \in Ids
    BY <1>1, <1>5 DEF EnumerateParent, HpInv
  <2>2. CASE Parent[hp.id] \in plugged
    <3>1. IsNew(NextNew, Parent[hp.id], NoDev, FALSE)
      BY <1>1, <1>5, <2>2, EnumerateParentCounts DEF NextNew
    <3>2. hp'.new = NextNew
      BY <1>1, <1>5, <2>2 DEF EnumerateParent, NextNew, HpType
    <3> QED
      BY <2>1, <3>1, <3>2 DEF IsNew
  <2>3. CASE Parent[hp.id] \notin plugged
    <3>1. hp'.new = hp.child
      BY <1>1, <1>5, <2>3 DEF EnumerateParent, HpType
    <3> QED
      BY <1>2, <1>3, <3>1 DEF Way
  <2> QED
    BY <2>2, <2>3
<1>6. CASE ~Allocate /\ ~EnumerateParent
  <2>1. PICK d \in Devs : d = hp'.new
    BY <1>3
  <2>2. Way(d)'
    BY <2>1 DEF Way
  <2>3. Way(d)
    BY <1>6, <2>2, WayStep
  <2> QED
    BY <1>2, <2>1, <2>3
<1> QED
  BY <1>4, <1>5, <1>6

LEMMA HubIsListedNext ==
  ASSUME Finite, Topology, Distinct, SafeInv, SafeInv', LastTells, Hubs, NoGhosts, Begun, HubGoes, HubIsListed,
         Active', [Next]_vars
  PROVE  HubIsListed'
<1>1. /\ HpType /\ HpInv /\ HpInv' /\ MsgType' /\ EvType' /\ Families /\ ListType /\ Families' /\ ListInv
      /\ HpType'
  BY DEF SafeInv, Types
<1>2. ASSUME NEW d \in Range(listed'), NEW i \in Ids, dev'[d].id = i, Parent[i] \in Ids
      PROVE  dev'[d].parent \in Range(listed') \/ Removing(i)' \/ Disconnecting(i)'
  <2>1. InList(i)'
    BY <1>2 DEF InList
  <2>2. CASE d \in Range(listed)
    <3>1. d \in Devs /\ d \notin Unused /\ dev[d].id = i
      BY <1>2, <2>2, ListView
    <3>2. d # hp.child
      BY <1>1, <2>2, <3>1 DEF HpInv, Distinct
    <3>3. dev'[d].parent = dev[d].parent
      BY <1>1, <3>1, <3>2, Steady
    <3>4. dev[d].parent \in Range(listed) \/ Removing(i) \/ Disconnecting(i)
      BY <1>2, <2>2, <3>1 DEF HubIsListed
    <3>5. Removing(i) \/ Disconnecting(i) => Removing(i)' \/ Disconnecting(i)'
      BY <2>1, RemovingStays
    <3>6. ASSUME dev[d].parent \in Range(listed), dev[d].parent \notin Range(listed') PROVE Removing(i)
      <4>1. Disconnect /\ dev[d].parent = ListedAs(hp.id) /\ dev[d].parent \in Devs
        BY <3>6, ListView
      <4>2. dev[dev[d].parent].id = Parent[i]
        BY <3>1, <4>1 , <1>1 DEF Families, Distinct
      <4>3. dev[dev[d].parent].id = hp.id
        BY <1>1, <4>1, ListedAsIs DEF Distinct
      <4>4. Disconnecting(Parent[i]) /\ InList(i)
        BY <2>2, <3>1, <4>1, <4>2, <4>3 DEF Disconnecting, Disconnect, InList
      <4> QED
        BY <4>4 DEF HubGoes
    <3> QED
      BY <3>3, <3>4, <3>5, <3>6
  <2>3. CASE d \notin Range(listed)
    <3>1. Connect /\ d = hp.new
      BY <1>2, <2>3, ListView
    <3>2. hp.step = "connect" /\ ~Arrived /\ SameQueue
      BY <3>1 DEF Connect, Arrived, SameQueue
    <3>3. d \in Devs /\ d \notin Unused
      BY <1>1, <3>1, <3>2, WayIsAlive DEF HpInv
    <3>4. dev[d].id = i /\ dev'[d].parent = dev[d].parent
      BY <1>1, <1>2, <3>2, <3>3, Steady
    <3>5. dev[d].parent \in Range(listed) \/ Removing(i)
      BY <1>2, <3>1, <3>2, <3>4 DEF HubIsListed
    <3>6. dev[d].parent \in Range(listed) => dev[d].parent \in Range(listed')
      BY <3>1, ListView
    <3> QED
      BY <3>2, <3>4, <3>5, <3>6, EventsOf
  <2> QED
    BY <2>2, <2>3
<1>3. \A d \in Range(listed') : dev'[d].id \in Ids
  <2>1. ASSUME NEW d \in Range(listed') PROVE dev'[d].id \in Ids
    <3>1. d \in Range(listed) \/ (Connect /\ d = hp.new)
      BY ListView
    <3>2. d \in Devs /\ d \notin Unused
      <4>1. CASE d \in Range(listed)
        BY <4>1, ListView
      <4>2. CASE Connect /\ d = hp.new
        BY <1>1, <4>2, WayIsAlive DEF HpInv, Connect
      <4> QED
        BY <3>1, <4>1, <4>2
    <3>3. dev'[d].id = dev[d].id
      BY <1>1, <3>2, Steady
    <3> QED
      BY <1>1, <3>2, <3>3 DEF Families, Unused
  <2> QED
    BY <2>1
<1>4. ASSUME NEW d \in Range(listed'), Parent[dev'[d].id] \in Ids
      PROVE  dev'[d].parent \in Range(listed') \/ Removing(dev[d].id)' \/ Disconnecting(dev[d].id)'
  <2>1. PICK i \in Ids : i = dev'[d].id
    BY <1>3
  <2>2. dev'[d].parent \in Range(listed') \/ Removing(i)' \/ Disconnecting(i)'
    BY <1>2, <1>4, <2>1
  <2> QED
    BY <2>1, <2>2 DEF Removing, Disconnecting, Removal
<1>5. ASSUME hp'.step = "connect", Parent[dev'[hp'.new].id] \in Ids
      PROVE  dev'[hp'.new].parent \in Range(listed') \/ Removing(dev[hp.new].id)'
  <2>1. PICK i \in Ids : i = dev'[hp'.new].id
    BY <1>5, NextIdIs
  <2>2. dev'[hp'.new].parent \in Range(listed') \/ Removing(i)'
    BY <1>5, <2>1, NextHub
  <2> QED
    BY <2>1, <2>2 DEF Removing, Removal
<1> QED
  BY <1>4, <1>5 DEF HubIsListed

LEMMA WrapsBack ==
  ASSUME Finite, Topology, Distinct, SafeInv, SafeInv', [Next]_vars, NoWraps'
  PROVE  NoWraps
<1>1. MsgType' /\ EvType'
  BY DEF SafeInv, Types
<1>2. DevStep
  BY <1>1, CountsNext
<1>3. ASSUME NEW d \in Devs, dev[d].wrapped, d \notin Unused PROVE FALSE
  <2>1. dev'[d].wrapped
    BY <1>1, <1>3, Steady
  <2>2. dev'[d].state # "unused"
    BY <1>2, <1>3 DEF DevStep, SameButRef, SetAttached, IsNew, Adopts, Unused
  <2> QED
    BY <2>1, <2>2 DEF NoWraps, Unused
<1> QED
  BY <1>3 DEF NoWraps

LEMMA BusInit ==
  ASSUME Finite, Topology, Distinct, Init
  PROVE  BusInv
<1>1. queue = <<>> /\ listed = <<>> /\ hp = Idle /\ lost = {} /\ phase = "init"
  BY DEF Init
<1>2. \A t \in Apps : mine[t] = {} /\ open[t] = {} /\ target[t] = NoDev
  BY DEF Init
<1>3. \A i \in plugged : Parent[i] \in plugged \cup {NoId}
  BY DEF Init
<1>4. Range(listed) = {} /\ DOMAIN queue = {}
  BY <1>1 DEF Range
<1>5. hp.owner = NoOne /\ hp.step = "idle" /\ hp.todo = {} /\ hp.child = NoDev
  BY <1>1 DEF Idle
<1>6. \A i \in Ids : ~Pending(i) /\ ~InList(i) /\ ~Made(i) /\ ~Enumerating(i) /\ ~Disconnecting(i)
  BY <1>4, <1>5 DEF Pending, InList, Made, Enumerating, Disconnecting
<1>7. LastTells /\ Hubs
  BY <1>3, <1>4 DEF LastTells, Hubs
<1>8. NoGhosts /\ NoneMissed /\ Begun
  BY <1>1, <1>5, <1>6 DEF NoGhosts, NoneMissed, Begun
<1>9. HubsLast /\ HubGoes
  BY <1>4, <1>6 DEF HubsLast, HubGoes
<1>10. HeldWas
  BY <1>2, <1>5 DEF HeldWas, Held, Way, Distinct
<1>11. LostGo /\ HubIsListed
  BY <1>1, <1>4, <1>5 DEF LostGo, HubIsListed
<1> QED
  BY <1>7, <1>8, <1>9, <1>10, <1>11 DEF BusInv, Follows

LEMMA BusNext ==
  ASSUME Finite, Topology, Distinct, SafeInv, SafeInv', BusInv, [Next]_vars
  PROVE  BusInv'
<1> SUFFICES ASSUME NoWraps', Active' PROVE Follows'
  BY DEF BusInv
<1>1. Active /\ NoWraps
  BY ActiveBack, WrapsBack DEF SafeInv
<1>2. Follows
  BY <1>1 DEF BusInv
<1> QED
  BY <1>1, <1>2, LastTellsNext, HubsNext, NoGhostsNext, NoneMissedNext, BegunNext, HubsLastNext, HubGoesNext, HeldWasNext,
     LostGoNext, HubIsListedNext DEF Follows

\* With nothing to come and nothing under way, the list is the bus.
LEMMA CaughtUp ==
  ASSUME Finite, Topology, Distinct, SafeInv, BusInv, phase = "ready", queue = <<>>, hp.owner = NoOne,
         \A d \in Devs : ~dev[d].wrapped
  PROVE  /\ {dev[d].id : d \in Range(listed)} = plugged
         /\ \A d \in Range(listed) : Parent[dev[d].id] # NoId => dev[d].parent = ListedAs(Parent[dev[d].id])
<1>1. HpInv /\ ListInv /\ ListType /\ Families /\ BusType
  BY DEF SafeInv, Types
<1>2. NoGhosts /\ NoneMissed /\ HubIsListed
  BY DEF BusInv, NoWraps, Active, Follows
<1>3. hp.todo = {} /\ Rest
  BY <1>1, RestIs DEF HpInv, Idle
<1>4. \A i \in Ids : ~Pending(i) /\ ~Removing(i)
  BY DEF Pending, Removing
<1>5. ASSUME NEW d \in Range(listed) PROVE d \in Devs /\ d \notin Unused /\ dev[d].id \in Ids
  <2>1. d \in Devs /\ d \notin Unused
    BY WayIsAlive
  <2> QED
    BY <1>1, <2>1 DEF Families, Unused
<1>6. \A i \in Ids : i \in plugged <=> InList(i)
  BY <1>2, <1>3, <1>4 DEF NoGhosts, NoneMissed, Rest
<1>7. {dev[d].id : d \in Range(listed)} = plugged
  BY <1>1, <1>5, <1>6 DEF InList, BusType
<1>8. ASSUME NEW d \in Range(listed), Parent[dev[d].id] # NoId PROVE dev[d].parent = ListedAs(Parent[dev[d].id])
  <2>1. d \in Devs /\ d \notin Unused /\ dev[d].id \in Ids
    BY <1>5
  <2>2. Parent[dev[d].id] \in Ids
    BY <1>8, <2>1 DEF Topology
  <2>3. dev[d].parent \in Range(listed)
    BY <1>2, <1>3, <1>4, <2>1, <2>2 DEF HubIsListed, Rest
  <2>4. dev[d].parent \in Devs
    BY <1>5, <2>3
  <2>5. dev[dev[d].parent].id = Parent[dev[d].id]
    BY <1>1, <2>1, <2>4 DEF Families, Distinct
  <2> DEFINE x == ListedAs(Parent[dev[d].id])
  <2>6. x \in Range(listed) /\ dev[x].id = Parent[dev[d].id]
    BY <1>1, <2>3, <2>5, ListedAsIs
  <2> HIDE DEF x
  <2>7. dev[d].parent = x
    BY <1>1, <2>3, <2>5, <2>6 DEF ListInv
  <2> QED
    BY <2>7 DEF x
<1> QED
  BY <1>7, <1>8

\* When udev has nothing more to say and nobody is inside linux_hotplug_lock, the
\* list is what is plugged in, and every device that is not at the root has the listed
\* hub as its parent: whatever was plugged and unplugged while the first scan, the
\* monitor, a poll of libusb_get_device_list or an early disconnect of libusb_open was
\* at work (linux_udev.c, linux_usbfs.c and hotplug.c).
THEOREM ListFollowsBus ==
  ASSUME StableStart
  PROVE  Spec => []ListCatchesUp
<1>1. Init => BusInv
  BY Finite, Topology, Distinct, BusInit
<1>2. SafeInv /\ SafeInv' /\ BusInv /\ [Next]_vars => BusInv'
  BY Finite, Topology, Distinct, BusNext
<1>3. SafeInv /\ BusInv /\ ListedOnce => ListCatchesUp
  BY Finite, Topology, Distinct, CaughtUp DEF ListCatchesUp
<1>4. Spec => []SafeInv
  BY Safety
<1>5. Spec => []ListedOnce
  BY NobodyIsListedTwice
<1> QED
  BY <1>1, <1>2, <1>3, <1>4, <1>5, PTL DEF Spec
=============================================================================
