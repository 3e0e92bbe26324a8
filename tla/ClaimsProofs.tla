----------------------------- MODULE ClaimsProofs ----------------------------
(***************************************************************************)
(* Proofs about who has an interface: within libusb, what the handles of   *)
(* one device believe to have claimed, for any number of handles, threads  *)
(* and interfaces and any calls beside each other (UsbHandles); and from   *)
(* outside, which process rk_usb's init gives the device to, for any       *)
(* number of processes and devices that come and go (RkScan).              *)
(*                                                                         *)
(* For UsbHandles the inductive invariant is HandlesInv.  Its core is      *)
(* BoundInv, what usbfs has bound is claimed; the other direction,         *)
(* RealInv, needs that no reset fails with anything but ENODEV: usbfs is   *)
(* unbound before the reset, and nobody binds it again after a failure     *)
(* (op_reset_device, src/src/libusb/os/linux_usbfs.c).                     *)
(***************************************************************************)
EXTENDS UsbHandles, Sequences, FiniteSetTheorems, SequenceTheorems, WellFoundedInduction, TLAPS

-----------------------------------------------------------------------------
\* --- the claims of handles

USE DEF threadVars, handleVars, kernelVars, featureVars, history, H, Goto, Return, Unlock

\* The steps, and what a call may return.
Labels == {"idle", "lock", "unbind", "getdriver", "disconnect", "claim", "claim_detach", "release", "attach",
           "reset", "reclaim", "alt", "clear_halt", "streams", "dev_mem", "active", "auto", "set_config", "store",
           "get_config"}

Results == {"none", "OK", "NO_DEVICE", "NOT_FOUND", "BUSY", "INVALID_PARAM", "OTHER", "NOT_SUPPORTED",
            "NO_MEM", "NULL", "0", "1"}

\* Types: what a variable may hold.
ThreadTypes ==
  /\ pc \in [Threads -> Labels] /\ op \in [Threads -> AllCalls \cup {"none"}] /\ at \in [Threads -> Int]
  /\ ret \in [Threads -> Results] /\ todo \in [Threads -> SUBSET Interfaces] /\ began \in [Threads -> BOOLEAN]
HandleTypes ==
  /\ lock \in [Handles -> Threads \cup {NoThread}] /\ claimed \in [Handles -> SUBSET Interfaces]
  /\ auto \in [Handles -> BOOLEAN] /\ lost \in [Handles -> SUBSET Interfaces]
DeviceTypes ==
  /\ driver \in [Interfaces -> Handles \cup {NoDriver, Kernel}] /\ gone \in BOOLEAN /\ attached \in BOOLEAN
  /\ user \in [Threads -> Handles] /\ menu.ops \subseteq AllCalls /\ menu.on \subseteq Interfaces
  /\ newKernel \in BOOLEAN /\ has0 \in BOOLEAN /\ sysfs \in BOOLEAN /\ stalls \in BOOLEAN
  /\ loaded \in SUBSET Interfaces /\ robbed \in BOOLEAN /\ overlap \in BOOLEAN
Types == ThreadTypes /\ HandleTypes /\ DeviceTypes

\* Steps that a call is named for.
Plain == {"release", "alt", "clear_halt", "streams", "dev_mem", "active", "auto", "set_config", "get_config"}
\* Which calls come to each step.
StepInv ==
  \A t \in Threads :
    /\ pc[t] = "lock" => op[t] \in {"claim", "release", "alt", "reset"}
    /\ pc[t] \in {"claim_detach", "claim"} => op[t] \in {"claim", "reset"}
    /\ pc[t] \in {"getdriver", "disconnect"} => op[t] \in {"claim", "reset", "detach"}
    /\ pc[t] = "attach" => op[t] \in {"release", "attach"}
    /\ pc[t] \in {"unbind", "reset", "reclaim"} => op[t] = "reset"
    /\ pc[t] = "store" => op[t] = "set_config"
    /\ pc[t] \in Plain => op[t] = pc[t]
    /\ pc[t] \in {"lock", "claim_detach", "claim", "getdriver", "disconnect", "release", "attach", "alt", "active"}
         => at[t] \in Interfaces \/ op[t] = "reset"

\* What is done under the lock of the handle.
Locked(t) ==
  \/ pc[t] \in {"claim", "claim_detach", "release", "reset", "reclaim"}
  \/ pc[t] \in {"getdriver", "disconnect"} /\ op[t] # "detach"
  \/ pc[t] = "attach" /\ op[t] = "release"
LockInv == \A t \in Threads : Locked(t) => lock[user[t]] = t

\* A reset that claims again, and a release that attaches the driver of the kernel.
Reclaiming(t) == op[t] = "reset" /\ pc[t] \in {"reclaim", "claim_detach", "getdriver", "disconnect", "claim"}
Releasing(t) == op[t] = "release" /\ pc[t] = "attach"
Resetting(t) == op[t] = "reset" /\ pc[t] \in {"unbind", "lock", "reset"}
WorkInv ==
  \A t \in Threads :
    /\ Reclaiming(t) => \A i \in todo[t] : driver[i] # user[t]
    /\ Reclaiming(t) /\ pc[t] # "reclaim" => at[t] \in todo[t] /\ at[t] \in claimed[user[t]]
    /\ Releasing(t) => driver[at[t]] # user[t]

\* What usbfs has bound for a handle is claimed ...
BoundInv == \A h \in Handles, i \in Interfaces : driver[i] = h => i \in claimed[h] \ lost[h]
\* ... and what is claimed is bound, or somebody is about to see to it.
SeenTo(t, i) == Resetting(t) \/ (Reclaiming(t) /\ i \in todo[t]) \/ (Releasing(t) /\ at[t] = i)
RealInv ==
  \A h \in Handles : \A i \in claimed[h] \ lost[h] :
    gone \/ driver[i] = h \/ \E t \in Threads : user[t] = h /\ SeenTo(t, i)

\* What a claim relies on.
ClaimInv == Types /\ StepInv /\ LockInv /\ WorkInv /\ BoundInv

\* The least of some interfaces.
LEMMA Least ==
  ASSUME NEW I \in SUBSET Nat, I # {}
  PROVE  \E x \in I : \A y \in I : x <= y
<1> DEFINE Less == {p \in Nat \X Nat : p[1] < p[2]}
<1>1. IsWellFoundedOn(Less, Nat)
  BY NatLessThanWellFounded, Zenon DEF OpToRel
<1>2. PICK m \in I : \A i \in I : <<i, m>> \notin Less
  <2> HIDE DEF Less
  <2> QED
    BY <1>1, WFMin
<1>3. ASSUME NEW i \in I PROVE m =< i
  <2>1. CASE i < m
    <3>1. <<i, m>> \in Less
      BY <2>1
    <3> QED
      BY <1>2, <3>1
  <2> QED
    BY <2>1
<1> QED
  BY <1>3

\* What the steps of a claim leave alone.
ClaimStep(t) ==
  /\ pc[t] \in {"claim", "claim_detach", "disconnect"}
  /\ UNCHANGED <<op, at, began, auto, gone, user, attached, config, cached, menu, newKernel, has0, sysfs, stalls,
                 loaded, overlap>>
\* An interface is bound for the handle; a claim fails; a driver is unbound; nothing
\* comes of a step.
Bound(t) ==
  /\ ClaimStep(t) /\ pc[t] # "disconnect" /\ ~gone /\ robbed' = robbed
  /\ driver[at[t]] \notin Handles \ {user[t]} /\ config # -1
  /\ driver' = [driver EXCEPT ![at[t]] = user[t]] /\ lost' = [lost EXCEPT ![user[t]] = @ \ {at[t]}]
Refused(t) == ClaimStep(t) /\ driver' = driver /\ lost' = lost /\ robbed' = robbed
Ends(t, r) == op[t] = "claim" /\ Unlock(t) /\ Return(t, r) /\ todo' = todo
NextOne(t) == op[t] = "reset" /\ todo' = [todo EXCEPT ![t] = @ \ {at[t]}] /\ Goto(t, "reclaim") /\ lock' = lock

Claims(t) == Bound(t) /\ Ends(t, "OK") /\ claimed' = [claimed EXCEPT ![user[t]] = @ \cup {at[t]}]
Fails(t) ==
  /\ Refused(t) /\ claimed' = claimed
  /\ \E r \in {"NO_DEVICE", "NOT_FOUND", "INVALID_PARAM", "BUSY"} : Ends(t, r)
Regains(t) == Bound(t) /\ NextOne(t) /\ claimed' = claimed /\ ret' = ret
GivesUp(t) ==
  /\ Refused(t) /\ NextOne(t)
  /\ claimed' = [claimed EXCEPT ![user[t]] = @ \ {at[t]}] /\ ret' = [ret EXCEPT ![t] = "NOT_FOUND"]
Loses(t) ==
  /\ ClaimStep(t) /\ pc[t] = "disconnect" /\ ~gone
  /\ driver' = [driver EXCEPT ![at[t]] = NoDriver]
  /\ lost' = IF driver[at[t]] \in Handles THEN [lost EXCEPT ![driver[at[t]]] = @ \cup {at[t]}] ELSE lost
  /\ robbed' = (robbed \/ (driver[at[t]] \in Handles /\ op[t] # "detach"))
  /\ claimed' = claimed /\ lock' = lock /\ todo' = todo
  /\ IF op[t] = "detach" THEN Return(t, "OK") ELSE Goto(t, "claim") /\ ret' = ret
Passes(t) ==
  /\ ClaimStep(t) /\ driver' = driver /\ lost' = lost /\ robbed' = robbed
  /\ claimed' = claimed /\ lock' = lock /\ todo' = todo
  /\ \/ pc[t] = "disconnect" /\ op[t] = "detach" /\ \E r \in {"NO_DEVICE", "NOT_FOUND"} : Return(t, r)
     \/ pc[t] = "disconnect" /\ op[t] # "detach" /\ Goto(t, "claim") /\ ret' = ret
     \/ pc[t] = "claim_detach" /\ ~newKernel /\ Goto(t, "getdriver") /\ ret' = ret
Answers(t) == Claims(t) \/ Fails(t) \/ Regains(t) \/ GivesUp(t) \/ Loses(t) \/ Passes(t)

\* A claim that succeeds, and one that does not.
LEMMA BoundMoves ==
  ASSUME ClaimInv, NEW t \in Threads, op[t] \in {"claim", "reset"}, Bound(t), ClaimDone(t, "OK")
  PROVE  Answers(t)
<1>1. CASE op[t] = "claim"
  BY <1>1 DEF ClaimInv, Types, HandleTypes, ClaimDone, Claims, Ends, Answers
<1>2. CASE op[t] = "reset"
  <2>1. claimed' = claimed /\ ret' = ret
    BY <1>2 DEF ClaimInv, Types, HandleTypes, ThreadTypes, ClaimDone
  <2> QED
    BY <1>2, <2>1 DEF ClaimDone, Regains, NextOne, Answers
<1> QED
  BY <1>1, <1>2

LEMMA RefusedMoves ==
  ASSUME ClaimInv, NEW t \in Threads, op[t] \in {"claim", "reset"}, Refused(t),
         NEW r \in {"NO_DEVICE", "NOT_FOUND", "INVALID_PARAM", "BUSY"}, ClaimDone(t, r)
  PROVE  Answers(t)
<1>1. CASE op[t] = "claim"
  <2>1. claimed' = claimed
    BY <1>1 DEF ClaimInv, Types, HandleTypes, ClaimDone
  <2> QED
    BY <1>1, <2>1 DEF ClaimDone, Fails, Ends, Answers
<1>2. CASE op[t] = "reset"
  BY <1>2 DEF ClaimDone, GivesUp, NextOne, Answers
<1> QED
  BY <1>1, <1>2

\* What becomes of the ioctls of a claim.
LEMMA ClaimAnswers ==
  ASSUME HandlesAssumption, ClaimInv, NEW t \in Threads, ClaimInterface(t) \/ DisconnectClaim(t) \/ Disconnect(t)
  PROVE  Answers(t)
<1> USE DEF ClaimInv, Types, ThreadTypes, HandleTypes, DeviceTypes, HandlesAssumption
<1>0. ClaimStep(t)
  BY DEF ClaimStep, ClaimInterface, DisconnectClaim, Disconnect
<1>a. pc[t] \in {"claim", "claim_detach"} => op[t] \in {"claim", "reset"}
  BY DEF StepInv
<1>b. pc[t] = "disconnect" /\ op[t] # "detach" => op[t] \in {"claim", "reset"}
  BY DEF StepInv
<1>1. CASE ClaimInterface(t)
  <2> DEFINE r == IF gone THEN "NO_DEVICE" ELSE IF config = -1 THEN "NOT_FOUND"
                  ELSE IF driver[at[t]] \in {NoDriver, H(t)} THEN "OK" ELSE "BUSY"
  <2>0. /\ driver' = IF r = "OK" THEN [driver EXCEPT ![at[t]] = H(t)] ELSE driver
        /\ lost' = IF r = "OK" THEN [lost EXCEPT ![H(t)] = @ \ {at[t]}] ELSE lost
        /\ ClaimDone(t, r) /\ robbed' = robbed /\ pc[t] = "claim"
    BY <1>1 DEF ClaimInterface
  <2>1. CASE ~gone /\ config # -1 /\ driver[at[t]] \in {NoDriver, H(t)}
    <3>1. r = "OK"
      BY <2>1
    <3>2. Bound(t)
      BY <1>0, <2>0, <2>1, <3>1 DEF Bound
    <3> QED
      BY <1>a, <2>0, <3>1, <3>2, BoundMoves
  <2>2. CASE gone \/ config = -1 \/ driver[at[t]] \notin {NoDriver, H(t)}
    <3>1. r \in {"NO_DEVICE", "NOT_FOUND", "BUSY"}
      BY <2>2
    <3> HIDE DEF r
    <3>2. Refused(t)
      BY <1>0, <2>0, <3>1 DEF Refused
    <3> QED
      BY <1>a, <2>0, <3>1, <3>2, RefusedMoves
  <2> QED
    BY <2>1, <2>2
<1>2. CASE DisconnectClaim(t)
  <2> DEFINE r == IF gone THEN "NO_DEVICE" ELSE IF config = -1 THEN "INVALID_PARAM"
                  ELSE IF driver[at[t]] \in Handles THEN "BUSY" ELSE "OK"
  <2>1. CASE newKernel
    <3>0. /\ driver' = IF r = "OK" THEN [driver EXCEPT ![at[t]] = H(t)] ELSE driver
          /\ lost' = IF r = "OK" THEN [lost EXCEPT ![H(t)] = @ \ {at[t]}] ELSE lost
          /\ ClaimDone(t, r) /\ robbed' = robbed /\ pc[t] = "claim_detach"
      BY <1>2, <2>1 DEF DisconnectClaim
    <3>1. CASE ~gone /\ config # -1 /\ driver[at[t]] \notin Handles
      <4>1. r = "OK"
        BY <3>1
      <4>2. Bound(t)
        BY <1>0, <3>0, <3>1, <4>1 DEF Bound
      <4> QED
        BY <1>a, <3>0, <4>1, <4>2, BoundMoves
    <3>2. CASE gone \/ config = -1 \/ driver[at[t]] \in Handles
      <4>1. r \in {"NO_DEVICE", "INVALID_PARAM", "BUSY"}
        BY <3>2
      <4> HIDE DEF r
      <4>2. Refused(t)
        BY <1>0, <3>0, <4>1 DEF Refused
      <4> QED
        BY <1>a, <3>0, <4>1, <4>2, RefusedMoves
    <3> QED
      BY <3>1, <3>2
  <2>2. CASE ~newKernel
    <3>1. Passes(t)
      BY <1>0, <1>2, <2>2 DEF DisconnectClaim, Passes
    <3> QED
      BY <3>1 DEF Answers
  <2> QED
    BY <2>1, <2>2
<1>3. CASE Disconnect(t)
  <2> DEFINE d == driver[at[t]]
             r == IF gone THEN "NO_DEVICE" ELSE IF d = NoDriver THEN "NOT_FOUND" ELSE "OK"
  <2>0. /\ pc[t] = "disconnect"
        /\ driver' = IF r = "OK" THEN [driver EXCEPT ![at[t]] = NoDriver] ELSE driver
        /\ lost' = IF r = "OK" /\ d \in Handles THEN [lost EXCEPT ![d] = @ \cup {at[t]}] ELSE lost
        /\ robbed' = (robbed \/ (r = "OK" /\ d \in Handles /\ op[t] # "detach"))
        /\ op[t] = "detach" => Return(t, r) /\ todo' = todo /\ lock' = lock /\ claimed' = claimed
        /\ op[t] # "detach" /\ r = "NO_DEVICE" => ClaimDone(t, r)
        /\ op[t] # "detach" /\ r # "NO_DEVICE"
             => Goto(t, "claim") /\ ret' = ret /\ todo' = todo /\ lock' = lock /\ claimed' = claimed
    BY <1>3 DEF Disconnect
  <2>1. CASE ~gone /\ d # NoDriver
    <3>1. r = "OK"
      BY <2>1
    <3> HIDE DEF r
    <3>2. Loses(t)
      BY <1>0, <2>0, <2>1, <3>1 DEF Loses
    <3> QED
      BY <3>2 DEF Answers
  <2>2. CASE ~gone /\ d = NoDriver
    <3>1. r = "NOT_FOUND"
      BY <2>2
    <3> HIDE DEF r
    <3>2. Passes(t)
      BY <1>0, <2>0, <3>1 DEF Passes
    <3> QED
      BY <3>2 DEF Answers
  <2>3. CASE gone
    <3>1. r = "NO_DEVICE"
      BY <2>3
    <3> HIDE DEF r
    <3>2. CASE op[t] = "detach"
      <4>1. Passes(t)
        BY <1>0, <2>0, <3>1, <3>2 DEF Passes
      <4> QED
        BY <4>1 DEF Answers
    <3>3. CASE op[t] # "detach"
      <4>1. Refused(t)
        BY <1>0, <2>0, <3>1, <3>3 DEF Refused
      <4> QED
        BY <1>b, <2>0, <3>1, <3>3, <4>1, RefusedMoves
    <3> QED
      BY <3>2, <3>3
  <2> QED
    BY <2>1, <2>2, <2>3
<1> QED
  BY <1>1, <1>2, <1>3

\* The lock is taken, or the call returns.
Locks(t) ==
  /\ pc[t] = "lock" /\ lock[user[t]] = NoThread
  /\ \/ /\ \/ op[t] = "claim" /\ (Goto(t, "claim_detach") \/ Goto(t, "claim"))
           \/ op[t] = "release" /\ Goto(t, "release")
           \/ op[t] = "reset" /\ Goto(t, "reset")
        /\ lock' = [lock EXCEPT ![user[t]] = t] /\ ret' = ret
     \/ op[t] = "alt" /\ Goto(t, "alt") /\ lock' = lock /\ ret' = ret
     \/ op[t] = "claim" /\ Return(t, "OK") /\ lock' = lock
     \/ op[t] # "reset" /\ Return(t, "NOT_FOUND") /\ lock' = lock
  /\ UNCHANGED <<op, at, todo, began, claimed, auto, attached, cached, kernelVars, featureVars, history>>
LEMMA LockSteps ==
  ASSUME ClaimInv, NEW t \in Threads, Lock(t)
  PROVE  Locks(t)
<1> USE DEF ClaimInv, StepInv
<1>1. op[t] \in {"claim", "release", "alt", "reset"}
  BY DEF Lock
<1>2. CASE op[t] = "claim"
  BY <1>2 DEF Lock, Locks
<1>3. CASE op[t] = "release"
  BY <1>3 DEF Lock, Locks
<1>4. CASE op[t] = "alt"
  BY <1>4 DEF Lock, Locks
<1>5. CASE op[t] = "reset"
  BY <1>5 DEF Lock, Locks
<1> QED
  BY <1>1, <1>2, <1>3, <1>4, <1>5

\* A reset unbinds one more of its interfaces, or has none left.
Unbound(t) ==
  /\ pc[t] = "unbind"
  /\ op' = op /\ at' = at /\ ret' = ret /\ began' = began /\ lock' = lock /\ claimed' = claimed /\ auto' = auto
  /\ UNCHANGED <<attached, cached, gone, config, featureVars, history>>
  /\ \/ Goto(t, "lock") /\ todo' = todo /\ driver' = driver
     \/ /\ pc' = pc
        /\ \E I \in SUBSET Interfaces : todo' = [todo EXCEPT ![t] = I]
        /\ \/ driver' = driver
           \/ \E i \in Interfaces : driver[i] = user[t] /\ driver' = [driver EXCEPT ![i] = NoDriver]
LEMMA UnbindSteps ==
  ASSUME HandlesAssumption, ClaimInv, NEW t \in Threads, Unbind(t)
  PROVE  Unbound(t)
<1> USE DEF ClaimInv, Types, ThreadTypes, HandleTypes, DeviceTypes
<1>1. CASE todo[t] = {}
  BY <1>1 DEF Unbind, Unbound
<1>2. CASE todo[t] # {}
  <2> DEFINE i == CHOOSE x \in todo[t] : \A y \in todo[t] : x <= y
  <2>1. /\ todo' = [todo EXCEPT ![t] = @ \ {i}] /\ pc' = pc
        /\ driver' = IF i \in claimed[H(t)] /\ ~gone /\ driver[i] = H(t)
                     THEN [driver EXCEPT ![i] = NoDriver] ELSE driver
    BY <1>2 DEF Unbind
  <2> HIDE DEF i
  <2>2. todo[t] \ {i} \in SUBSET Interfaces
    OBVIOUS
  <2>3. todo' = [todo EXCEPT ![t] = todo[t] \ {i}]
    BY <2>1
  <2>4. driver' = driver \/ (i \in Interfaces /\ driver[i] = user[t] /\ driver' = [driver EXCEPT ![i] = NoDriver])
    BY <2>1
  <2> QED
    BY <2>1, <2>2, <2>3, <2>4 DEF Unbind, Unbound
<1> QED
  BY <1>1, <1>2

\* A reset claims one more of its interfaces again, or has none left.
Reclaimed(t) ==
  /\ pc[t] = "reclaim"
  /\ op' = op /\ ret' = ret /\ began' = began /\ claimed' = claimed /\ auto' = auto
  /\ UNCHANGED <<attached, cached, kernelVars, featureVars, history>>
  /\ \/ /\ todo[t] \cap claimed[user[t]] = {}
        /\ Unlock(t) /\ Goto(t, "idle") /\ todo' = [todo EXCEPT ![t] = {}] /\ at' = at
     \/ \E i \in todo[t] \cap claimed[user[t]] :
          at' = [at EXCEPT ![t] = i] /\ Goto(t, "claim_detach") /\ todo' = todo /\ lock' = lock
LEMMA ReclaimSteps ==
  ASSUME HandlesAssumption, ClaimInv, NEW t \in Threads, Reclaim(t)
  PROVE  Reclaimed(t)
<1> USE DEF ClaimInv, Types, ThreadTypes, HandleTypes, DeviceTypes
<1> DEFINE rest == todo[t] \cap claimed[user[t]]
<1>1. CASE rest = {}
  BY <1>1 DEF Reclaim, Reclaimed
<1>2. CASE rest # {}
  <2> DEFINE i == CHOOSE x \in rest : \A y \in rest : x <= y
  <2>1. at' = [at EXCEPT ![t] = i] /\ Goto(t, "claim_detach") /\ todo' = todo /\ lock' = lock
    BY <1>2 DEF Reclaim
  <2>2. rest \in SUBSET Nat
    BY DEF HandlesAssumption
  <2>3. i \in rest
    <3> HIDE DEF rest
    <3> QED
      BY <1>2, <2>2, Least
  <2> HIDE DEF i
  <2> QED
    BY <2>1, <2>3 DEF Reclaim, Reclaimed
<1> QED
  BY <1>1, <1>2

\* The kernel is asked for something that is not kept.
Asks(t) ==
  /\ pc[t] \in {"active", "alt", "clear_halt", "streams", "dev_mem"}
  /\ \E r \in Results : Return(t, r)
  /\ UNCHANGED <<op, at, todo, began, handleVars, attached, cached, kernelVars, featureVars, history>>
LEMMA AskSteps ==
  ASSUME NEW t \in Threads, Active(t) \/ SetAlt(t) \/ ClearHalt(t) \/ Streams(t) \/ DevMem(t)
  PROVE  Asks(t)
<1> USE DEF Asks, Results
<1>1. CASE Active(t) \/ SetAlt(t)
  BY <1>1 DEF Active, SetAlt
<1>2. CASE ClearHalt(t) \/ Streams(t) \/ DevMem(t)
  BY <1>2 DEF ClearHalt, Streams, DevMem
<1> QED
  BY <1>1, <1>2

\* Interfaces have numbers.
LEMMA Numbers == HandlesAssumption => Interfaces \subseteq Int
  BY DEF HandlesAssumption

\* The steps of a thread, seen from there.
Moves(t) ==
  \/ Begin(t) \/ SetAuto(t) \/ Locks(t) \/ Claims(t) \/ Fails(t) \/ Regains(t) \/ GivesUp(t) \/ Loses(t)
  \/ Passes(t) \/ GetDriver(t) \/ Release(t) \/ Attach(t) \/ Unbound(t) \/ Reset(t) \/ Reclaimed(t)
  \/ Asks(t) \/ SetConfig(t) \/ Store(t) \/ GetConfig(t)

\* Every step of a thread is one of them.
LEMMA ThreadMoves ==
  ASSUME HandlesAssumption, ClaimInv, NEW t \in Threads, Begin(t) \/ Call(t)
  PROVE  Moves(t)
  BY ClaimAnswers, LockSteps, UnbindSteps, ReclaimSteps, AskSteps DEF Call, Moves, Answers

\* What the steps of a thread keep, one part of the invariant after the other.
LEMMA ThreadTypesKeeps ==
  ASSUME HandlesAssumption, ClaimInv, NEW t \in Threads, Moves(t)
  PROVE  ThreadTypes'
<1> USE DEF ClaimInv, Types, ThreadTypes, HandleTypes, DeviceTypes
<1>1. CASE Begin(t)
  <2> DEFINE Body(o, i) ==
          /\ op' = [op EXCEPT ![t] = o] /\ at' = [at EXCEPT ![t] = i] /\ began' = [began EXCEPT ![t] = attached]
          /\ IF o \in Checked /\ ~attached THEN Return(t, "NO_DEVICE") /\ UNCHANGED todo
             ELSE /\ Goto(t, CASE o \in {"claim", "release", "alt"} -> "lock"
                               [] o = "reset" -> "unbind"
                               [] o = "detach" -> "getdriver"
                               [] OTHER -> o)
                  /\ ret' = [ret EXCEPT ![t] = "none"]
                  /\ todo' = [todo EXCEPT ![t] = IF o = "reset" THEN Interfaces ELSE {}]
  <2>a. PICK o \in menu.ops \ {"unplug"} : \E i \in IF o \in OnInterface THEN menu.on ELSE {0} : Body(o, i)
    BY <1>1 DEF Begin
  <2>1. PICK i \in IF o \in OnInterface THEN menu.on ELSE {0} : Body(o, i)
    BY <2>a
  <2>0. i \in Int
    BY Numbers
  <2>2. o \in AllCalls \ {"unplug"} /\ at' \in [Threads -> Int] /\ began' \in [Threads -> BOOLEAN]
    BY <2>0, <2>1
  <2>3. op' \in [Threads -> AllCalls \cup {"none"}]
    BY <2>1, <2>2
  <2>4. todo' \in [Threads -> SUBSET Interfaces]
    BY <2>1
  <2>5. ret' \in [Threads -> Results]
    BY <2>1 DEF Results
  <2>6. pc' \in [Threads -> Labels]
    BY <2>1, <2>2 DEF AllCalls, Labels
  <2> QED
    BY <2>2, <2>3, <2>4, <2>5, <2>6
<1>2. CASE SetAuto(t)
  BY <1>2 DEF SetAuto, Labels, Results, StepInv
<1>3. CASE Locks(t)
  BY <1>3 DEF Locks, Labels, Results, StepInv
<1>4. CASE Claims(t)
  BY <1>4 DEF Claims, Bound, ClaimStep, Ends, Labels, Results, StepInv
<1>5. CASE Fails(t)
  BY <1>5 DEF Fails, Refused, ClaimStep, Ends, Labels, Results, StepInv
<1>6. CASE Regains(t)
  BY <1>6 DEF Regains, Bound, ClaimStep, NextOne, Labels, Results, StepInv
<1>7. CASE GivesUp(t)
  BY <1>7 DEF GivesUp, Refused, ClaimStep, NextOne, Labels, Results, StepInv
<1>8. CASE Loses(t)
  BY <1>8 DEF Loses, ClaimStep, Labels, Results, StepInv
<1>9. CASE Passes(t)
  BY <1>9 DEF Passes, ClaimStep, Labels, Results, StepInv
<1>10. CASE GetDriver(t)
  BY <1>10 DEF GetDriver, Labels, Results, StepInv
<1>11. CASE Release(t)
  BY <1>11 DEF Release, Mine, Labels, Results, StepInv
<1>12. CASE Attach(t)
  BY <1>12 DEF Attach, Labels, Results, StepInv
<1>13. CASE Unbound(t)
  BY <1>13 DEF Unbound, Labels, Results, StepInv
<1>14. CASE Reset(t)
  BY SMTT(30), <1>14 DEF Reset, Labels, Results, StepInv
<1>15. CASE Reclaimed(t)
  <2>1. claimed[user[t]] \subseteq Int
    BY Numbers
  <2> QED
    BY <1>15, <2>1 DEF Reclaimed, Labels
<1>16. CASE Asks(t)
  BY <1>16 DEF Asks, Labels, Results, StepInv
<1>17. CASE SetConfig(t)
  BY SMTT(30), <1>17 DEF SetConfig, Labels, Results, StepInv
<1>18. CASE Store(t)
  BY <1>18 DEF Store, Labels, Results, StepInv
<1>19. CASE GetConfig(t)
  BY <1>19 DEF GetConfig, Labels, Results, StepInv
<1> QED
  BY <1>1, <1>2, <1>3, <1>4, <1>5, <1>6, <1>7, <1>8, <1>9, <1>10, <1>11, <1>12, <1>13, <1>14, <1>15, <1>16,
    <1>17, <1>18, <1>19 DEF Moves

LEMMA HandleTypesKeeps ==
  ASSUME HandlesAssumption, ClaimInv, NEW t \in Threads, Moves(t)
  PROVE  HandleTypes'
<1> USE DEF ClaimInv, Types, ThreadTypes, HandleTypes, DeviceTypes
<1>1. CASE Begin(t)
  BY <1>1 DEF Begin, Checked, OnInterface, AllCalls, StepInv, WorkInv, Reclaiming
<1>2. CASE SetAuto(t)
  BY <1>2 DEF SetAuto, StepInv, WorkInv, Reclaiming
<1>3. CASE Locks(t)
  BY <1>3 DEF Locks, StepInv, WorkInv, Reclaiming
<1>4. CASE Claims(t)
  BY <1>4 DEF Claims, Bound, ClaimStep, Ends, StepInv, WorkInv, Reclaiming
<1>5. CASE Fails(t)
  BY <1>5 DEF Fails, Refused, ClaimStep, Ends, StepInv, WorkInv, Reclaiming
<1>6. CASE Regains(t)
  BY <1>6 DEF Regains, Bound, ClaimStep, NextOne, StepInv, WorkInv, Reclaiming
<1>7. CASE GivesUp(t)
  BY <1>7 DEF GivesUp, Refused, ClaimStep, NextOne, StepInv, WorkInv, Reclaiming
<1>8. CASE Loses(t)
  BY <1>8 DEF Loses, ClaimStep, StepInv, WorkInv, Reclaiming
<1>9. CASE Passes(t)
  BY <1>9 DEF Passes, ClaimStep, StepInv, WorkInv, Reclaiming
<1>10. CASE GetDriver(t)
  BY <1>10 DEF GetDriver, StepInv, WorkInv, Reclaiming
<1>11. CASE Release(t)
  BY <1>11 DEF Release, Mine, StepInv, WorkInv, Reclaiming
<1>12. CASE Attach(t)
  <2>1. /\ claimed' = claimed \/ claimed' = [claimed EXCEPT ![user[t]] = @ \ {at[t]}]
        /\ lock' = lock \/ lock' = [lock EXCEPT ![user[t]] = NoThread]
        /\ UNCHANGED <<auto, lost>>
    BY <1>12 DEF Attach
  <2> QED
    BY <2>1
<1>13. CASE Unbound(t)
  BY <1>13 DEF Unbound, StepInv, WorkInv, Reclaiming
<1>14. CASE Reset(t)
  BY <1>14 DEF Reset, StepInv, WorkInv, Reclaiming
<1>15. CASE Reclaimed(t)
  BY <1>15 DEF Reclaimed, StepInv, WorkInv, Reclaiming
<1>16. CASE Asks(t)
  BY <1>16 DEF Asks, StepInv, WorkInv, Reclaiming
<1>17. CASE SetConfig(t)
  BY <1>17 DEF SetConfig, StepInv, WorkInv, Reclaiming
<1>18. CASE Store(t)
  BY <1>18 DEF Store, StepInv, WorkInv, Reclaiming
<1>19. CASE GetConfig(t)
  BY <1>19 DEF GetConfig, StepInv, WorkInv, Reclaiming
<1> QED
  BY <1>1, <1>2, <1>3, <1>4, <1>5, <1>6, <1>7, <1>8, <1>9, <1>10, <1>11, <1>12, <1>13, <1>14, <1>15, <1>16,
    <1>17, <1>18, <1>19 DEF Moves

LEMMA DeviceTypesKeeps ==
  ASSUME HandlesAssumption, ClaimInv, NEW t \in Threads, Moves(t)
  PROVE  DeviceTypes'
<1> USE DEF ClaimInv, Types, ThreadTypes, HandleTypes, DeviceTypes
<1>1. CASE Begin(t)
  BY <1>1 DEF Begin, Checked, OnInterface, AllCalls, StepInv
<1>2. CASE SetAuto(t)
  BY <1>2 DEF SetAuto, StepInv
<1>3. CASE Locks(t)
  BY <1>3 DEF Locks, StepInv
<1>4. CASE Claims(t)
  BY <1>4 DEF Claims, Bound, ClaimStep, Ends, StepInv
<1>5. CASE Fails(t)
  BY <1>5 DEF Fails, Refused, ClaimStep, Ends, StepInv
<1>6. CASE Regains(t)
  BY <1>6 DEF Regains, Bound, ClaimStep, NextOne, StepInv
<1>7. CASE GivesUp(t)
  BY <1>7 DEF GivesUp, Refused, ClaimStep, NextOne, StepInv
<1>8. CASE Loses(t)
  BY <1>8 DEF Loses, ClaimStep, StepInv
<1>9. CASE Passes(t)
  BY <1>9 DEF Passes, ClaimStep, StepInv
<1>10. CASE GetDriver(t)
  BY <1>10 DEF GetDriver, StepInv
<1>11. CASE Release(t)
  BY <1>11 DEF Release, Mine, StepInv
<1>12. CASE Attach(t)
  BY <1>12 DEF Attach, StepInv
<1>13. CASE Unbound(t)
  BY <1>13 DEF Unbound, StepInv
<1>14. CASE Reset(t)
  BY <1>14 DEF Reset, StepInv
<1>15. CASE Reclaimed(t)
  BY <1>15 DEF Reclaimed, StepInv
<1>16. CASE Asks(t)
  BY <1>16 DEF Asks, StepInv
<1>17. CASE SetConfig(t)
  BY <1>17 DEF SetConfig, StepInv
<1>18. CASE Store(t)
  BY <1>18 DEF Store, StepInv
<1>19. CASE GetConfig(t)
  BY <1>19 DEF GetConfig, StepInv
<1> QED
  BY <1>1, <1>2, <1>3, <1>4, <1>5, <1>6, <1>7, <1>8, <1>9, <1>10, <1>11, <1>12, <1>13, <1>14, <1>15, <1>16,
    <1>17, <1>18, <1>19 DEF Moves

LEMMA StepInvKeeps ==
  ASSUME HandlesAssumption, ClaimInv, NEW t \in Threads, Moves(t), Types'
  PROVE  StepInv'
<1> USE DEF ClaimInv, Types, ThreadTypes, HandleTypes, DeviceTypes
<1>1. CASE Begin(t)
  BY <1>1 DEF Begin, Checked, OnInterface, AllCalls, StepInv, Plain, HandlesAssumption
<1>2. CASE SetAuto(t)
  BY <1>2 DEF SetAuto, StepInv, Plain, HandlesAssumption
<1>3. CASE Locks(t)
  BY <1>3 DEF Locks, StepInv, Plain, HandlesAssumption
<1>4. CASE Claims(t)
  BY <1>4 DEF Claims, Bound, ClaimStep, Ends, StepInv, Plain, HandlesAssumption
<1>5. CASE Fails(t)
  BY <1>5 DEF Fails, Refused, ClaimStep, Ends, StepInv, Plain, HandlesAssumption
<1>6. CASE Regains(t)
  BY <1>6 DEF Regains, Bound, ClaimStep, NextOne, StepInv, Plain, HandlesAssumption
<1>7. CASE GivesUp(t)
  BY <1>7 DEF GivesUp, Refused, ClaimStep, NextOne, StepInv, Plain, HandlesAssumption
<1>8. CASE Loses(t)
  BY <1>8 DEF Loses, ClaimStep, StepInv, Plain, HandlesAssumption
<1>9. CASE Passes(t)
  BY <1>9 DEF Passes, ClaimStep, StepInv, Plain, HandlesAssumption
<1>10. CASE GetDriver(t)
  BY <1>10 DEF GetDriver, StepInv, Plain, HandlesAssumption
<1>11. CASE Release(t)
  BY <1>11 DEF Release, Mine, StepInv, Plain, HandlesAssumption
<1>12. CASE Attach(t)
  BY <1>12 DEF Attach, StepInv, Plain, HandlesAssumption
<1>13. CASE Unbound(t)
  BY <1>13 DEF Unbound, StepInv, Plain, HandlesAssumption
<1>14. CASE Reset(t)
  BY <1>14 DEF Reset, StepInv, Plain, HandlesAssumption
<1>15. CASE Reclaimed(t)
  BY <1>15 DEF Reclaimed, StepInv, Plain, HandlesAssumption
<1>16. CASE Asks(t)
  BY <1>16 DEF Asks, StepInv, Plain, HandlesAssumption
<1>17. CASE SetConfig(t)
  BY <1>17 DEF SetConfig, StepInv, Plain, HandlesAssumption
<1>18. CASE Store(t)
  BY <1>18 DEF Store, StepInv, Plain, HandlesAssumption
<1>19. CASE GetConfig(t)
  BY <1>19 DEF GetConfig, StepInv, Plain, HandlesAssumption
<1> QED
  BY <1>1, <1>2, <1>3, <1>4, <1>5, <1>6, <1>7, <1>8, <1>9, <1>10, <1>11, <1>12, <1>13, <1>14, <1>15, <1>16,
    <1>17, <1>18, <1>19 DEF Moves

LEMMA LockInvKeeps ==
  ASSUME HandlesAssumption, ClaimInv, NEW t \in Threads, Moves(t), Types'
  PROVE  LockInv'
<1> USE DEF ClaimInv, Types, ThreadTypes, HandleTypes, DeviceTypes
<1>1. CASE Begin(t)
  BY <1>1 DEF Begin, Checked, OnInterface, AllCalls, LockInv, Locked, StepInv, Plain, HandlesAssumption
<1>2. CASE SetAuto(t)
  BY <1>2 DEF SetAuto, LockInv, Locked, StepInv, Plain, HandlesAssumption
<1>3. CASE Locks(t)
  BY <1>3 DEF Locks, LockInv, Locked, StepInv, Plain, HandlesAssumption
<1>4. CASE Claims(t)
  BY <1>4 DEF Claims, Bound, ClaimStep, Ends, LockInv, Locked, StepInv, Plain, HandlesAssumption
<1>5. CASE Fails(t)
  BY <1>5 DEF Fails, Refused, ClaimStep, Ends, LockInv, Locked, StepInv, Plain, HandlesAssumption
<1>6. CASE Regains(t)
  BY <1>6 DEF Regains, Bound, ClaimStep, NextOne, LockInv, Locked, StepInv, Plain, HandlesAssumption
<1>7. CASE GivesUp(t)
  BY <1>7 DEF GivesUp, Refused, ClaimStep, NextOne, LockInv, Locked, StepInv, Plain, HandlesAssumption
<1>8. CASE Loses(t)
  BY <1>8 DEF Loses, ClaimStep, LockInv, Locked, StepInv, Plain, HandlesAssumption
<1>9. CASE Passes(t)
  BY <1>9 DEF Passes, ClaimStep, LockInv, Locked, StepInv, Plain, HandlesAssumption
<1>10. CASE GetDriver(t)
  BY <1>10 DEF GetDriver, LockInv, Locked, StepInv, Plain, HandlesAssumption
<1>11. CASE Release(t)
  BY <1>11 DEF Release, Mine, LockInv, Locked, StepInv, Plain, HandlesAssumption
<1>12. CASE Attach(t)
  BY <1>12 DEF Attach, LockInv, Locked, StepInv, Plain, HandlesAssumption
<1>13. CASE Unbound(t)
  BY <1>13 DEF Unbound, LockInv, Locked, StepInv, Plain, HandlesAssumption
<1>14. CASE Reset(t)
  BY <1>14 DEF Reset, LockInv, Locked, StepInv, Plain, HandlesAssumption
<1>15. CASE Reclaimed(t)
  BY <1>15 DEF Reclaimed, LockInv, Locked, StepInv, Plain, HandlesAssumption
<1>16. CASE Asks(t)
  BY <1>16 DEF Asks, LockInv, Locked, StepInv, Plain, HandlesAssumption
<1>17. CASE SetConfig(t)
  BY <1>17 DEF SetConfig, LockInv, Locked, StepInv, Plain, HandlesAssumption
<1>18. CASE Store(t)
  BY <1>18 DEF Store, LockInv, Locked, StepInv, Plain, HandlesAssumption
<1>19. CASE GetConfig(t)
  BY <1>19 DEF GetConfig, LockInv, Locked, StepInv, Plain, HandlesAssumption
<1> QED
  BY <1>1, <1>2, <1>3, <1>4, <1>5, <1>6, <1>7, <1>8, <1>9, <1>10, <1>11, <1>12, <1>13, <1>14, <1>15, <1>16,
    <1>17, <1>18, <1>19 DEF Moves

LEMMA WorkInvKeeps ==
  ASSUME HandlesAssumption, ClaimInv, NEW t \in Threads, Moves(t), Types'
  PROVE  WorkInv'
<1> USE DEF ClaimInv, Types, ThreadTypes, HandleTypes, DeviceTypes
<1>1. CASE Begin(t)
  BY <1>1 DEF Begin, Checked, OnInterface, AllCalls, WorkInv, Reclaiming, Releasing, LockInv, Locked,
    StepInv, HandlesAssumption
<1>2. CASE SetAuto(t)
  BY <1>2 DEF SetAuto, WorkInv, Reclaiming, Releasing, LockInv, Locked, StepInv, HandlesAssumption
<1>3. CASE Locks(t)
  BY <1>3 DEF Locks, WorkInv, Reclaiming, Releasing, LockInv, Locked, StepInv, HandlesAssumption
<1>4. CASE Claims(t)
  BY <1>4 DEF Claims, Bound, ClaimStep, Ends, WorkInv, Reclaiming, Releasing, LockInv, Locked, StepInv,
    HandlesAssumption
<1>5. CASE Fails(t)
  BY <1>5 DEF Fails, Refused, ClaimStep, Ends, WorkInv, Reclaiming, Releasing, LockInv, Locked, StepInv,
    HandlesAssumption
<1>6. CASE Regains(t)
  BY <1>6 DEF Regains, Bound, ClaimStep, NextOne, WorkInv, Reclaiming, Releasing, LockInv, Locked, StepInv,
    HandlesAssumption
<1>7. CASE GivesUp(t)
  BY <1>7 DEF GivesUp, Refused, ClaimStep, NextOne, WorkInv, Reclaiming, Releasing, LockInv, Locked,
    StepInv, HandlesAssumption
<1>8. CASE Loses(t)
  <2>1. \A i \in Interfaces : driver'[i] = driver[i] \/ driver'[i] = NoDriver
    BY <1>8 DEF Loses
  <2>2. \A u \in Threads : user'[u] = user[u] /\ user[u] # NoDriver
    BY <1>8 DEF Loses, ClaimStep, HandlesAssumption
  <2>3. op' = op /\ at' = at /\ todo' = todo /\ claimed' = claimed /\ \A u \in Threads \ {t} : pc'[u] = pc[u]
    BY <1>8 DEF Loses, ClaimStep
  <2>4. pc[t] = "disconnect" /\ pc'[t] \in {"idle", "claim"} /\ (op[t] = "reset" => pc'[t] = "claim")
    BY <1>8 DEF Loses
  <2> QED
    BY <2>1, <2>2, <2>3, <2>4 DEF WorkInv, Reclaiming, Releasing, StepInv
<1>9. CASE Passes(t)
  BY <1>9 DEF Passes, ClaimStep, WorkInv, Reclaiming, Releasing, LockInv, Locked, StepInv, HandlesAssumption
<1>10. CASE GetDriver(t)
  BY <1>10 DEF GetDriver, WorkInv, Reclaiming, Releasing, LockInv, Locked, StepInv, HandlesAssumption
<1>11. CASE Release(t)
  BY SMTT(30), <1>11 DEF Release, Mine, WorkInv, Reclaiming, Releasing, LockInv, Locked, StepInv, HandlesAssumption
<1>12. CASE Attach(t)
  BY <1>12 DEF Attach, WorkInv, Reclaiming, Releasing, LockInv, Locked, StepInv, HandlesAssumption
<1>13. CASE Unbound(t)
  <2>1. \A i \in Interfaces : driver'[i] = driver[i] \/ driver'[i] = NoDriver
    BY <1>13 DEF Unbound
  <2>2. \A u \in Threads : user'[u] = user[u] /\ user[u] # NoDriver
    BY <1>13 DEF Unbound, HandlesAssumption
  <2>3. op' = op /\ at' = at /\ claimed' = claimed /\ \A u \in Threads \ {t} : pc'[u] = pc[u] /\ todo'[u] = todo[u]
    BY <1>13 DEF Unbound
  <2>4. pc'[t] \in {"unbind", "lock"}
    BY <1>13 DEF Unbound
  <2> QED
    BY <2>1, <2>2, <2>3, <2>4 DEF WorkInv, Reclaiming, Releasing, StepInv
<1>14. CASE Reset(t)
  BY <1>14 DEF Reset, WorkInv, Reclaiming, Releasing, LockInv, Locked, StepInv, HandlesAssumption
<1>15. CASE Reclaimed(t)
  BY <1>15 DEF Reclaimed, WorkInv, Reclaiming, Releasing, LockInv, Locked, StepInv, HandlesAssumption
<1>16. CASE Asks(t)
  BY <1>16 DEF Asks, WorkInv, Reclaiming, Releasing, LockInv, Locked, StepInv, HandlesAssumption
<1>17. CASE SetConfig(t)
  BY <1>17 DEF SetConfig, WorkInv, Reclaiming, Releasing, LockInv, Locked, StepInv, HandlesAssumption
<1>18. CASE Store(t)
  BY <1>18 DEF Store, WorkInv, Reclaiming, Releasing, LockInv, Locked, StepInv, HandlesAssumption
<1>19. CASE GetConfig(t)
  BY <1>19 DEF GetConfig, WorkInv, Reclaiming, Releasing, LockInv, Locked, StepInv, HandlesAssumption
<1> QED
  BY <1>1, <1>2, <1>3, <1>4, <1>5, <1>6, <1>7, <1>8, <1>9, <1>10, <1>11, <1>12, <1>13, <1>14, <1>15, <1>16,
    <1>17, <1>18, <1>19 DEF Moves

LEMMA BoundInvKeeps ==
  ASSUME HandlesAssumption, ClaimInv, NEW t \in Threads, Moves(t), Types'
  PROVE  BoundInv'
<1> USE DEF ClaimInv, Types, ThreadTypes, HandleTypes, DeviceTypes
<1>1. CASE Begin(t)
  BY <1>1 DEF Begin, Checked, OnInterface, AllCalls, BoundInv, WorkInv, Reclaiming, Releasing, StepInv,
    Plain, HandlesAssumption
<1>2. CASE SetAuto(t)
  BY <1>2 DEF SetAuto, BoundInv, WorkInv, Reclaiming, Releasing, StepInv, Plain, HandlesAssumption
<1>3. CASE Locks(t)
  BY <1>3 DEF Locks, BoundInv, WorkInv, Reclaiming, Releasing, StepInv, Plain, HandlesAssumption
<1>4. CASE Claims(t)
  BY <1>4 DEF Claims, Bound, ClaimStep, Ends, BoundInv, WorkInv, Reclaiming, Releasing, StepInv, Plain,
    HandlesAssumption
<1>5. CASE Fails(t)
  BY <1>5 DEF Fails, Refused, ClaimStep, Ends, BoundInv, WorkInv, Reclaiming, Releasing, StepInv, Plain,
    HandlesAssumption
<1>6. CASE Regains(t)
  BY <1>6 DEF Regains, Bound, ClaimStep, NextOne, BoundInv, WorkInv, Reclaiming, Releasing, StepInv, Plain,
    HandlesAssumption
<1>7. CASE GivesUp(t)
  BY <1>7 DEF GivesUp, Refused, ClaimStep, NextOne, BoundInv, WorkInv, Reclaiming, Releasing, StepInv,
    Plain, HandlesAssumption
<1>8. CASE Loses(t)
  BY <1>8 DEF Loses, ClaimStep, BoundInv, WorkInv, Reclaiming, Releasing, StepInv, Plain, HandlesAssumption
<1>9. CASE Passes(t)
  BY <1>9 DEF Passes, ClaimStep, BoundInv, WorkInv, Reclaiming, Releasing, StepInv, Plain, HandlesAssumption
<1>10. CASE GetDriver(t)
  BY <1>10 DEF GetDriver, BoundInv, WorkInv, Reclaiming, Releasing, StepInv, Plain, HandlesAssumption
<1>11. CASE Release(t)
  BY <1>11 DEF Release, Mine, BoundInv, WorkInv, Reclaiming, Releasing, StepInv, Plain, HandlesAssumption
<1>12. CASE Attach(t)
  BY <1>12 DEF Attach, BoundInv, WorkInv, Reclaiming, Releasing, StepInv, Plain, HandlesAssumption
<1>13. CASE Unbound(t)
  BY <1>13 DEF Unbound, BoundInv, WorkInv, Reclaiming, Releasing, StepInv, Plain, HandlesAssumption
<1>14. CASE Reset(t)
  BY <1>14 DEF Reset, BoundInv, WorkInv, Reclaiming, Releasing, StepInv, Plain, HandlesAssumption
<1>15. CASE Reclaimed(t)
  BY <1>15 DEF Reclaimed, BoundInv, WorkInv, Reclaiming, Releasing, StepInv, Plain, HandlesAssumption
<1>16. CASE Asks(t)
  BY <1>16 DEF Asks, BoundInv, WorkInv, Reclaiming, Releasing, StepInv, Plain, HandlesAssumption
<1>17. CASE SetConfig(t)
  BY <1>17 DEF SetConfig, BoundInv, WorkInv, Reclaiming, Releasing, StepInv, Plain, HandlesAssumption
<1>18. CASE Store(t)
  BY <1>18 DEF Store, BoundInv, WorkInv, Reclaiming, Releasing, StepInv, Plain, HandlesAssumption
<1>19. CASE GetConfig(t)
  BY <1>19 DEF GetConfig, BoundInv, WorkInv, Reclaiming, Releasing, StepInv, Plain, HandlesAssumption
<1> QED
  BY <1>1, <1>2, <1>3, <1>4, <1>5, <1>6, <1>7, <1>8, <1>9, <1>10, <1>11, <1>12, <1>13, <1>14, <1>15, <1>16,
    <1>17, <1>18, <1>19 DEF Moves

\* Nobody sees to an interface that is claimed.
Missing(h, i) ==
  /\ i \in claimed[h] \ lost[h] /\ ~gone /\ driver[i] # h
  /\ \A u \in Threads : user[u] = h => ~SeenTo(u, i)
LEMMA RealMeans == HandleTypes => (RealInv <=> \A h \in Handles, i \in Interfaces : ~Missing(h, i))
  BY DEF HandleTypes, RealInv, Missing
LEMMA RealMeansNext == HandleTypes' => (RealInv' <=> \A h \in Handles, i \in Interfaces : ~Missing(h, i)')
  BY DEF HandleTypes, RealInv, Missing

LEMMA RealInvKeeps ==
  ASSUME HandlesAssumption, "EIO" \notin ResetErrors, ClaimInv, RealInv, NEW t \in Threads, Moves(t), Types'
  PROVE  RealInv'
<1> SUFFICES ASSUME NEW h \in Handles, NEW i \in Interfaces, ~Missing(h, i), Missing(h, i)' PROVE FALSE
  BY RealMeans, RealMeansNext DEF ClaimInv, Types
<1>0. /\ i \in claimed'[h] /\ i \notin lost'[h] /\ ~gone' /\ driver'[i] # h
      /\ \A u \in Threads : user'[u] = h => ~SeenTo(u, i)'
  BY DEF Missing
<1> USE DEF ClaimInv, Types, ThreadTypes, HandleTypes, DeviceTypes
<1>1. CASE Begin(t)
  <2>1. \A u \in Threads : user[u] = h /\ SeenTo(u, i) => SeenTo(u, i)'
    BY <1>0, <1>1 DEF Begin, Checked, OnInterface, AllCalls, SeenTo, Resetting, Reclaiming, Releasing,
      WorkInv, StepInv, Plain, HandlesAssumption
  <2>2. user' = user /\ gone' = gone /\ claimed' = claimed
    BY <1>1 DEF Begin, Checked, OnInterface, AllCalls
  <2>8. i \in claimed[h] /\ i \notin lost[h] /\ ~gone /\ driver[i] # h
    BY <1>0, <1>1, <2>2 DEF Begin, Checked, OnInterface, AllCalls
  <2>9. \A u \in Threads : user[u] = h => ~SeenTo(u, i)
    BY <1>0, <2>1, <2>2
  <2> QED
    BY <2>8, <2>9 DEF Missing
<1>2. CASE SetAuto(t)
  <2>1. \A u \in Threads : user[u] = h /\ SeenTo(u, i) => SeenTo(u, i)'
    BY <1>0, <1>2 DEF SetAuto, SeenTo, Resetting, Reclaiming, Releasing, WorkInv, StepInv, Plain,
      HandlesAssumption
  <2>2. user' = user /\ gone' = gone /\ claimed' = claimed
    BY <1>2 DEF SetAuto
  <2>8. i \in claimed[h] /\ i \notin lost[h] /\ ~gone /\ driver[i] # h
    BY <1>0, <1>2, <2>2 DEF SetAuto
  <2>9. \A u \in Threads : user[u] = h => ~SeenTo(u, i)
    BY <1>0, <2>1, <2>2
  <2> QED
    BY <2>8, <2>9 DEF Missing
<1>3. CASE Locks(t)
  <2>1. \A u \in Threads : user[u] = h /\ SeenTo(u, i) => SeenTo(u, i)'
    BY <1>0, <1>3 DEF Locks, SeenTo, Resetting, Reclaiming, Releasing, WorkInv, StepInv, Plain,
      HandlesAssumption
  <2>2. user' = user /\ gone' = gone /\ claimed' = claimed
    BY <1>3 DEF Locks
  <2>8. i \in claimed[h] /\ i \notin lost[h] /\ ~gone /\ driver[i] # h
    BY <1>0, <1>3, <2>2 DEF Locks
  <2>9. \A u \in Threads : user[u] = h => ~SeenTo(u, i)
    BY <1>0, <2>1, <2>2
  <2> QED
    BY <2>8, <2>9 DEF Missing
<1>4. CASE Claims(t)
  <2>1. \A u \in Threads \ {t} : SeenTo(u, i) => SeenTo(u, i)'
    BY <1>4 DEF Claims, Bound, ClaimStep, Ends, SeenTo, Resetting, Reclaiming, Releasing
  <2>2. user' = user /\ gone' = gone
    BY <1>4 DEF Claims, Bound, ClaimStep, Ends
  <2>3. SeenTo(t, i) /\ user[t] = h => SeenTo(t, i)'
    BY <1>0, <1>4 DEF Claims, Bound, ClaimStep, Ends, SeenTo, Resetting, Reclaiming, Releasing, WorkInv,
      StepInv, Plain, HandlesAssumption
  <2>8. i \in claimed[h] /\ i \notin lost[h] /\ ~gone /\ driver[i] # h
    BY <1>0, <1>4, <2>2, <2>3 DEF Claims, Bound, ClaimStep, Ends, StepInv
  <2>9. \A u \in Threads : user[u] = h => ~SeenTo(u, i)
    BY <1>0, <2>1, <2>2, <2>3
  <2> QED
    BY <2>8, <2>9 DEF Missing
<1>5. CASE Fails(t)
  <2>1. \A u \in Threads \ {t} : SeenTo(u, i) => SeenTo(u, i)'
    BY <1>5 DEF Fails, Refused, ClaimStep, Ends, SeenTo, Resetting, Reclaiming, Releasing
  <2>2. user' = user /\ gone' = gone
    BY <1>5 DEF Fails, Refused, ClaimStep, Ends
  <2>3. SeenTo(t, i) /\ user[t] = h => SeenTo(t, i)'
    BY <1>0, <1>5 DEF Fails, Refused, ClaimStep, Ends, SeenTo, Resetting, Reclaiming, Releasing, WorkInv,
      StepInv, Plain, HandlesAssumption
  <2>8. i \in claimed[h] /\ i \notin lost[h] /\ ~gone /\ driver[i] # h
    BY <1>0, <1>5, <2>2, <2>3 DEF Fails, Refused, ClaimStep, Ends, StepInv
  <2>9. \A u \in Threads : user[u] = h => ~SeenTo(u, i)
    BY <1>0, <2>1, <2>2, <2>3
  <2> QED
    BY <2>8, <2>9 DEF Missing
<1>6. CASE Regains(t)
  <2>1. \A u \in Threads \ {t} : SeenTo(u, i) => SeenTo(u, i)'
    BY <1>6 DEF Regains, Bound, ClaimStep, NextOne, SeenTo, Resetting, Reclaiming, Releasing
  <2>2. user' = user /\ gone' = gone
    BY <1>6 DEF Regains, Bound, ClaimStep, NextOne
  <2>3. SeenTo(t, i) /\ user[t] = h => SeenTo(t, i)'
    BY <1>0, <1>6 DEF Regains, Bound, ClaimStep, NextOne, SeenTo, Resetting, Reclaiming, Releasing,
      WorkInv, StepInv, Plain, HandlesAssumption
  <2>8. i \in claimed[h] /\ i \notin lost[h] /\ ~gone /\ driver[i] # h
    BY <1>0, <1>6, <2>2, <2>3 DEF Regains, Bound, ClaimStep, NextOne, StepInv
  <2>9. \A u \in Threads : user[u] = h => ~SeenTo(u, i)
    BY <1>0, <2>1, <2>2, <2>3
  <2> QED
    BY <2>8, <2>9 DEF Missing
<1>7. CASE GivesUp(t)
  <2>1. \A u \in Threads \ {t} : SeenTo(u, i) => SeenTo(u, i)'
    BY <1>7 DEF GivesUp, Refused, ClaimStep, NextOne, SeenTo, Resetting, Reclaiming, Releasing
  <2>2. user' = user /\ gone' = gone
    BY <1>7 DEF GivesUp, Refused, ClaimStep, NextOne
  <2>3. SeenTo(t, i) /\ user[t] = h => SeenTo(t, i)'
    BY <1>0, <1>7 DEF GivesUp, Refused, ClaimStep, NextOne, SeenTo, Resetting, Reclaiming, Releasing,
      WorkInv, StepInv, Plain, HandlesAssumption
  <2>8. i \in claimed[h] /\ i \notin lost[h] /\ ~gone /\ driver[i] # h
    BY <1>0, <1>7, <2>2, <2>3 DEF GivesUp, Refused, ClaimStep, NextOne, StepInv
  <2>9. \A u \in Threads : user[u] = h => ~SeenTo(u, i)
    BY <1>0, <2>1, <2>2, <2>3
  <2> QED
    BY <2>8, <2>9 DEF Missing
<1>8. CASE Loses(t)
  <2>1. \A u \in Threads : user[u] = h /\ SeenTo(u, i) => SeenTo(u, i)'
    BY <1>0, <1>8 DEF Loses, ClaimStep, SeenTo, Resetting, Reclaiming, Releasing, WorkInv, StepInv, Plain,
      HandlesAssumption
  <2>2. user' = user /\ gone' = gone /\ claimed' = claimed
    BY <1>8 DEF Loses, ClaimStep
  <2>8. i \in claimed[h] /\ i \notin lost[h] /\ ~gone /\ driver[i] # h
    BY <1>0, <1>8, <2>2 DEF Loses, ClaimStep
  <2>9. \A u \in Threads : user[u] = h => ~SeenTo(u, i)
    BY <1>0, <2>1, <2>2
  <2> QED
    BY <2>8, <2>9 DEF Missing
<1>9. CASE Passes(t)
  <2>1. \A u \in Threads : user[u] = h /\ SeenTo(u, i) => SeenTo(u, i)'
    BY <1>0, <1>9 DEF Passes, ClaimStep, SeenTo, Resetting, Reclaiming, Releasing, WorkInv, StepInv, Plain,
      HandlesAssumption
  <2>2. user' = user /\ gone' = gone /\ claimed' = claimed
    BY <1>9 DEF Passes, ClaimStep
  <2>8. i \in claimed[h] /\ i \notin lost[h] /\ ~gone /\ driver[i] # h
    BY <1>0, <1>9, <2>2 DEF Passes, ClaimStep
  <2>9. \A u \in Threads : user[u] = h => ~SeenTo(u, i)
    BY <1>0, <2>1, <2>2
  <2> QED
    BY <2>8, <2>9 DEF Missing
<1>10. CASE GetDriver(t)
  <2>1. \A u \in Threads : user[u] = h /\ SeenTo(u, i) => SeenTo(u, i)'
    BY <1>0, <1>10 DEF GetDriver, SeenTo, Resetting, Reclaiming, Releasing, WorkInv, StepInv, Plain,
      HandlesAssumption
  <2>2. user' = user /\ gone' = gone /\ claimed' = claimed
    BY <1>10 DEF GetDriver
  <2>8. i \in claimed[h] /\ i \notin lost[h] /\ ~gone /\ driver[i] # h
    BY <1>0, <1>10, <2>2 DEF GetDriver
  <2>9. \A u \in Threads : user[u] = h => ~SeenTo(u, i)
    BY <1>0, <2>1, <2>2
  <2> QED
    BY <2>8, <2>9 DEF Missing
<1>11. CASE Release(t)
  <2>1. \A u \in Threads \ {t} : SeenTo(u, i) => SeenTo(u, i)'
    BY <1>11 DEF Release, Mine, SeenTo, Resetting, Reclaiming, Releasing
  <2>2. user' = user /\ gone' = gone
    BY <1>11 DEF Release, Mine
  <2>3. SeenTo(t, i) /\ user[t] = h => SeenTo(t, i)'
    BY <1>0, <1>11 DEF Release, Mine, SeenTo, Resetting, Reclaiming, Releasing, WorkInv, StepInv, Plain,
      HandlesAssumption
  <2>4. driver[i] # h
    BY <1>0, <1>11, <2>2 DEF Release, Mine, SeenTo, Resetting, Reclaiming, Releasing, WorkInv, StepInv,
      Plain, HandlesAssumption
  <2>8. i \in claimed[h] /\ i \notin lost[h] /\ ~gone
    BY <1>0, <1>11, <2>2 DEF Release, Mine
  <2>9. \A u \in Threads : user[u] = h => ~SeenTo(u, i)
    BY <1>0, <2>1, <2>2, <2>3
  <2> QED
    BY <2>4, <2>8, <2>9 DEF Missing
<1>12. CASE Attach(t)
  <2>1. \A u \in Threads \ {t} : SeenTo(u, i) => SeenTo(u, i)'
    BY <1>12 DEF Attach, SeenTo, Resetting, Reclaiming, Releasing
  <2>2. user' = user /\ gone' = gone
    BY <1>12 DEF Attach
  <2>3. SeenTo(t, i) /\ user[t] = h => SeenTo(t, i)'
    BY <1>0, <1>12 DEF Attach, SeenTo, Resetting, Reclaiming, Releasing, WorkInv, StepInv, Plain,
      HandlesAssumption
  <2>4. driver[i] # h
    BY <1>0, <1>12, <2>2 DEF Attach, SeenTo, Resetting, Reclaiming, Releasing, WorkInv, StepInv, Plain,
      HandlesAssumption
  <2>8. i \in claimed[h] /\ i \notin lost[h] /\ ~gone
    BY <1>0, <1>12, <2>2 DEF Attach
  <2>9. \A u \in Threads : user[u] = h => ~SeenTo(u, i)
    BY <1>0, <2>1, <2>2, <2>3
  <2> QED
    BY <2>4, <2>8, <2>9 DEF Missing
<1>13. CASE Unbound(t)
  <2>1. \A u \in Threads \ {t} : SeenTo(u, i) => SeenTo(u, i)'
    BY <1>13 DEF Unbound, SeenTo, Resetting, Reclaiming, Releasing
  <2>2. user' = user /\ claimed' = claimed /\ (gone => gone')
    BY <1>13 DEF Unbound
  <2>3. SeenTo(t, i)'
    BY <1>0, <1>13 DEF Unbound, SeenTo, Resetting, Reclaiming, Releasing, WorkInv, StepInv, Plain,
      HandlesAssumption
  <2>4. h # user[t]
    BY <1>0, <2>2, <2>3
  <2>8. i \in claimed[h] /\ i \notin lost[h] /\ ~gone /\ driver[i] # h
    BY <1>0, <1>13, <2>2, <2>4 DEF Unbound, HandlesAssumption
  <2>9. \A u \in Threads : user[u] = h => ~SeenTo(u, i)
    BY <1>0, <2>1, <2>2, <2>4
  <2> QED
    BY <2>8, <2>9 DEF Missing
<1>14. CASE Reset(t)
  <2>1. \A u \in Threads \ {t} : SeenTo(u, i) => SeenTo(u, i)'
    BY <1>14 DEF Reset, SeenTo, Resetting, Reclaiming, Releasing
  <2>2. user' = user /\ claimed' = claimed /\ (gone => gone')
    BY <1>14 DEF Reset
  <2>3. SeenTo(t, i)'
    BY <1>0, <1>14 DEF Reset, SeenTo, Resetting, Reclaiming, Releasing, WorkInv, StepInv, Plain,
      HandlesAssumption
  <2>4. h # user[t]
    BY <1>0, <2>2, <2>3
  <2>8. i \in claimed[h] /\ i \notin lost[h] /\ ~gone /\ driver[i] # h
    BY <1>0, <1>14, <2>2, <2>4 DEF Reset, HandlesAssumption
  <2>9. \A u \in Threads : user[u] = h => ~SeenTo(u, i)
    BY <1>0, <2>1, <2>2, <2>4
  <2> QED
    BY <2>8, <2>9 DEF Missing
<1>15. CASE Reclaimed(t)
  <2>1. \A u \in Threads : user[u] = h /\ SeenTo(u, i) => SeenTo(u, i)'
    BY <1>0, <1>15 DEF Reclaimed, SeenTo, Resetting, Reclaiming, Releasing, WorkInv, StepInv, Plain,
      HandlesAssumption
  <2>2. user' = user /\ gone' = gone /\ claimed' = claimed
    BY <1>15 DEF Reclaimed
  <2>8. i \in claimed[h] /\ i \notin lost[h] /\ ~gone /\ driver[i] # h
    BY <1>0, <1>15, <2>2 DEF Reclaimed
  <2>9. \A u \in Threads : user[u] = h => ~SeenTo(u, i)
    BY <1>0, <2>1, <2>2
  <2> QED
    BY <2>8, <2>9 DEF Missing
<1>16. CASE Asks(t)
  <2>1. \A u \in Threads : user[u] = h /\ SeenTo(u, i) => SeenTo(u, i)'
    BY <1>0, <1>16 DEF Asks, SeenTo, Resetting, Reclaiming, Releasing, WorkInv, StepInv, Plain,
      HandlesAssumption
  <2>2. user' = user /\ gone' = gone /\ claimed' = claimed
    BY <1>16 DEF Asks
  <2>8. i \in claimed[h] /\ i \notin lost[h] /\ ~gone /\ driver[i] # h
    BY <1>0, <1>16, <2>2 DEF Asks
  <2>9. \A u \in Threads : user[u] = h => ~SeenTo(u, i)
    BY <1>0, <2>1, <2>2
  <2> QED
    BY <2>8, <2>9 DEF Missing
<1>17. CASE SetConfig(t)
  <2>1. \A u \in Threads : user[u] = h /\ SeenTo(u, i) => SeenTo(u, i)'
    BY <1>0, <1>17 DEF SetConfig, SeenTo, Resetting, Reclaiming, Releasing, WorkInv, StepInv, Plain,
      HandlesAssumption
  <2>2. user' = user /\ gone' = gone /\ claimed' = claimed
    BY <1>17 DEF SetConfig
  <2>8. i \in claimed[h] /\ i \notin lost[h] /\ ~gone /\ driver[i] # h
    BY <1>0, <1>17, <2>2 DEF SetConfig
  <2>9. \A u \in Threads : user[u] = h => ~SeenTo(u, i)
    BY <1>0, <2>1, <2>2
  <2> QED
    BY <2>8, <2>9 DEF Missing
<1>18. CASE Store(t)
  <2>1. \A u \in Threads : user[u] = h /\ SeenTo(u, i) => SeenTo(u, i)'
    BY <1>0, <1>18 DEF Store, SeenTo, Resetting, Reclaiming, Releasing, WorkInv, StepInv, Plain,
      HandlesAssumption
  <2>2. user' = user /\ gone' = gone /\ claimed' = claimed
    BY <1>18 DEF Store
  <2>8. i \in claimed[h] /\ i \notin lost[h] /\ ~gone /\ driver[i] # h
    BY <1>0, <1>18, <2>2 DEF Store
  <2>9. \A u \in Threads : user[u] = h => ~SeenTo(u, i)
    BY <1>0, <2>1, <2>2
  <2> QED
    BY <2>8, <2>9 DEF Missing
<1>19. CASE GetConfig(t)
  <2>1. \A u \in Threads : user[u] = h /\ SeenTo(u, i) => SeenTo(u, i)'
    BY <1>0, <1>19 DEF GetConfig, SeenTo, Resetting, Reclaiming, Releasing, WorkInv, StepInv, Plain,
      HandlesAssumption
  <2>2. user' = user /\ gone' = gone /\ claimed' = claimed
    BY <1>19 DEF GetConfig
  <2>8. i \in claimed[h] /\ i \notin lost[h] /\ ~gone /\ driver[i] # h
    BY <1>0, <1>19, <2>2 DEF GetConfig
  <2>9. \A u \in Threads : user[u] = h => ~SeenTo(u, i)
    BY <1>0, <2>1, <2>2
  <2> QED
    BY <2>8, <2>9 DEF Missing
<1> QED
  BY <1>1, <1>2, <1>3, <1>4, <1>5, <1>6, <1>7, <1>8, <1>9, <1>10, <1>11, <1>12, <1>13, <1>14, <1>15, <1>16,
    <1>17, <1>18, <1>19 DEF Moves

-----------------------------------------------------------------------------
\* --- drivers, configurations and the end of the device

\* An unconfigured device has no drivers.
DriverInv == config = -1 => \A i \in Interfaces : driver[i] = NoDriver
\* With DISCONNECT_CLAIM only libusb_detach_kernel_driver disconnects.
RobInv == newKernel => ~robbed /\ \A t \in Threads : pc[t] \in {"getdriver", "disconnect"} => op[t] = "detach"

\* What a call that began after the library knew can come to.
GoneInv ==
  /\ ~attached => gone
  /\ \A t \in Threads : ~began[t] =>
       /\ gone /\ (op[t] # "auto" => ret[t] \notin {"OK", "0", "1"})
       /\ pc[t] \in {"idle", "lock", "release", "set_config", "get_config", "auto"}
       /\ pc[t] = "lock" => op[t] = "release"

\* A thread that nobody else was there to disturb.
Alone(t) == \A u \in Threads \ {t} : pc[u] = "idle" /\ op[u] = "none"
BackInv ==
  \A t \in Threads :
    /\ op[t] = "release" => at[t] \in Interfaces
    /\ Alone(t) /\ op[t] = "release" /\ ~gone =>
         /\ pc[t] = "attach" => config # -1
         /\ pc[t] = "idle" /\ ret[t] = "OK" /\ auto[user[t]] => (at[t] \in loaded => driver[at[t]] # NoDriver)

\* The numbers of configurations.
NumberInv ==
  /\ config \in Configs \cup {-1} /\ cached \in -1..1
  /\ \A t \in Threads : pc[t] = "store" => at[t] \in -1..1
\* Who sets the configuration alone stores the one he has set.
ConfigInv == ~overlap =>
  /\ \A t \in Threads, u \in Threads : t # u /\ op[t] = "set_config" /\ pc[t] # "idle" => pc[u] = "idle"
  /\ \A t \in Threads : pc[t] = "store" => config = IF at[t] \in Configs THEN at[t] ELSE -1
  /\ ~sysfs /\ ~stalls /\ (config = -1 => ~has0) /\ (\A t \in Threads : pc[t] # "store") => cached = config

\* The steps of a thread keep these, too.
LEMMA DriverInvKeeps ==
  ASSUME HandlesAssumption, ClaimInv, DriverInv, NumberInv, NEW t \in Threads, Moves(t), Types'
  PROVE  DriverInv'
<1> USE DEF ClaimInv, Types, ThreadTypes, HandleTypes, DeviceTypes
<1>1. CASE Begin(t)
  BY <1>1 DEF Begin, Checked, OnInterface, AllCalls, DriverInv, StepInv, HandlesAssumption
<1>2. CASE SetAuto(t)
  BY <1>2 DEF SetAuto, DriverInv, StepInv, HandlesAssumption
<1>3. CASE Locks(t)
  BY <1>3 DEF Locks, DriverInv, StepInv, HandlesAssumption
<1>4. CASE Claims(t)
  BY <1>4 DEF Claims, Bound, ClaimStep, Ends, DriverInv, StepInv, HandlesAssumption
<1>5. CASE Fails(t)
  BY <1>5 DEF Fails, Refused, ClaimStep, Ends, DriverInv, StepInv, HandlesAssumption
<1>6. CASE Regains(t)
  BY <1>6 DEF Regains, Bound, ClaimStep, NextOne, DriverInv, StepInv, HandlesAssumption
<1>7. CASE GivesUp(t)
  BY <1>7 DEF GivesUp, Refused, ClaimStep, NextOne, DriverInv, StepInv, HandlesAssumption
<1>8. CASE Loses(t)
  BY <1>8 DEF Loses, ClaimStep, DriverInv, StepInv, HandlesAssumption
<1>9. CASE Passes(t)
  BY <1>9 DEF Passes, ClaimStep, DriverInv, StepInv, HandlesAssumption
<1>10. CASE GetDriver(t)
  BY <1>10 DEF GetDriver, DriverInv, StepInv, HandlesAssumption
<1>11. CASE Release(t)
  <2>1. config' = config /\ (driver' = driver \/ driver' = [driver EXCEPT ![at[t]] = NoDriver])
    BY <1>11 DEF Release
  <2> QED
    BY <2>1 DEF DriverInv
<1>12. CASE Attach(t)
  <2>1. config' = config /\ (config = -1 => driver' = driver)
    BY <1>12 DEF Attach
  <2> QED
    BY <2>1 DEF DriverInv
<1>13. CASE Unbound(t)
  BY <1>13 DEF Unbound, DriverInv, StepInv, HandlesAssumption
<1>14. CASE Reset(t)
  BY <1>14 DEF Reset, DriverInv, StepInv, HandlesAssumption
<1>15. CASE Reclaimed(t)
  BY <1>15 DEF Reclaimed, DriverInv, StepInv, HandlesAssumption
<1>16. CASE Asks(t)
  BY <1>16 DEF Asks, DriverInv, StepInv, HandlesAssumption
<1>17. CASE SetConfig(t)
  BY <1>17 DEF SetConfig, DriverInv, StepInv, HandlesAssumption
<1>18. CASE Store(t)
  BY <1>18 DEF Store, DriverInv, StepInv, HandlesAssumption
<1>19. CASE GetConfig(t)
  BY <1>19 DEF GetConfig, DriverInv, StepInv, HandlesAssumption
<1> QED
  BY <1>1, <1>2, <1>3, <1>4, <1>5, <1>6, <1>7, <1>8, <1>9, <1>10, <1>11, <1>12, <1>13, <1>14, <1>15, <1>16,
    <1>17, <1>18, <1>19 DEF Moves

LEMMA RobInvKeeps ==
  ASSUME HandlesAssumption, ClaimInv, DriverInv, NumberInv, RobInv, NEW t \in Threads, Moves(t), Types'
  PROVE  RobInv'
<1> USE DEF ClaimInv, Types, ThreadTypes, HandleTypes, DeviceTypes
<1>1. CASE Begin(t)
  BY <1>1 DEF Begin, Checked, OnInterface, AllCalls, RobInv, StepInv, Plain
<1>2. CASE SetAuto(t)
  BY <1>2 DEF SetAuto, RobInv, StepInv, Plain
<1>3. CASE Locks(t)
  BY <1>3 DEF Locks, RobInv, StepInv, Plain
<1>4. CASE Claims(t)
  BY <1>4 DEF Claims, Bound, ClaimStep, Ends, RobInv, StepInv, Plain
<1>5. CASE Fails(t)
  BY <1>5 DEF Fails, Refused, ClaimStep, Ends, RobInv, StepInv, Plain
<1>6. CASE Regains(t)
  BY <1>6 DEF Regains, Bound, ClaimStep, NextOne, RobInv, StepInv, Plain
<1>7. CASE GivesUp(t)
  BY <1>7 DEF GivesUp, Refused, ClaimStep, NextOne, RobInv, StepInv, Plain
<1>8. CASE Loses(t)
  BY <1>8 DEF Loses, ClaimStep, RobInv, StepInv, Plain
<1>9. CASE Passes(t)
  BY <1>9 DEF Passes, ClaimStep, RobInv, StepInv, Plain
<1>10. CASE GetDriver(t)
  BY <1>10 DEF GetDriver, RobInv, StepInv, Plain
<1>11. CASE Release(t)
  BY <1>11 DEF Release, Mine, RobInv, StepInv, Plain
<1>12. CASE Attach(t)
  BY <1>12 DEF Attach, RobInv, StepInv, Plain
<1>13. CASE Unbound(t)
  BY <1>13 DEF Unbound, RobInv, StepInv, Plain
<1>14. CASE Reset(t)
  BY <1>14 DEF Reset, RobInv, StepInv, Plain
<1>15. CASE Reclaimed(t)
  BY <1>15 DEF Reclaimed, RobInv, StepInv, Plain
<1>16. CASE Asks(t)
  BY <1>16 DEF Asks, RobInv, StepInv, Plain
<1>17. CASE SetConfig(t)
  BY <1>17 DEF SetConfig, RobInv, StepInv, Plain
<1>18. CASE Store(t)
  BY <1>18 DEF Store, RobInv, StepInv, Plain
<1>19. CASE GetConfig(t)
  BY <1>19 DEF GetConfig, RobInv, StepInv, Plain
<1> QED
  BY <1>1, <1>2, <1>3, <1>4, <1>5, <1>6, <1>7, <1>8, <1>9, <1>10, <1>11, <1>12, <1>13, <1>14, <1>15, <1>16,
    <1>17, <1>18, <1>19 DEF Moves

LEMMA GoneInvKeeps ==
  ASSUME HandlesAssumption, ClaimInv, DriverInv, NumberInv, GoneInv, NEW t \in Threads, Moves(t), Types'
  PROVE  GoneInv'
<1> USE DEF ClaimInv, Types, ThreadTypes, HandleTypes, DeviceTypes
<1>1. CASE Begin(t)
  BY <1>1 DEF Begin, Checked, OnInterface, AllCalls, GoneInv, StepInv, Plain
<1>2. CASE SetAuto(t)
  BY <1>2 DEF SetAuto, GoneInv, StepInv, Plain
<1>3. CASE Locks(t)
  BY <1>3 DEF Locks, GoneInv, StepInv, Plain
<1>4. CASE Claims(t)
  BY <1>4 DEF Claims, Bound, ClaimStep, Ends, GoneInv, StepInv, Plain
<1>5. CASE Fails(t)
  BY <1>5 DEF Fails, Refused, ClaimStep, Ends, GoneInv, StepInv, Plain
<1>6. CASE Regains(t)
  BY <1>6 DEF Regains, Bound, ClaimStep, NextOne, GoneInv, StepInv, Plain
<1>7. CASE GivesUp(t)
  BY <1>7 DEF GivesUp, Refused, ClaimStep, NextOne, GoneInv, StepInv, Plain
<1>8. CASE Loses(t)
  BY <1>8 DEF Loses, ClaimStep, GoneInv, StepInv, Plain
<1>9. CASE Passes(t)
  BY <1>9 DEF Passes, ClaimStep, GoneInv, StepInv, Plain
<1>10. CASE GetDriver(t)
  BY <1>10 DEF GetDriver, GoneInv, StepInv, Plain
<1>11. CASE Release(t)
  BY <1>11 DEF Release, Mine, GoneInv, StepInv, Plain
<1>12. CASE Attach(t)
  BY <1>12 DEF Attach, GoneInv, StepInv, Plain
<1>13. CASE Unbound(t)
  BY <1>13 DEF Unbound, GoneInv, StepInv, Plain
<1>14. CASE Reset(t)
  BY <1>14 DEF Reset, GoneInv, StepInv, Plain
<1>15. CASE Reclaimed(t)
  BY <1>15 DEF Reclaimed, GoneInv, StepInv, Plain
<1>16. CASE Asks(t)
  BY <1>16 DEF Asks, GoneInv, StepInv, Plain
<1>17. CASE SetConfig(t)
  BY <1>17 DEF SetConfig, GoneInv, StepInv, Plain
<1>18. CASE Store(t)
  BY <1>18 DEF Store, GoneInv, StepInv, Plain
<1>19. CASE GetConfig(t)
  BY <1>19 DEF GetConfig, GoneInv, StepInv, Plain
<1> QED
  BY <1>1, <1>2, <1>3, <1>4, <1>5, <1>6, <1>7, <1>8, <1>9, <1>10, <1>11, <1>12, <1>13, <1>14, <1>15, <1>16,
    <1>17, <1>18, <1>19 DEF Moves

LEMMA BackInvKeeps ==
  ASSUME HandlesAssumption, ClaimInv, DriverInv, NumberInv, BackInv, NEW t \in Threads, Moves(t), Types'
  PROVE  BackInv'
<1> USE DEF ClaimInv, Types, ThreadTypes, HandleTypes, DeviceTypes
<1>1. CASE Begin(t)
  BY <1>1 DEF Begin, Checked, OnInterface, AllCalls, BackInv, Alone, DriverInv, StepInv, Plain,
    HandlesAssumption
<1>2. CASE SetAuto(t)
  BY <1>2 DEF SetAuto, BackInv, Alone, DriverInv, StepInv, Plain, HandlesAssumption
<1>3. CASE Locks(t)
  BY <1>3 DEF Locks, BackInv, Alone, DriverInv, StepInv, Plain, HandlesAssumption
<1>4. CASE Claims(t)
  BY <1>4 DEF Claims, Bound, ClaimStep, Ends, BackInv, Alone, DriverInv, StepInv, Plain, HandlesAssumption
<1>5. CASE Fails(t)
  BY <1>5 DEF Fails, Refused, ClaimStep, Ends, BackInv, Alone, DriverInv, StepInv, Plain, HandlesAssumption
<1>6. CASE Regains(t)
  BY <1>6 DEF Regains, Bound, ClaimStep, NextOne, BackInv, Alone, DriverInv, StepInv, Plain,
    HandlesAssumption
<1>7. CASE GivesUp(t)
  BY <1>7 DEF GivesUp, Refused, ClaimStep, NextOne, BackInv, Alone, DriverInv, StepInv, Plain,
    HandlesAssumption
<1>8. CASE Loses(t)
  BY <1>8 DEF Loses, ClaimStep, BackInv, Alone, DriverInv, StepInv, Plain, HandlesAssumption
<1>9. CASE Passes(t)
  BY <1>9 DEF Passes, ClaimStep, BackInv, Alone, DriverInv, StepInv, Plain, HandlesAssumption
<1>10. CASE GetDriver(t)
  BY <1>10 DEF GetDriver, BackInv, Alone, DriverInv, StepInv, Plain, HandlesAssumption
<1>11. CASE Release(t)
  BY <1>11 DEF Release, Mine, BackInv, Alone, DriverInv, StepInv, Plain, HandlesAssumption
<1>12. CASE Attach(t)
  <2>1. op' = op /\ at' = at /\ auto' = auto /\ gone' = gone /\ config' = config /\ user' = user
        /\ loaded' = loaded
    BY <1>12 DEF Attach
  <2>2. pc' = [pc EXCEPT ![t] = "idle"] /\ pc[t] = "attach" /\ \A u \in Threads \ {t} : ret'[u] = ret[u]
    BY <1>12 DEF Attach
  <2>3. \A u \in Threads \ {t} : ~Alone(u)'
    BY <2>1, <2>2 DEF Alone, StepInv
  <2>4. Alone(t)' => Alone(t)
    BY <2>1, <2>2 DEF Alone
  <2>5. op[t] = "release" /\ ~gone /\ config # -1 /\ at[t] \in loaded => driver'[at[t]] # NoDriver
    BY <1>12 DEF Attach, HandlesAssumption, StepInv
  <2> QED
    BY <2>1, <2>2, <2>3, <2>4, <2>5 DEF BackInv
<1>13. CASE Unbound(t)
  BY <1>13 DEF Unbound, BackInv, Alone, DriverInv, StepInv, Plain, HandlesAssumption
<1>14. CASE Reset(t)
  BY <1>14 DEF Reset, BackInv, Alone, DriverInv, StepInv, Plain, HandlesAssumption
<1>15. CASE Reclaimed(t)
  BY <1>15 DEF Reclaimed, BackInv, Alone, DriverInv, StepInv, Plain, HandlesAssumption
<1>16. CASE Asks(t)
  BY <1>16 DEF Asks, BackInv, Alone, DriverInv, StepInv, Plain, HandlesAssumption
<1>17. CASE SetConfig(t)
  BY <1>17 DEF SetConfig, BackInv, Alone, DriverInv, StepInv, Plain, HandlesAssumption
<1>18. CASE Store(t)
  BY <1>18 DEF Store, BackInv, Alone, DriverInv, StepInv, Plain, HandlesAssumption
<1>19. CASE GetConfig(t)
  <2>1. op' = op /\ at' = at /\ auto' = auto /\ gone' = gone /\ config' = config /\ user' = user /\ driver' = driver
        /\ loaded' = loaded
    BY <1>19 DEF GetConfig
  <2>2. pc[t] = "get_config"
    BY <1>19 DEF GetConfig
  <2>3. pc' = [pc EXCEPT ![t] = "idle"]
    BY <1>19 DEF GetConfig
  <2>4. \A u \in Threads \ {t} : ret'[u] = ret[u]
    BY <1>19 DEF GetConfig
  <2>5. op[t] = "get_config"
    BY <2>2 DEF StepInv, Plain
  <2> QED
    BY <2>1, <2>3, <2>4, <2>5 DEF BackInv, Alone
<1> QED
  BY <1>1, <1>2, <1>3, <1>4, <1>5, <1>6, <1>7, <1>8, <1>9, <1>10, <1>11, <1>12, <1>13, <1>14, <1>15, <1>16,
    <1>17, <1>18, <1>19 DEF Moves

LEMMA NumberInvKeeps ==
  ASSUME HandlesAssumption, ClaimInv, DriverInv, NumberInv, NEW t \in Threads, Moves(t), Types'
  PROVE  NumberInv'
<1> USE DEF ClaimInv, Types, ThreadTypes, HandleTypes, DeviceTypes
<1>1. CASE Begin(t)
  BY <1>1 DEF Begin, Checked, OnInterface, AllCalls, NumberInv, StepInv, Plain, Configs
<1>2. CASE SetAuto(t)
  BY <1>2 DEF SetAuto, NumberInv, StepInv, Plain, Configs
<1>3. CASE Locks(t)
  BY <1>3 DEF Locks, NumberInv, StepInv, Plain, Configs
<1>4. CASE Claims(t)
  BY <1>4 DEF Claims, Bound, ClaimStep, Ends, NumberInv, StepInv, Plain, Configs
<1>5. CASE Fails(t)
  BY <1>5 DEF Fails, Refused, ClaimStep, Ends, NumberInv, StepInv, Plain, Configs
<1>6. CASE Regains(t)
  BY <1>6 DEF Regains, Bound, ClaimStep, NextOne, NumberInv, StepInv, Plain, Configs
<1>7. CASE GivesUp(t)
  BY <1>7 DEF GivesUp, Refused, ClaimStep, NextOne, NumberInv, StepInv, Plain, Configs
<1>8. CASE Loses(t)
  BY <1>8 DEF Loses, ClaimStep, NumberInv, StepInv, Plain, Configs
<1>9. CASE Passes(t)
  BY <1>9 DEF Passes, ClaimStep, NumberInv, StepInv, Plain, Configs
<1>10. CASE GetDriver(t)
  BY <1>10 DEF GetDriver, NumberInv, StepInv, Plain, Configs
<1>11. CASE Release(t)
  BY <1>11 DEF Release, Mine, NumberInv, StepInv, Plain, Configs
<1>12. CASE Attach(t)
  BY <1>12 DEF Attach, NumberInv, StepInv, Plain, Configs
<1>13. CASE Unbound(t)
  BY <1>13 DEF Unbound, NumberInv, StepInv, Plain, Configs
<1>14. CASE Reset(t)
  BY <1>14 DEF Reset, NumberInv, StepInv, Plain, Configs
<1>15. CASE Reclaimed(t)
  BY <1>15 DEF Reclaimed, NumberInv, StepInv, Plain, Configs
<1>16. CASE Asks(t)
  BY <1>16 DEF Asks, NumberInv, StepInv, Plain, Configs
<1>17. CASE SetConfig(t)
  BY <1>17 DEF SetConfig, NumberInv, StepInv, Plain, Configs
<1>18. CASE Store(t)
  BY <1>18 DEF Store, NumberInv, StepInv, Plain, Configs
<1>19. CASE GetConfig(t)
  <2> DEFINE first == CHOOSE c \in Configs : \A d \in Configs : c <= d
             answer == IF config = -1 THEN 0 ELSE config
             read == IF answer = 0 /\ ~has0 THEN -1 ELSE answer
  <2>1. config' = config /\ has0' = has0 /\ at' = at /\ pc' = [pc EXCEPT ![t] = "idle"]
    BY <1>19 DEF GetConfig
  <2>2. first \in -1..1
    <3>1. \E c \in Configs : \A d \in Configs : c <= d
      <4>1. CASE has0
        <5>1. 0 \in Configs /\ \A d \in Configs : 0 <= d
          BY <4>1 DEF Configs
        <5> QED
          BY <5>1
      <4>2. CASE ~has0
        <5>1. 1 \in Configs /\ \A d \in Configs : 1 <= d
          BY <4>2 DEF Configs
        <5> QED
          BY <5>1
      <4> QED
        BY <4>1, <4>2
    <3>2. first \in Configs
      BY <3>1
    <3> QED
      BY <3>2 DEF Configs
  <2>3. read \in -1..1
    BY DEF NumberInv, Configs
  <2>4. cached' \in {cached, first, read}
    <3> HIDE DEF first
    <3> QED
      BY <1>19 DEF GetConfig, first
  <2> HIDE DEF first, read
  <2>5. cached' \in -1..1
    BY <2>2, <2>3, <2>4 DEF NumberInv
  <2> QED
    BY <2>1, <2>5 DEF NumberInv, Configs
<1> QED
  BY <1>1, <1>2, <1>3, <1>4, <1>5, <1>6, <1>7, <1>8, <1>9, <1>10, <1>11, <1>12, <1>13, <1>14, <1>15, <1>16,
    <1>17, <1>18, <1>19 DEF Moves

LEMMA ConfigInvKeeps ==
  ASSUME HandlesAssumption, ClaimInv, DriverInv, NumberInv, ConfigInv, NEW t \in Threads, Moves(t), Types'
  PROVE  ConfigInv'
<1> USE DEF ClaimInv, Types, ThreadTypes, HandleTypes, DeviceTypes
<1>1. CASE Begin(t)
  <2>1. PICK o \in AllCalls :
            op' = [op EXCEPT ![t] = o] /\ overlap' = (overlap \/ \E u \in Busy : "set_config" \in {o, op[u]})
    BY <1>1 DEF Begin
  <2>2. /\ pc[t] = "idle" /\ config' = config /\ cached' = cached /\ UNCHANGED featureVars
        /\ \A u \in Threads \ {t} : pc'[u] = pc[u] /\ at'[u] = at[u]
    BY <1>1 DEF Begin
  <2>3. pc'[t] # "store"
    BY <1>1 DEF Begin, AllCalls
  <2>4. ASSUME ~overlap'
        PROVE  ~overlap /\ \A u \in Threads : pc[u] # "idle" => o # "set_config" /\ op[u] # "set_config"
    BY <2>1, <2>4 DEF Busy
  <2> QED
    BY <2>1, <2>2, <2>3, <2>4 DEF ConfigInv, Configs
<1>2. CASE SetAuto(t)
  BY <1>2 DEF SetAuto, ConfigInv, NumberInv, StepInv, Plain, Configs
<1>3. CASE Locks(t)
  BY <1>3 DEF Locks, ConfigInv, NumberInv, StepInv, Plain, Configs
<1>4. CASE Claims(t)
  BY <1>4 DEF Claims, Bound, ClaimStep, Ends, ConfigInv, NumberInv, StepInv, Plain, Configs
<1>5. CASE Fails(t)
  BY <1>5 DEF Fails, Refused, ClaimStep, Ends, ConfigInv, NumberInv, StepInv, Plain, Configs
<1>6. CASE Regains(t)
  BY <1>6 DEF Regains, Bound, ClaimStep, NextOne, ConfigInv, NumberInv, StepInv, Plain, Configs
<1>7. CASE GivesUp(t)
  BY <1>7 DEF GivesUp, Refused, ClaimStep, NextOne, ConfigInv, NumberInv, StepInv, Plain, Configs
<1>8. CASE Loses(t)
  BY <1>8 DEF Loses, ClaimStep, ConfigInv, NumberInv, StepInv, Plain, Configs
<1>9. CASE Passes(t)
  BY <1>9 DEF Passes, ClaimStep, ConfigInv, NumberInv, StepInv, Plain, Configs
<1>10. CASE GetDriver(t)
  BY <1>10 DEF GetDriver, ConfigInv, NumberInv, StepInv, Plain, Configs
<1>11. CASE Release(t)
  BY <1>11 DEF Release, Mine, ConfigInv, NumberInv, StepInv, Plain, Configs
<1>12. CASE Attach(t)
  BY <1>12 DEF Attach, ConfigInv, NumberInv, StepInv, Plain, Configs
<1>13. CASE Unbound(t)
  BY <1>13 DEF Unbound, ConfigInv, NumberInv, StepInv, Plain, Configs
<1>14. CASE Reset(t)
  BY <1>14 DEF Reset, ConfigInv, NumberInv, StepInv, Plain, Configs
<1>15. CASE Reclaimed(t)
  BY <1>15 DEF Reclaimed, ConfigInv, NumberInv, StepInv, Plain, Configs
<1>16. CASE Asks(t)
  BY <1>16 DEF Asks, ConfigInv, NumberInv, StepInv, Plain, Configs
<1>17. CASE SetConfig(t)
  BY <1>17 DEF SetConfig, ConfigInv, NumberInv, StepInv, Plain, Configs
<1>18. CASE Store(t)
  BY <1>18 DEF Store, ConfigInv, NumberInv, StepInv, Plain, Configs
<1>19. CASE GetConfig(t)
  BY <1>19 DEF GetConfig, ConfigInv, NumberInv, StepInv, Plain, Configs
<1> QED
  BY <1>1, <1>2, <1>3, <1>4, <1>5, <1>6, <1>7, <1>8, <1>9, <1>10, <1>11, <1>12, <1>13, <1>14, <1>15, <1>16,
    <1>17, <1>18, <1>19 DEF Moves

\* The inductive invariant.
HandlesInv == ClaimInv /\ DriverInv /\ NumberInv /\ RobInv /\ GoneInv /\ BackInv /\ ConfigInv

\* The first state.
LEMMA HandlesInit ==
  ASSUME HandlesAssumption, Init
  PROVE  HandlesInv /\ RealInv
<1> USE DEF Init
<1>1. Types
  <2>1. ThreadTypes
    BY DEF ThreadTypes, Labels, Results
  <2>2. HandleTypes
    <3>1. auto \in [Handles -> BOOLEAN]
      OBVIOUS
    <3> QED
      BY <3>1 DEF HandleTypes
  <2>3. DeviceTypes
    <3>1. user \in [Threads -> Handles] /\ menu.ops \subseteq AllCalls /\ menu.on \subseteq Interfaces
      BY DEF HandlesAssumption
    <3>2. driver \in [Interfaces -> Handles \cup {NoDriver, Kernel}]
      OBVIOUS
    <3>3. sysfs \in BOOLEAN /\ has0 \in BOOLEAN /\ stalls \in BOOLEAN
      OBVIOUS
    <3> QED
      BY <3>1, <3>2, <3>3 DEF DeviceTypes
  <2> QED
    BY <2>1, <2>2, <2>3 DEF Types
<1>2. StepInv /\ LockInv /\ WorkInv
  BY DEF StepInv, LockInv, Locked, WorkInv, Reclaiming, Releasing, Plain
<1>3. BoundInv
  BY DEF BoundInv, HandlesAssumption
<1>4. RealInv
  BY DEF RealInv
<1>5. DriverInv /\ RobInv /\ GoneInv
  BY DEF DriverInv, RobInv, GoneInv
<1>6. NumberInv /\ ConfigInv
  <2>1. 1 \in Configs
    BY DEF Configs
  <2> QED
    BY <2>1 DEF NumberInv, ConfigInv
<1>7. BackInv
  BY DEF BackInv
<1> QED
  BY <1>1, <1>2, <1>3, <1>4, <1>5, <1>6, <1>7 DEF HandlesInv, ClaimInv

\* What a step of a thread keeps.
LEMMA ThreadsKeep ==
  ASSUME HandlesAssumption, HandlesInv, NEW t \in Threads, Begin(t) \/ Call(t)
  PROVE  HandlesInv' /\ ("EIO" \notin ResetErrors /\ RealInv => RealInv')
<1> USE DEF HandlesInv
<1>1. Moves(t)
  BY ThreadMoves
<1>2. Types'
  BY <1>1, ThreadTypesKeeps, HandleTypesKeeps, DeviceTypesKeeps DEF Types
<1>3. StepInv' /\ LockInv' /\ WorkInv' /\ BoundInv'
  BY <1>1, <1>2, StepInvKeeps, LockInvKeeps, WorkInvKeeps, BoundInvKeeps
<1>4. DriverInv' /\ NumberInv' /\ RobInv' /\ GoneInv' /\ BackInv' /\ ConfigInv'
  BY <1>1, <1>2, DriverInvKeeps, NumberInvKeeps, RobInvKeeps, GoneInvKeeps, BackInvKeeps, ConfigInvKeeps
<1>5. "EIO" \notin ResetErrors /\ RealInv => RealInv'
  BY <1>1, <1>2, RealInvKeeps
<1> QED
  BY <1>2, <1>3, <1>4, <1>5 DEF ClaimInv

\* What the kernel, the device and the event thread keep: a driver binds itself, or
\* the device goes and is noticed.
LEMMA OthersKeep ==
  ASSUME HandlesAssumption, HandlesInv, (\E i \in Interfaces : KernelBinds(i)) \/ Unplug \/ Notice \/ UNCHANGED vars
  PROVE  HandlesInv' /\ (RealInv => RealInv')
<1> DEFINE Still == UNCHANGED <<threadVars, lock, claimed, auto, menu, user, newKernel, sysfs, has0, stalls, history,
                                config, cached>>
<1> USE DEF HandlesInv, ClaimInv
<1>1. ASSUME NEW i \in Interfaces, KernelBinds(i) PROVE HandlesInv' /\ (RealInv => RealInv')
  <2>1. Still /\ gone' = gone /\ attached' = attached /\ config # -1
    BY <1>1 DEF KernelBinds
  <2>2. /\ driver' = driver \/ (driver' = [driver EXCEPT ![i] = Kernel] /\ driver[i] = NoDriver)
        /\ loaded' = loaded \cup {i} /\ driver'[i] # NoDriver
    BY <1>1 DEF KernelBinds, Types, DeviceTypes, HandlesAssumption
  <2>3. Types'
    BY <2>1, <2>2 DEF Types, ThreadTypes, HandleTypes, DeviceTypes
  <2>4. StepInv' /\ LockInv'
    BY <2>1 DEF StepInv, LockInv, Locked
  <2>5. Kernel \notin Handles /\ NoDriver \notin Handles /\ \A t \in Threads : user[t] \in Handles
    BY DEF HandlesAssumption, Types, DeviceTypes
  <2>6. WorkInv'
    BY <2>1, <2>2, <2>5 DEF WorkInv, Reclaiming, Releasing, Types, DeviceTypes, ThreadTypes, StepInv
  <2>7. BoundInv'
    BY <2>1, <2>2, <2>5 DEF BoundInv, Types, DeviceTypes
  <2>8. DriverInv' /\ NumberInv' /\ RobInv' /\ GoneInv' /\ ConfigInv'
    BY <2>1 DEF DriverInv, NumberInv, RobInv, GoneInv, ConfigInv, Configs
  <2>9. BackInv'
    BY <2>1, <2>2 DEF BackInv, Alone, Types, DeviceTypes, HandlesAssumption
  <2>10. RealInv => RealInv'
    BY <2>1, <2>2, <2>5 DEF RealInv, SeenTo, Resetting, Reclaiming, Releasing, Types, DeviceTypes,
      HandleTypes
  <2> QED
    BY <2>3, <2>4, <2>6, <2>7, <2>8, <2>9, <2>10
<1>2. ASSUME Unplug \/ Notice \/ UNCHANGED vars PROVE HandlesInv' /\ (RealInv => RealInv')
  <2>1. Still /\ driver' = driver /\ loaded' = loaded
    BY <1>2 DEF Unplug, Notice, vars
  <2>2. gone' \in BOOLEAN /\ attached' \in BOOLEAN /\ (gone => gone') /\ (~attached' => gone')
    BY <1>2 DEF Unplug, Notice, vars, Types, DeviceTypes, GoneInv
  <2>3. Types'
    BY <2>1, <2>2 DEF Types, ThreadTypes, HandleTypes, DeviceTypes
  <2>4. StepInv' /\ LockInv' /\ WorkInv' /\ BoundInv'
    BY <2>1 DEF StepInv, LockInv, Locked, WorkInv, Reclaiming, Releasing, BoundInv
  <2>5. DriverInv' /\ NumberInv' /\ RobInv' /\ ConfigInv'
    BY <2>1 DEF DriverInv, NumberInv, RobInv, ConfigInv, Configs
  <2>6. GoneInv' /\ BackInv'
    BY <2>1, <2>2 DEF GoneInv, BackInv, Alone
  <2>7. RealInv => RealInv'
    BY <2>1, <2>2 DEF RealInv, SeenTo, Resetting, Reclaiming, Releasing
  <2> QED
    BY <2>3, <2>4, <2>5, <2>6, <2>7
<1> QED
  BY <1>1, <1>2

\* The invariant.
LEMMA HandlesInvHolds == HandlesAssumption => (Spec => []HandlesInv)
<1> SUFFICES ASSUME HandlesAssumption PROVE Spec => []HandlesInv
  OBVIOUS
<1>1. HandlesAssumption /\ Init => HandlesInv
  BY HandlesInit
<1>2. HandlesAssumption /\ HandlesInv /\ [Next]_vars => HandlesInv'
  BY ThreadsKeep, OthersKeep DEF Next
<1> QED
  BY <1>1, <1>2, PTL DEF Spec

\* Whatever calls came beside each other, on any number of handles and threads, the
\* interfaces that claimed_interfaces names are those that usbfs has bound for the
\* handle, unless they were taken away or the device is gone (op_claim_interface,
\* op_release_interface and op_reset_device in linux_usbfs.c); a reset that fails
\* otherwise than with ENODEV is excluded, as it leaves them unbound.
THEOREM ClaimedIsBound ==
  ASSUME HandlesAssumption, "EIO" \notin ResetErrors
  PROVE  Spec => []ClaimsAreReal
<1>1. Init => RealInv
  BY HandlesInit
<1>2. HandlesInv /\ RealInv /\ [Next]_vars => RealInv'
  BY ThreadsKeep, OthersKeep DEF Next
<1>3. HandlesInv /\ RealInv => ClaimsAreReal
  <2> SUFFICES ASSUME HandlesInv, RealInv, NEW h \in Handles, Quiet(h), ~gone
               PROVE  {i \in Interfaces : driver[i] = h} = claimed[h] \ lost[h]
    BY DEF ClaimsAreReal
  <2>1. ASSUME NEW i \in Interfaces, driver[i] = h PROVE i \in claimed[h] \ lost[h]
    BY <2>1 DEF HandlesInv, ClaimInv, BoundInv
  <2>2. ASSUME NEW i \in claimed[h] \ lost[h] PROVE i \in Interfaces /\ driver[i] = h
    <3>1. i \in Interfaces
      BY DEF HandlesInv, ClaimInv, Types, HandleTypes
    <3>2. \A t \in Threads : user[t] = h => ~SeenTo(t, i)
      BY DEF Quiet, SeenTo, Resetting, Reclaiming, Releasing
    <3> QED
      BY <3>1, <3>2 DEF RealInv
  <2> QED
    BY <2>1, <2>2
<1> QED
  BY <1>1, <1>2, <1>3, HandlesInvHolds, PTL DEF Spec

\* What a handle believes, and what was promised.
HandlesAreRight == TypeOK /\ NobodyIsRobbed /\ DriverComesBack /\ NoSuccessWhenGone /\ ConfigIsRemembered

\* What else a handle believes is so, for any number of handles, threads and calls: only
\* the lock's owner claims; no claim takes an interface from another handle where the
\* kernel has DISCONNECT_CLAIM; a release with auto-detach leaves a driver behind if one
\* is loaded that takes the interface; no call succeeds that began after the device was
\* known to be gone; and active_config is the configuration of the device, unless calls
\* that set it overlapped or the device does not tell (core.c, linux_usbfs.c).
THEOREM HandlesKnow ==
  ASSUME HandlesAssumption
  PROVE  Spec => []HandlesAreRight
<1>1. HandlesInv => HandlesAreRight
  <2> SUFFICES ASSUME HandlesInv PROVE HandlesAreRight
    OBVIOUS
  <2> USE DEF HandlesInv, ClaimInv
  <2>1. TypeOK
    BY DEF TypeOK, Types, ThreadTypes, HandleTypes, DeviceTypes, NumberInv, LockInv, Locked
  <2>2. NobodyIsRobbed
    BY DEF NobodyIsRobbed, RobInv
  <2>3. DriverComesBack
    BY DEF DriverComesBack, BackInv, Alone
  <2>4. NoSuccessWhenGone
    BY DEF NoSuccessWhenGone, GoneInv
  <2>5. ConfigIsRemembered
    BY DEF ConfigIsRemembered, ConfigInv
  <2> QED
    BY <2>1, <2>2, <2>3, <2>4, <2>5 DEF HandlesAreRight
<1> QED
  BY <1>1, HandlesInvHolds, PTL

-----------------------------------------------------------------------------
\* --- the processes that look for a device

\* RkScan has variables of its own.
CONSTANTS Procs, Devices, Kind, Maskrom, Plugs, Refusals, None
VARIABLES s_pc, count, handle, chip, maskrom, bus, s_claimed, present, shifted, plugs, refusals
Scan == INSTANCE RkScan WITH pc <- s_pc, claimed <- s_claimed

USE DEF Scan!procVars, Scan!kernelVars, Scan!vars, Scan!OnBus, Scan!Range

\* More than types: the list has no device twice, and the index is bounded by what
\* was taken away since it was a valid one.
Shapes ==
  /\ s_pc \in [Procs -> {"ready", "scan", "claim", "true", "false"}]
  /\ count \in [Procs -> Nat]
  /\ handle \in [Procs -> Devices \cup {None}]
  /\ bus \in Seq(Devices) /\ Scan!IsInjective(bus)
  /\ s_claimed \in [Devices -> Procs \cup {None}]
  /\ plugs \in 0..Plugs /\ refusals \in Nat
  /\ \A p \in Procs : count[p] =< Len(bus) + plugs
  /\ DOMAIN maskrom = Procs /\ DOMAIN present = Procs /\ DOMAIN shifted = Procs

\* A process that has found a device has it in its hands until the claim of it fails.
OwnInv ==
  \A p \in Procs :
    /\ s_pc[p] \in {"ready", "scan"} => handle[p] = None
    /\ s_pc[p] = "ready" => count[p] = 0
    /\ s_pc[p] \in {"claim", "true"} => handle[p] \in Devices
    /\ s_pc[p] = "true" => maskrom[p] = (handle[p] \in Maskrom)
    /\ s_pc[p] = "true" /\ handle[p] \in Scan!OnBus => s_claimed[handle[p]] = p

\* While nothing is taken away and every open succeeds, the devices that were there
\* when the scan began are still there, and the index has passed none it could use.
FindInv ==
  \A p \in Procs : ~shifted[p] /\ refusals = 0 =>
    /\ s_pc[p] = "scan" => /\ present[p] \subseteq Scan!OnBus
                         /\ \A i \in 1..Len(bus) : i =< count[p] /\ bus[i] \in present[p] => ~Scan!Rockchip(bus[i])
    /\ s_pc[p] = "false" /\ handle[p] = None => \A d \in present[p] : ~Scan!Rockchip(d)

ScanInv == Shapes /\ OwnInv /\ FindInv

-----------------------------------------------------------------------------
\* The list after a device was plugged in, and after one was taken away.
LEMMA InFront ==
  ASSUME NEW S, NEW s \in Seq(S), NEW d \in S, Scan!IsInjective(s), d \notin Scan!Range(s)
  PROVE  /\ <<d>> \o s \in Seq(S) /\ Len(<<d>> \o s) = Len(s) + 1 /\ Scan!IsInjective(<<d>> \o s)
         /\ (<<d>> \o s)[1] = d
         /\ \A i \in 1..Len(s) : (<<d>> \o s)[i + 1] = s[i]
<1> DEFINE r == <<d>> \o s
<1>1. r \in Seq(S) /\ Len(r) = Len(s) + 1 /\ Len(s) \in Nat
  BY ConcatProperties
<1>2. r[1] = d /\ \A i \in 2..Len(s) + 1 : r[i] = s[i - 1]
  BY ConcatProperties
<1>3. DOMAIN r = 1..Len(s) + 1 /\ DOMAIN s = 1..Len(s)
  BY <1>1
<1> HIDE DEF r
<1>4. \A i \in 1..Len(s) : r[i + 1] = s[i]
  BY <1>1, <1>2
<1>5. \A i \in 1..Len(s) : s[i] # d
  BY <1>3
<1>6. Scan!IsInjective(r)
  <2> SUFFICES ASSUME NEW i \in 1..Len(s) + 1, NEW j \in 1..Len(s) + 1, r[i] = r[j] PROVE i = j
    BY <1>3 DEF Scan!IsInjective
  <2>1. CASE i = 1 \/ j = 1
    BY <1>1, <1>2, <1>5, <2>1
  <2>2. CASE i # 1 /\ j # 1
    <3>1. i - 1 \in DOMAIN s /\ j - 1 \in DOMAIN s /\ s[i - 1] = s[j - 1]
      BY <1>1, <1>2, <1>3, <2>2
    <3>2. i - 1 = j - 1
      BY <3>1 DEF Scan!IsInjective
    <3> QED
      BY <3>2
  <2> QED
    BY <2>1, <2>2
<1> QED
  BY <1>1, <1>2, <1>4, <1>6 DEF r

LEMMA TakenOut ==
  ASSUME NEW S, NEW s \in Seq(S), NEW i \in 1..Len(s), Scan!IsInjective(s)
  PROVE  /\ Scan!RemoveAt(s, i) \in Seq(S) /\ Len(Scan!RemoveAt(s, i)) = Len(s) - 1
         /\ Scan!IsInjective(Scan!RemoveAt(s, i))
         /\ Scan!Range(Scan!RemoveAt(s, i)) \subseteq Scan!Range(s) \ {s[i]}
<1> DEFINE a == SubSeq(s, 1, i - 1)
           b == SubSeq(s, i + 1, Len(s))
           r == Scan!RemoveAt(s, i)
<1>0. Len(s) \in Nat /\ DOMAIN s = 1..Len(s)
  OBVIOUS
<1>1. a \in Seq(S) /\ Len(a) = i - 1 /\ \A j \in 1..i - 1 : a[j] = s[j]
  OBVIOUS
<1>2. b \in Seq(S) /\ Len(b) = Len(s) - i /\ \A j \in 1..Len(s) - i : b[j] = s[i + j]
  OBVIOUS
<1>3. r = a \o b
  BY DEF Scan!RemoveAt
<1> HIDE DEF a, b, r
<1>4. r \in Seq(S) /\ Len(r) = Len(s) - 1 /\ DOMAIN r = 1..Len(s) - 1
  <2>1. r \in Seq(S) /\ Len(r) = Len(a) + Len(b)
    BY <1>1, <1>2, <1>3, ConcatProperties
  <2>2. DOMAIN r = 1..Len(r)
    BY <2>1
  <2> QED
    BY <2>1, <2>2, <1>0, <1>1, <1>2
<1> DEFINE At(j) == IF j < i THEN j ELSE j + 1
<1>5. ASSUME NEW j \in 1..Len(s) - 1 PROVE At(j) \in DOMAIN s /\ At(j) # i /\ r[j] = s[At(j)]
  <2>1. CASE j < i
    BY <1>0, <1>1, <1>2, <1>3, <2>1, ConcatProperties
  <2>2. CASE j >= i
    <3>1. r[j] = b[j - Len(a)]
      BY <2>2, <1>1, <1>2, <1>3, ConcatProperties
    <3>2. j - Len(a) = j - i + 1 /\ j - i + 1 \in 1..Len(s) - i
      BY <2>2, <1>1
    <3>3. i + (j - i + 1) = j + 1
      OBVIOUS
    <3>4. r[j] = s[j + 1]
      BY <3>1, <3>2, <3>3, <1>2
    <3> QED
      BY <1>0, <2>2, <3>4
  <2> QED
    BY <2>1, <2>2, <1>0
<1>6. \A j, k \in 1..Len(s) - 1 : At(j) = At(k) => j = k
  BY <1>0
<1> HIDE DEF At
<1>7. Scan!IsInjective(r)
  BY <1>4, <1>5, <1>6 DEF Scan!IsInjective
<1>8. Scan!Range(r) \subseteq Scan!Range(s) \ {s[i]}
  BY <1>0, <1>4, <1>5 DEF Scan!IsInjective
<1> QED
  BY <1>4, <1>7, <1>8 DEF r

-----------------------------------------------------------------------------
\* A step of one process changes what it has in its hands and nothing of the others.
LEMMA ProcessKeeps ==
  ASSUME Scan!ScanAssumption, ScanInv, NEW p \in Procs,
         Scan!Begin(p) \/ Scan!Look(p) \/ Scan!NotFound(p) \/ Scan!Claim(p) \/ Scan!End(p)
  PROVE  ScanInv'
<1>0. Shapes /\ OwnInv /\ FindInv /\ Len(bus) \in Nat /\ DOMAIN bus = 1..Len(bus)
  BY DEF ScanInv, Shapes
<1>1. CASE Scan!Begin(p)
  <2> USE <1>1 DEF Scan!Begin
  <2>1. count[p] = 0
    BY <1>0 DEF OwnInv
  <2>2. Shapes' /\ OwnInv'
    BY <1>0 DEF Shapes, OwnInv
  <2>3. FindInv'
    BY <1>0, <2>1 DEF Shapes, FindInv, Scan!Rockchip
  <2> QED
    BY <2>2, <2>3 DEF ScanInv
<1>2. CASE Scan!Look(p)
  <2> DEFINE d == bus[count[p] + 1]
  <2>1. /\ s_pc[p] = "scan" /\ count[p] < Len(bus) /\ count[p] \in Nat
        /\ d \in Devices /\ Scan!Opens(d) \in {1, 2} /\ count[p] + 1 \in 1..Len(bus)
    BY <1>0, <1>2 DEF Scan!Look, Shapes, Scan!Opens
  <2>2. UNCHANGED <<maskrom, bus, s_claimed, present, shifted, plugs>>
    BY <1>2 DEF Scan!Look, Scan!Found
  <2>3. \/ /\ handle' = [handle EXCEPT ![p] = d] /\ s_pc' = [s_pc EXCEPT ![p] = "claim"] /\ count' = count
           /\ refusals' \in {refusals, refusals + 1}
        \/ /\ count' = [count EXCEPT ![p] = @ + 1] /\ UNCHANGED <<s_pc, handle>>
           /\ \/ ~Scan!Rockchip(d) /\ refusals' = refusals
              \/ refusals' = refusals + Scan!Opens(d)
    BY <1>2 DEF Scan!Look, Scan!Found
  <2> HIDE DEF d
  <2>4. refusals' \in Nat /\ (refusals' = 0 => refusals = 0)
    BY <1>0, <2>1, <2>3 DEF Shapes
  <2>5. Shapes' /\ OwnInv'
    <3>1. CASE handle' = [handle EXCEPT ![p] = d] /\ s_pc' = [s_pc EXCEPT ![p] = "claim"] /\ count' = count
      <4>1. Shapes'
        BY <1>0, <2>1, <2>2, <2>4, <3>1 DEF Shapes
      <4>2. OwnInv'
        BY <1>0, <2>1, <2>2, <3>1 DEF Shapes, OwnInv
      <4> QED
        BY <4>1, <4>2
    <3>2. CASE count' = [count EXCEPT ![p] = @ + 1] /\ UNCHANGED <<s_pc, handle>>
      <4>1. Shapes'
        BY <1>0, <2>1, <2>2, <2>4, <3>2 DEF Shapes
      <4>2. OwnInv'
        BY <1>0, <2>1, <2>2, <3>2 DEF Shapes, OwnInv
      <4> QED
        BY <4>1, <4>2
    <3> QED
      BY <2>3, <3>1, <3>2
  <2>6. FindInv'
    <3> SUFFICES ASSUME NEW q \in Procs, ~shifted'[q], refusals' = 0
                 PROVE  /\ s_pc'[q] = "scan" =>
                            /\ present'[q] \subseteq Scan!OnBus'
                            /\ \A i \in 1..Len(bus') :
                                 i =< count'[q] /\ bus'[i] \in present'[q] => ~Scan!Rockchip(bus'[i])
                        /\ s_pc'[q] = "false" /\ handle'[q] = None => \A e \in present'[q] : ~Scan!Rockchip(e)
      BY DEF FindInv
    <3>1. CASE q # p
      <4>1. s_pc'[q] = s_pc[q] /\ count'[q] = count[q] /\ handle'[q] = handle[q]
        BY <1>0, <2>3, <3>1 DEF Shapes
      <4> QED
        BY <1>0, <2>2, <2>4, <4>1 DEF FindInv
    <3>2. CASE q = p
      <4>1. CASE s_pc'[p] = "claim"
        BY <3>2, <4>1
      <4>2. CASE s_pc'[p] # "claim"
        <5>1. count'[p] = count[p] + 1 /\ s_pc'[p] = "scan" /\ ~Scan!Rockchip(d)
          BY <1>0, <2>1, <2>3, <2>4, <4>2 DEF Shapes
        <5>2. \A i \in 1..Len(bus) : i =< count[p] + 1 => i =< count[p] \/ bus[i] = d
          BY <2>1 DEF d
        <5> QED
          BY <1>0, <2>1, <2>2, <2>4, <3>2, <5>1, <5>2 DEF FindInv
      <4> QED
        BY <4>1, <4>2
    <3> QED
      BY <3>1, <3>2
  <2> QED
    BY <2>5, <2>6 DEF ScanInv
<1>3. CASE Scan!NotFound(p)
  <2> USE <1>3 DEF Scan!NotFound
  <2>1. Shapes' /\ OwnInv'
    BY <1>0 DEF Shapes, OwnInv
  <2>2. ~shifted[p] /\ refusals = 0 => \A d \in present[p] : ~Scan!Rockchip(d)
    <3> SUFFICES ASSUME ~shifted[p], refusals = 0, NEW d \in present[p] PROVE ~Scan!Rockchip(d)
      OBVIOUS
    <3>1. PICK i \in 1..Len(bus) : d = bus[i]
      BY <1>0 DEF FindInv
    <3>2. i =< count[p]
      BY <1>0, <3>1 DEF Shapes
    <3> QED
      BY <1>0, <3>1, <3>2 DEF FindInv
  <2>3. FindInv'
    BY <1>0, <2>2 DEF Shapes, FindInv, Scan!Rockchip
  <2> QED
    BY <2>1, <2>3 DEF ScanInv
<1>4. CASE Scan!Claim(p)
  <2>1. /\ s_pc[p] = "claim" /\ handle[p] \in Devices
        /\ UNCHANGED <<count, handle, chip, bus, present, shifted, plugs, refusals>>
    BY <1>0, <1>4 DEF Scan!Claim, OwnInv
  <2>2. \/ /\ handle[p] \in Scan!OnBus /\ s_claimed[handle[p]] \notin Procs
           /\ s_claimed' = [s_claimed EXCEPT ![handle[p]] = p]
           /\ maskrom' = [maskrom EXCEPT ![p] = handle[p] \in Maskrom]
           /\ s_pc' = [s_pc EXCEPT ![p] = "true"]
        \/ s_pc' = [s_pc EXCEPT ![p] = "false"] /\ UNCHANGED <<s_claimed, maskrom>>
    BY <1>4 DEF Scan!Claim
  <2>3. Shapes'
    <3>1. s_claimed' \in [Devices -> Procs \cup {None}] /\ DOMAIN maskrom' = Procs
      BY SMTT(30), <1>0, <2>1, <2>2 DEF Shapes
    <3>2. s_pc' \in [Procs -> {"ready", "scan", "claim", "true", "false"}]
      BY SMTT(30), <1>0, <2>2 DEF Shapes
    <3> QED
      BY <1>0, <2>1, <3>1, <3>2 DEF Shapes
  <2>4. OwnInv'
    BY <1>0, <2>1, <2>2 DEF Shapes, OwnInv
  <2>5. FindInv'
    <3>1. \A q \in Procs : /\ s_pc'[q] = "scan" => s_pc[q] = "scan"
                           /\ s_pc'[q] = "false" /\ handle[q] = None => s_pc[q] = "false"
      BY <1>0, <2>1, <2>2 DEF Shapes, Scan!ScanAssumption
    <3> QED
      BY <1>0, <2>1, <3>1 DEF FindInv, Scan!Rockchip
  <2> QED
    BY <2>3, <2>4, <2>5 DEF ScanInv
<1>5. CASE Scan!End(p)
  <2> USE <1>5 DEF Scan!End
  <2>1. Shapes'
    BY <1>0 DEF Shapes
  <2>2. OwnInv'
    BY <1>0 DEF Shapes, OwnInv
  <2>3. \A q \in Procs : /\ s_pc'[q] = "scan" => s_pc[q] = "scan"
                         /\ s_pc'[q] = "false" => s_pc[q] = "false" /\ handle'[q] = handle[q]
                         /\ count'[q] = count[q] \/ s_pc'[q] # "scan"
    BY <1>0 DEF Shapes
  <2>4. FindInv'
    BY <1>0, <2>3 DEF FindInv, Scan!Rockchip
  <2> QED
    BY <2>1, <2>2, <2>4 DEF ScanInv
<1> QED
  BY <1>1, <1>2, <1>3, <1>4, <1>5

LEMMA BusKeeps ==
  ASSUME Scan!ScanAssumption, ScanInv, NEW d \in Devices, Scan!Plug(d) \/ Scan!Unplug(d)
  PROVE  ScanInv'
<1>0. Shapes /\ OwnInv /\ FindInv /\ Len(bus) \in Nat /\ DOMAIN bus = 1..Len(bus)
  BY DEF ScanInv, Shapes
<1>1. CASE Scan!Plug(d)
  <2>1. /\ d \notin Scan!OnBus /\ ~Scan!InUse(d) /\ plugs < Plugs /\ plugs' = plugs + 1
        /\ bus' = <<d>> \o bus /\ s_claimed' = [s_claimed EXCEPT ![d] = None]
        /\ UNCHANGED <<Scan!procVars, present, shifted, refusals>>
    BY <1>1 DEF Scan!Plug
  <2>2. /\ bus' \in Seq(Devices) /\ Len(bus') = Len(bus) + 1 /\ Scan!IsInjective(bus')
        /\ bus'[1] = d /\ \A i \in 1..Len(bus) : bus'[i + 1] = bus[i]
    <3> HIDE DEF Scan!Range
    <3>1. bus \in Seq(Devices) /\ Scan!IsInjective(bus) /\ d \notin Scan!Range(bus)
      BY <1>0, <2>1 DEF Shapes
    <3> DEFINE r == <<d>> \o bus
    <3>2. /\ r \in Seq(Devices) /\ Len(r) = Len(bus) + 1 /\ Scan!IsInjective(r)
          /\ r[1] = d /\ \A i \in 1..Len(bus) : r[i + 1] = bus[i]
      BY <3>1, InFront
    <3> QED
      BY <2>1, <3>2
  <2>3. DOMAIN bus' = 1..Len(bus) + 1
    BY <2>2
  <2>4. Scan!OnBus' = Scan!OnBus \cup {d}
    <3>1. \A i \in 1..Len(bus) + 1 : i = 1 \/ (i - 1 \in 1..Len(bus) /\ bus'[i] = bus[i - 1])
      BY <1>0, <2>2
    <3>2. \A i \in 1..Len(bus) : i + 1 \in 1..Len(bus) + 1
      BY <1>0
    <3>3. ASSUME NEW e \in Scan!OnBus' PROVE e \in Scan!OnBus \cup {d}
      BY SMTT(30), <1>0, <2>2, <2>3, <3>1, <3>3
    <3>4. ASSUME NEW e \in Scan!OnBus PROVE e \in Scan!OnBus'
      BY SMTT(30), <1>0, <2>2, <2>3, <3>2, <3>4
    <3>5. d \in Scan!OnBus'
      BY <1>0, <2>2, <2>3
    <3> QED
      BY <3>3, <3>4, <3>5
  <2>5. Shapes'
    BY <1>0, <2>1, <2>2, Scan!ScanAssumption DEF Shapes, Scan!ScanAssumption
  <2>6. OwnInv'
    BY <1>0, <2>1, <2>4 DEF Shapes, OwnInv, Scan!InUse
  <2>7. FindInv'
    <3> SUFFICES ASSUME NEW p \in Procs, ~shifted[p], refusals = 0, s_pc[p] = "scan"
                 PROVE  /\ present[p] \subseteq Scan!OnBus'
                        /\ \A i \in 1..Len(bus') : i =< count[p] /\ bus'[i] \in present[p] => ~Scan!Rockchip(bus'[i])
      BY <1>0, <2>1 DEF FindInv, Scan!Rockchip
    <3>1. present[p] \subseteq Scan!OnBus /\ d \notin present[p]
      BY <1>0, <2>1 DEF FindInv
    <3>2. ASSUME NEW i \in 1..Len(bus'), i =< count[p], bus'[i] \in present[p] PROVE ~Scan!Rockchip(bus'[i])
      <4>1. i # 1 /\ i - 1 \in 1..Len(bus) /\ bus'[i] = bus[i - 1] /\ i - 1 =< count[p]
        BY <1>0, <2>2, <3>1, <3>2 DEF Shapes
      <4> QED
        BY <1>0, <3>2, <4>1 DEF FindInv
    <3> QED
      BY <2>4, <3>1, <3>2
  <2> QED
    BY <2>5, <2>6, <2>7 DEF ScanInv
<1>2. CASE Scan!Unplug(d)
  <2>1. PICK i \in DOMAIN bus : bus[i] = d /\ bus' = Scan!RemoveAt(bus, i)
    BY <1>2 DEF Scan!Unplug
  <2>2. /\ plugs < Plugs /\ plugs' = plugs + 1 /\ s_claimed' = [s_claimed EXCEPT ![d] = None]
        /\ present' = [p \in Procs |-> present[p] \ {d}] /\ shifted' = [p \in Procs |-> TRUE]
        /\ UNCHANGED <<Scan!procVars, refusals>>
    BY <1>2 DEF Scan!Unplug
  <2>3. /\ bus' \in Seq(Devices) /\ Len(bus') = Len(bus) - 1 /\ Scan!IsInjective(bus')
        /\ Scan!Range(bus') \subseteq Scan!Range(bus) \ {d}
    <3>1. bus \in Seq(Devices) /\ Scan!IsInjective(bus) /\ i \in 1..Len(bus)
      BY <1>0, <2>1 DEF Shapes
    <3> DEFINE r == Scan!RemoveAt(bus, i)
    <3>2. /\ r \in Seq(Devices) /\ Len(r) = Len(bus) - 1 /\ Scan!IsInjective(r)
          /\ Scan!Range(r) \subseteq Scan!Range(bus) \ {bus[i]}
      BY <3>1, TakenOut, Zenon
    <3> QED
      BY <2>1, <3>2
  <2>4. Shapes'
    BY <1>0, <2>2, <2>3 DEF Shapes, Scan!ScanAssumption
  <2>5. OwnInv'
    BY <1>0, <2>2, <2>3 DEF Shapes, OwnInv
  <2>6. FindInv'
    BY <2>2 DEF FindInv
  <2> QED
    BY <2>4, <2>5, <2>6 DEF ScanInv
<1> QED
  BY <1>1, <1>2

LEMMA ScanInvHolds == Scan!ScanAssumption => (Scan!Spec => []ScanInv)
<1> SUFFICES ASSUME Scan!ScanAssumption PROVE Scan!Spec => []ScanInv
  OBVIOUS
<1>1. ASSUME Scan!Init PROVE ScanInv
  <2>1. PICK k \in 0..Scan!Cardinality(Devices) : bus \in [1..k -> Devices]
    BY <1>1 DEF Scan!Init
  <2>2. bus \in Seq(Devices)
    BY <2>1 DEF Scan!ScanAssumption
  <2>3. Len(bus) \in Nat /\ DOMAIN bus = 1..Len(bus)
    BY <2>2
  <2>4. Shapes
    BY <1>1, <2>2, <2>3 DEF Scan!Init, Shapes, Scan!ScanAssumption
  <2>5. OwnInv /\ FindInv
    BY <1>1 DEF Scan!Init, OwnInv, FindInv
  <2> QED
    BY <2>4, <2>5 DEF ScanInv
<1>2. ASSUME ScanInv, UNCHANGED Scan!vars PROVE ScanInv'
  BY <1>2 DEF ScanInv, Shapes, OwnInv, FindInv, Scan!Rockchip
<1>3. ScanInv /\ [Scan!Next]_Scan!vars => ScanInv'
  BY <1>2, ProcessKeeps, BusKeeps DEF Scan!Next
<1> QED
  BY <1>1, <1>3, PTL DEF Scan!Spec

\* A process whose init returned true has the interface of its device for itself and
\* knows its mode, and a scan overlooks no device that is there all the time unless one
\* is taken away or an open fails (RK_usb::init): for any number of processes and
\* devices, plugged in and taken away in any order.
THEOREM ScanFindsAndOwns == Scan!ScanAssumption => (Scan!Spec => []Scan!FindsAndOwns)
<1> SUFFICES ASSUME Scan!ScanAssumption PROVE Scan!Spec => []Scan!FindsAndOwns
  OBVIOUS
<1>1. ASSUME ScanInv PROVE Scan!FindsAndOwns
  <2>1. Scan!TypeOK
    BY <1>1 DEF ScanInv, Shapes, Scan!TypeOK, Scan!ScanAssumption
  <2>2. Scan!OwnsItsDevice
    BY <1>1 DEF ScanInv, OwnInv, Scan!OwnsItsDevice
  <2>3. Scan!FindsWhatIsThere
    BY <1>1 DEF ScanInv, FindInv, Scan!FindsWhatIsThere
  <2> QED
    BY <2>1, <2>2, <2>3 DEF Scan!FindsAndOwns
<1> QED
  BY <1>1, ScanInvHolds, PTL
==============================================================================
