------------------------------ MODULE UsbHandles -----------------------------
(***************************************************************************)
(* What is done with an open device: interfaces are claimed, released and  *)
(* reset, kernel drivers detached and attached, the configuration is set   *)
(* and read (core.c, linux_usbfs.c).  A call is a sequence of steps, and   *)
(* every call of the kernel is one of them.  Several threads may use one   *)
(* handle; another handle may be that of another process.                  *)
(*                                                                         *)
(* usbfs and the drivers of the kernel are external: an interface has one  *)
(* driver, which is none, the one of the kernel or usbfs for a handle.     *)
(***************************************************************************)
EXTENDS Integers, FiniteSets

CONSTANTS
    Threads,
    Handles,      \* struct libusb_device_handle
    Users,        \* which handles the threads may have: functions from threads
    Interfaces,   \* numbers: 0 .. USB_MAXINTERFACES - 1 in the code
    Menus,        \* what happens beside each other: [ops, on], calls (and "unplug") and interfaces
    Calls,        \* bound on the calls of a behaviour
    Binds,        \* bound on the drivers of the kernel that bind themselves
    ResetErrors,  \* how IOCTL_USBFS_RESET may fail: "ENODEV", "EIO"
    NoThread, NoDriver, Kernel

\* The calls there are, and what a thread may use.
AllCalls == {"claim", "release", "alt", "clear_halt", "reset", "streams", "dev_mem", "active", "detach",
             "attach", "auto", "set_config", "get_config", "unplug"}
HandlesAssumption ==
    /\ Interfaces \subseteq Nat /\ Users \subseteq [Threads -> Handles]
    /\ \A m \in Menus : m.ops \subseteq AllCalls /\ m.on \subseteq Interfaces
    /\ NoThread \notin Threads
    /\ {NoDriver, Kernel} \cap Handles = {} /\ NoDriver # Kernel

VARIABLES
    pc, op, at, ret,      \* threads: step, call, interface, and what the last one returned
    todo,                 \* threads: interfaces that a reset has still to go through
    began,                \* threads: `attached' when the call began
    calls, binds,
    lock,                 \* handles: who has dev_handle->lock
    claimed,              \* handles: claimed_interfaces
    auto,                 \* handles: auto_detach_kernel_driver
    attached,             \* dev->attached
    cached,               \* priv->active_config
    gone,                 \* kernel: the device is no longer there
    driver,               \* kernel: the driver of each interface
    config,               \* device: its configuration, -1 when unconfigured
    menu, user,           \* the calls that are made, and with which handles
    newKernel,            \* kernel: it has DISCONNECT_CLAIM
    loaded,               \* kernel: the interfaces that a loaded driver takes
    sysfs, has0, stalls,  \* there is a sysfs_dir; the device has a configuration 0, and refuses GET_CONFIGURATION
    lost, robbed,         \* history: interfaces that were taken from a handle, by a claim of another
    overlap               \* history: the configuration was set beside another call

threadVars == <<pc, op, at, ret, todo, began>>
handleVars == <<lock, claimed, auto>>
kernelVars == <<gone, driver, config>>
featureVars == <<menu, user, newKernel, sysfs, has0, stalls, loaded>>
history == <<lost, robbed, overlap>>
vars == <<threadVars, calls, binds, handleVars, attached, cached, kernelVars, featureVars, history>>

H(t) == user[t]
Mine(t) == driver[at[t]] = H(t)
Goto(t, l) == pc' = [pc EXCEPT ![t] = l]
Return(t, r) == Goto(t, "idle") /\ ret' = [ret EXCEPT ![t] = r]
Unlock(t) == lock' = [lock EXCEPT ![H(t)] = NoThread]
Busy == {t \in Threads : pc[t] # "idle"}

-----------------------------------------------------------------------------

\* The calls that look at dev->attached first.
Checked == {"claim", "alt", "clear_halt", "reset", "streams", "dev_mem", "active", "detach", "attach"}
OnInterface == {"claim", "release", "alt", "active", "detach", "attach"}

\* A call begins.
Begin(t) ==
    /\ pc[t] = "idle" /\ calls < Calls
    /\ calls' = calls + 1
    /\ \E o \in menu.ops \ {"unplug"} : \E i \in IF o \in OnInterface THEN menu.on ELSE {0} :
         /\ op' = [op EXCEPT ![t] = o] /\ at' = [at EXCEPT ![t] = i]
         /\ began' = [began EXCEPT ![t] = attached]
         /\ IF o \in Checked /\ ~attached THEN Return(t, "NO_DEVICE") /\ UNCHANGED todo
            ELSE /\ Goto(t, CASE o \in {"claim", "release", "alt"} -> "lock"
                              [] o = "reset" -> "unbind"
                              [] o = "detach" -> "getdriver"
                              [] OTHER -> o)
                 /\ ret' = [ret EXCEPT ![t] = "none"]
                 /\ todo' = [todo EXCEPT ![t] = IF o = "reset" THEN Interfaces ELSE {}]
         /\ overlap' = (overlap \/ \E u \in Busy : "set_config" \in {o, op[u]})
    /\ UNCHANGED <<binds, handleVars, attached, cached, kernelVars, featureVars, lost, robbed>>

\* libusb_set_auto_detach_kernel_driver
SetAuto(t) ==
    /\ pc[t] = "auto"
    /\ auto' = [auto EXCEPT ![H(t)] = ~@]
    /\ Return(t, "OK")
    /\ UNCHANGED <<op, at, todo, began, calls, binds, lock, claimed, attached, cached, kernelVars, featureVars, history>>

\* The handle's lock is taken, and claimed_interfaces looked at.
Lock(t) ==
    /\ pc[t] = "lock" /\ lock[H(t)] = NoThread
    /\ LET has == at[t] \in claimed[H(t)]
       IN CASE op[t] = "claim" /\ has -> Return(t, "OK") /\ UNCHANGED lock
            [] op[t] = "claim" /\ ~has -> /\ Goto(t, IF auto[H(t)] THEN "claim_detach" ELSE "claim")
                                          /\ lock' = [lock EXCEPT ![H(t)] = t] /\ UNCHANGED ret
            [] op[t] = "release" /\ has -> Goto(t, "release") /\ lock' = [lock EXCEPT ![H(t)] = t] /\ UNCHANGED ret
            [] op[t] = "alt" /\ has -> Goto(t, "alt") /\ UNCHANGED <<lock, ret>>
            [] op[t] = "reset" -> Goto(t, "reset") /\ lock' = [lock EXCEPT ![H(t)] = t] /\ UNCHANGED ret
            [] OTHER -> Return(t, "NOT_FOUND") /\ UNCHANGED lock
    /\ UNCHANGED <<op, at, todo, began, calls, binds, claimed, auto, attached, cached, kernelVars, featureVars, history>>

-----------------------------------------------------------------------------
\* What follows a claim: of libusb_claim_interface, or of a reset for one interface.
ClaimDone(t, r) ==
    IF op[t] = "claim"
    THEN /\ claimed' = [claimed EXCEPT ![H(t)] = IF r = "OK" THEN @ \cup {at[t]} ELSE @]
         /\ Unlock(t) /\ Return(t, r) /\ UNCHANGED todo
    ELSE /\ claimed' = [claimed EXCEPT ![H(t)] = IF r = "OK" THEN @ ELSE @ \ {at[t]}]
         /\ ret' = [ret EXCEPT ![t] = IF r = "OK" THEN @ ELSE "NOT_FOUND"]
         /\ todo' = [todo EXCEPT ![t] = @ \ {at[t]}]
         /\ Goto(t, "reclaim") /\ UNCHANGED lock

\* CLAIMINTERFACE
ClaimInterface(t) ==
    /\ pc[t] = "claim"
    /\ LET r == IF gone THEN "NO_DEVICE" ELSE IF config = -1 THEN "NOT_FOUND"
                ELSE IF driver[at[t]] \in {NoDriver, H(t)} THEN "OK" ELSE "BUSY"
       IN /\ driver' = IF r = "OK" THEN [driver EXCEPT ![at[t]] = H(t)] ELSE driver
          /\ lost' = IF r = "OK" THEN [lost EXCEPT ![H(t)] = @ \ {at[t]}] ELSE lost
          /\ ClaimDone(t, r)
    /\ UNCHANGED <<op, at, began, calls, binds, auto, attached, cached, gone, config, featureVars, robbed, overlap>>

\* DISCONNECT_CLAIM: any driver but usbfs has to go; an old kernel does not know it.
DisconnectClaim(t) ==
    /\ pc[t] = "claim_detach"
    /\ LET r == IF gone THEN "NO_DEVICE" ELSE IF config = -1 THEN "INVALID_PARAM"
                ELSE IF driver[at[t]] \in Handles THEN "BUSY" ELSE "OK"
       IN IF newKernel
          THEN /\ driver' = IF r = "OK" THEN [driver EXCEPT ![at[t]] = H(t)] ELSE driver
               /\ lost' = IF r = "OK" THEN [lost EXCEPT ![H(t)] = @ \ {at[t]}] ELSE lost
               /\ ClaimDone(t, r)
          ELSE Goto(t, "getdriver") /\ UNCHANGED <<driver, lost, ret, todo, lock, claimed>>
    /\ UNCHANGED <<op, at, began, calls, binds, auto, attached, cached, gone, config, featureVars, robbed, overlap>>

\* op_detach_kernel_driver: usbfs is not a driver of the kernel ...
GetDriver(t) ==
    /\ pc[t] = "getdriver"
    /\ IF ~gone /\ driver[at[t]] \in Handles
       THEN IF op[t] = "detach" THEN Return(t, "NOT_FOUND") ELSE Goto(t, "claim") /\ UNCHANGED ret
       ELSE Goto(t, "disconnect") /\ UNCHANGED ret
    /\ UNCHANGED <<op, at, todo, began, calls, binds, handleVars, attached, cached, kernelVars, featureVars, history>>

\* ... and DISCONNECT unbinds whatever is bound by then.
Disconnect(t) ==
    /\ pc[t] = "disconnect"
    /\ LET d == driver[at[t]]
           r == IF gone THEN "NO_DEVICE" ELSE IF d = NoDriver THEN "NOT_FOUND" ELSE "OK"
       IN /\ driver' = IF r = "OK" THEN [driver EXCEPT ![at[t]] = NoDriver] ELSE driver
          /\ lost' = IF r = "OK" /\ d \in Handles THEN [lost EXCEPT ![d] = @ \cup {at[t]}] ELSE lost
          /\ robbed' = (robbed \/ (r = "OK" /\ d \in Handles /\ op[t] # "detach"))
          /\ CASE op[t] = "detach" -> Return(t, r) /\ UNCHANGED <<todo, lock, claimed>>
               [] op[t] # "detach" /\ r = "NO_DEVICE" -> ClaimDone(t, r)
               [] OTHER -> Goto(t, "claim") /\ UNCHANGED <<ret, todo, lock, claimed>>
    /\ UNCHANGED <<op, at, began, calls, binds, auto, attached, cached, gone, config, featureVars, overlap>>

\* RELEASEINTERFACE; with auto-detach the driver of the kernel is attached again.
Release(t) ==
    /\ pc[t] = "release"
    /\ LET r == IF gone THEN "NO_DEVICE" ELSE IF Mine(t) THEN "OK" ELSE "OTHER"
       IN /\ driver' = IF r = "OK" THEN [driver EXCEPT ![at[t]] = NoDriver] ELSE driver
          /\ IF r = "OK" /\ auto[H(t)] THEN Goto(t, "attach") /\ UNCHANGED <<ret, lock, claimed>>
             ELSE /\ claimed' = [claimed EXCEPT ![H(t)] = IF r = "OK" THEN @ \ {at[t]} ELSE @]
                  /\ Unlock(t) /\ Return(t, r)
    /\ UNCHANGED <<op, at, todo, began, calls, binds, auto, attached, cached, gone, config, featureVars, history>>

\* CONNECT: a driver of the kernel is looked for, and there may be none that takes the
\* interface; what comes of it does not count in a release.
Attach(t) ==
    /\ pc[t] = "attach"
    /\ LET r == IF gone THEN "NO_DEVICE" ELSE IF config = -1 THEN "INVALID_PARAM"
                ELSE IF driver[at[t]] # NoDriver THEN "BUSY"
                ELSE IF at[t] \notin loaded THEN "NOT_FOUND" ELSE "OK"
       IN /\ driver' = IF r = "OK" THEN [driver EXCEPT ![at[t]] = Kernel] ELSE driver
          /\ IF op[t] = "release"
             THEN claimed' = [claimed EXCEPT ![H(t)] = @ \ {at[t]}] /\ Unlock(t) /\ Return(t, "OK")
             ELSE Return(t, r) /\ UNCHANGED <<lock, claimed>>
    /\ UNCHANGED <<op, at, todo, began, calls, binds, auto, attached, cached, gone, config, featureVars, history>>

\* GETDRIVER for libusb_kernel_driver_active.
Active(t) ==
    /\ pc[t] = "active"
    /\ Return(t, IF gone THEN "NO_DEVICE" ELSE IF driver[at[t]] = Kernel THEN "1" ELSE "0")
    /\ UNCHANGED <<op, at, todo, began, calls, binds, handleVars, attached, cached, kernelVars, featureVars, history>>

-----------------------------------------------------------------------------
\* op_reset_device: usbfs is unbound from the claimed interfaces, before the lock.
Unbind(t) ==
    /\ pc[t] = "unbind"
    /\ IF todo[t] = {} THEN Goto(t, "lock") /\ UNCHANGED <<todo, driver>>
       ELSE LET i == CHOOSE x \in todo[t] : \A y \in todo[t] : x <= y
            IN /\ todo' = [todo EXCEPT ![t] = @ \ {i}]
               /\ driver' = IF i \in claimed[H(t)] /\ ~gone /\ driver[i] = H(t) THEN [driver EXCEPT ![i] = NoDriver] ELSE driver
               /\ UNCHANGED pc
    /\ UNCHANGED <<op, at, ret, began, calls, binds, handleVars, attached, cached, gone, config, featureVars, history>>

\* RESET unbinds usbfs from the interfaces of every handle.
Reset(t) ==
    /\ pc[t] = "reset"
    /\ \/ /\ ~gone
          /\ driver' = [i \in Interfaces |-> IF driver[i] \in Handles THEN NoDriver ELSE driver[i]]
          /\ lost' = [h \in Handles |-> IF h = H(t) THEN lost[h] ELSE lost[h] \cup {i \in Interfaces : driver[i] = h}]
          /\ todo' = [todo EXCEPT ![t] = Interfaces]
          /\ ret' = [ret EXCEPT ![t] = "OK"]
          /\ Goto(t, "reclaim") /\ UNCHANGED <<lock, gone>>
       \/ /\ gone \/ "ENODEV" \in ResetErrors      \* it does not come back as the same device
          /\ gone' = TRUE
          /\ Unlock(t) /\ Return(t, "NOT_FOUND") /\ UNCHANGED <<driver, lost, todo>>
       \/ /\ ~gone /\ "EIO" \in ResetErrors
          /\ Unlock(t) /\ Return(t, "OTHER") /\ UNCHANGED <<driver, lost, todo, gone>>
    /\ UNCHANGED <<op, at, began, calls, binds, claimed, auto, attached, cached, config, featureVars, robbed, overlap>>

\* Mutant: only the interfaces without a driver are claimed again, the others are
\* taken to be ours.
ReclaimFree(t) ==
    /\ pc[t] = "reclaim"
    /\ LET rest == {i \in todo[t] \cap claimed[H(t)] : driver[i] = NoDriver}
       IN IF rest = {} THEN Unlock(t) /\ Goto(t, "idle") /\ todo' = [todo EXCEPT ![t] = {}] /\ UNCHANGED at
          ELSE /\ at' = [at EXCEPT ![t] = CHOOSE x \in rest : \A y \in rest : x <= y]
               /\ Goto(t, "claim_detach") /\ UNCHANGED <<todo, lock>>
    /\ UNCHANGED <<op, ret, began, calls, binds, claimed, auto, attached, cached, kernelVars, featureVars, history>>

\* What was claimed is claimed again.
Reclaim(t) ==
    /\ pc[t] = "reclaim"
    /\ LET rest == todo[t] \cap claimed[H(t)]
       IN IF rest = {} THEN Unlock(t) /\ Goto(t, "idle") /\ todo' = [todo EXCEPT ![t] = {}] /\ UNCHANGED at
          ELSE /\ at' = [at EXCEPT ![t] = CHOOSE x \in rest : \A y \in rest : x <= y]
               /\ Goto(t, "claim_detach") /\ UNCHANGED <<todo, lock>>
    /\ UNCHANGED <<op, ret, began, calls, binds, claimed, auto, attached, cached, kernelVars, featureVars, history>>

-----------------------------------------------------------------------------
\* SETINTERFACE, CLEAR_HALT, ALLOC_STREAMS, FREE_STREAMS, and the mapping of memory:
\* what the kernel says, without a lock.
SetAlt(t) ==
    /\ pc[t] = "alt"
    /\ Return(t, IF gone THEN "NO_DEVICE" ELSE IF Mine(t) THEN "OK" ELSE "NOT_FOUND")
    /\ UNCHANGED <<op, at, todo, began, calls, binds, handleVars, attached, cached, kernelVars, featureVars, history>>

ClearHalt(t) ==
    /\ pc[t] = "clear_halt"
    /\ \E r \in {"OK", "NOT_FOUND", "OTHER"} : Return(t, IF gone THEN "NO_DEVICE" ELSE r)
    /\ UNCHANGED <<op, at, todo, began, calls, binds, handleVars, attached, cached, kernelVars, featureVars, history>>

Streams(t) ==
    /\ pc[t] = "streams"
    /\ \E r \in {"OK", "NOT_SUPPORTED", "INVALID_PARAM", "NO_MEM"} :
         Return(t, IF gone /\ r # "NO_MEM" THEN "NO_DEVICE" ELSE r)
    /\ UNCHANGED <<op, at, todo, began, calls, binds, handleVars, attached, cached, kernelVars, featureVars, history>>

DevMem(t) ==
    /\ pc[t] = "dev_mem"
    /\ \E r \in {"OK", "NULL"} : Return(t, IF gone THEN "NULL" ELSE r)
    /\ UNCHANGED <<op, at, todo, began, calls, binds, handleVars, attached, cached, kernelVars, featureVars, history>>

-----------------------------------------------------------------------------
\* The configurations of the device, one of them with the number 0 at times.
Configs == IF has0 THEN {0, 1} ELSE {1}

\* SETCONFIGURATION: not while an interface has a driver; 0 and -1 unconfigure the
\* device, unless it has a configuration 0.
SetConfig(t) ==
    /\ pc[t] = "set_config"
    /\ \E c \in {-1, 0, 1, 2} :
         LET r == IF gone THEN "NO_DEVICE" ELSE IF c = 2 THEN "NOT_FOUND"
                  ELSE IF \E i \in Interfaces : driver[i] # NoDriver THEN "BUSY" ELSE "OK"
         IN IF r = "OK"
            THEN /\ config' = IF c \in Configs THEN c ELSE -1
                 /\ at' = [at EXCEPT ![t] = c] /\ Goto(t, "store") /\ UNCHANGED ret
            ELSE Return(t, r) /\ UNCHANGED <<config, at>>
    /\ UNCHANGED <<op, todo, began, calls, binds, handleVars, attached, cached, gone, driver, featureVars, history>>

\* Without sysfs the number is kept for the active configuration descriptor.
Store(t) ==
    /\ pc[t] = "store"
    /\ cached' = CASE sysfs -> cached [] ~sysfs /\ at[t] = 0 /\ ~has0 -> -1 [] OTHER -> at[t]
    /\ at' = [at EXCEPT ![t] = 0] /\ Return(t, "OK")
    /\ UNCHANGED <<op, todo, began, calls, binds, handleVars, attached, kernelVars, featureVars, history>>

\* sysfs, or a GET_CONFIGURATION that the device may refuse: then it is the first one.
\* 0 is returned for an unconfigured device, too.
GetConfig(t) ==
    /\ pc[t] = "get_config"
    /\ LET answer == IF config = -1 THEN 0 ELSE config
           first == CHOOSE c \in Configs : \A d \in Configs : c <= d
           read == IF answer = 0 /\ ~has0 THEN -1 ELSE answer
       IN CASE sysfs /\ gone -> Return(t, "NO_DEVICE") /\ UNCHANGED cached
            [] sysfs /\ ~gone -> Return(t, "OK") /\ UNCHANGED cached
            [] ~sysfs /\ gone -> Return(t, "NO_DEVICE") /\ UNCHANGED cached
            [] OTHER -> cached' = (IF stalls THEN first ELSE read) /\ Return(t, "OK")
    /\ UNCHANGED <<op, at, todo, began, calls, binds, handleVars, attached, kernelVars, featureVars, history>>

-----------------------------------------------------------------------------
\* A module is loaded, and its driver binds itself where there is no other.
KernelBinds(i) ==
    /\ ~gone /\ config # -1 /\ (driver[i] = NoDriver \/ i \notin loaded) /\ binds < Binds
    /\ loaded' = loaded \cup {i}
    /\ driver' = IF driver[i] = NoDriver THEN [driver EXCEPT ![i] = Kernel] ELSE driver
    /\ binds' = binds + 1
    /\ UNCHANGED <<threadVars, calls, handleVars, attached, cached, gone, config,
                   menu, user, newKernel, sysfs, has0, stalls, history>>

\* The device is unplugged; the event thread notices later.
Unplug ==
    /\ ~gone /\ "unplug" \in menu.ops
    /\ gone' = TRUE
    /\ UNCHANGED <<threadVars, calls, binds, handleVars, attached, cached, driver, config, featureVars, history>>

Notice ==
    /\ gone /\ attached
    /\ attached' = FALSE
    /\ UNCHANGED <<threadVars, calls, binds, handleVars, cached, kernelVars, featureVars, history>>

Init ==
    /\ menu \in Menus /\ user \in Users /\ newKernel \in BOOLEAN
    /\ pc = [t \in Threads |-> "idle"] /\ op = [t \in Threads |-> "none"] /\ at = [t \in Threads |-> 0]
    /\ ret = [t \in Threads |-> "none"] /\ todo = [t \in Threads |-> {}] /\ began = [t \in Threads |-> TRUE]
    /\ calls = 0 /\ binds = 0
    /\ lock = [h \in Handles |-> NoThread] /\ claimed = [h \in Handles |-> {}]
    /\ auto \in (IF "release" \in menu.ops THEN [Handles -> BOOLEAN] ELSE [Handles -> {FALSE}])
    /\ attached = TRUE /\ gone = FALSE
    /\ driver \in {[i \in Interfaces |-> IF i = 0 THEN d ELSE NoDriver] : d \in {NoDriver, Kernel}}
    /\ loaded = {i \in Interfaces : driver[i] = Kernel}
    /\ LET Choice(o) == IF o \in menu.ops THEN BOOLEAN ELSE {FALSE}
       IN sysfs \in Choice("get_config") /\ has0 \in Choice("set_config") /\ stalls \in Choice("get_config")
    /\ config = 1 /\ cached = 1
    /\ lost = [h \in Handles |-> {}] /\ robbed = FALSE /\ overlap = FALSE

Call(t) ==
    \/ Lock(t) \/ SetAuto(t)
    \/ ClaimInterface(t) \/ DisconnectClaim(t) \/ GetDriver(t) \/ Disconnect(t) \/ Release(t) \/ Attach(t) \/ Active(t)
    \/ Unbind(t) \/ Reset(t) \/ Reclaim(t)
    \/ SetAlt(t) \/ ClearHalt(t) \/ Streams(t) \/ DevMem(t)
    \/ SetConfig(t) \/ Store(t) \/ GetConfig(t)

Next == (\E t \in Threads : Begin(t) \/ Call(t)) \/ (\E i \in Interfaces : KernelBinds(i)) \/ Unplug \/ Notice

Spec == Init /\ [][Next]_vars

-----------------------------------------------------------------------------
TypeOK ==
    /\ lock \in [Handles -> Threads \cup {NoThread}] /\ claimed \in [Handles -> SUBSET Interfaces]
    /\ driver \in [Interfaces -> Handles \cup {NoDriver, Kernel}] /\ todo \in [Threads -> SUBSET Interfaces]
    /\ loaded \subseteq Interfaces /\ cached \in -1..1 /\ config \in Configs \cup {-1}
    /\ \A t \in Threads : pc[t] \in {"claim", "release", "reset", "reclaim", "claim_detach"} => lock[H(t)] = t

\* Nobody is at work on the handle.
Quiet(h) == \A t \in Threads : H(t) = h => pc[t] = "idle"

\* Whatever calls came beside each other: the interfaces libusb takes for claimed are
\* those usbfs has bound for the handle, unless another program took them away or
\* the device is gone.
ClaimsAreReal ==
    \A h \in Handles : (Quiet(h) /\ ~gone) =>
        {i \in Interfaces : driver[i] = h} = claimed[h] \ lost[h]

\* A claim takes no interface from another handle, where the kernel has
\* DISCONNECT_CLAIM.
NobodyIsRobbed == newKernel => ~robbed

\* With auto-detach a release leaves the interface to a driver of the kernel, if one is
\* loaded that takes it. Without one the interface is left with no driver, and the
\* release returns 0 all the same.
DriverComesBack ==
    \A t \in Threads : (pc[t] = "idle" /\ op[t] = "release" /\ ret[t] = "OK" /\ auto[H(t)] /\ ~gone
                        /\ \A u \in Threads \ {t} : pc[u] = "idle" /\ op[u] = "none")
                       => (at[t] \in loaded => driver[at[t]] # NoDriver)

\* After the library has noticed that the device is gone no call succeeds.
NoSuccessWhenGone == \A t \in Threads : (~began[t] /\ op[t] # "auto") => ret[t] \notin {"OK", "0", "1"}

\* The configuration that is remembered is the one of the device, unless calls that
\* set it were made beside others, or the device does not tell: it
\* refuses to, or calls an unconfigured state and a configuration 0 the same.
ConfigIsRemembered ==
    (~sysfs /\ ~stalls /\ ~overlap /\ ~gone /\ (config = -1 => ~has0) /\ \A t \in Threads : pc[t] # "store") => cached = config
=============================================================================
