----------------------------- MODULE UsbContexts ----------------------------
(***************************************************************************)
(* The life of libusb contexts: libusb_init_context, libusb_exit and       *)
(* libusb_set_option of core.c, op_init and op_exit of linux_usbfs.c, and  *)
(* the udev monitor that linux_udev.c starts for the first context and     *)
(* stops after the last.  default_context_lock covers an initialisation    *)
(* and all of an exit but the freeing; the monitor thread and the polls of *)
(* libusb_get_device_list run beside them.                                 *)
(***************************************************************************)
EXTENDS Naturals, FiniteSets

CONSTANTS Threads,        \* application threads
          Ctxs,           \* bound: struct libusb_context objects, each used once
          Calls,          \* bound on the contexts one thread initialises
          Faults,         \* bound on the calls of the system that fail
          NoDiscovery,    \* a thread may ask for LIBUSB_OPTION_NO_DEVICE_DISCOVERY
          SetsLive,       \* a thread may set that option with a NULL context that stands for one
          PollsAlways,    \* a thread with a context without discovery may list devices, too
          NoOne, NoCtx, Default, Monitor

\* The threads and contexts of a process, none of them the names of something else.
ContextsAssumption ==
  /\ IsFiniteSet(Threads) /\ {NoOne, Monitor} \cap Threads = {} /\ NoOne # Monitor
  /\ IsFiniteSet(Ctxs) /\ {NoCtx, Default} \cap Ctxs = {} /\ NoCtx # Default
  /\ {NoDiscovery, SetsLive, PollsAlways} \subseteq BOOLEAN

VARIABLES lock,                     \* default_context_lock
          hotplug,                  \* linux_hotplug_lock
          pc, own, cur, calls,      \* threads: what each uses and is working on
          polled,                   \* the monitor a poll has read
          ctx, active,              \* contexts, active_contexts_list
          default, refcnt, fallback,\* usbi_default_context, default_context_refcnt, usbi_fallback_context
          option,                   \* default_context_options has NO_DEVICE_DISCOVERY
          initCount,                \* init_count
          udev, thread,             \* the monitor and its thread
          faults

lockVars == <<lock, hotplug>>
threadVars == <<pc, own, cur, calls, polled>>
ctxVars == <<ctx, active>>
defaultVars == <<default, refcnt, fallback, option>>
udevVars == <<initCount, udev, thread>>
vars == <<lockVars, threadVars, ctxVars, defaultVars, udevVars, faults>>

-----------------------------------------------------------------------------
Fresh == [state |-> "unused", noDiscovery |-> FALSE]
NoUdev == [monitor |-> "none", control |-> FALSE]

Goto(t, l) == pc' = [pc EXCEPT ![t] = l]
MayFail == faults < Faults /\ faults' = faults + 1
Works == UNCHANGED faults

\* usbi_get_context(NULL)
Implicit == IF default # NoCtx THEN default ELSE fallback

\* libusb_init_context with a NULL pointer while the default context is in use.
ReuseDefault(t) ==
  /\ pc[t] = "idle" /\ own[t] = NoCtx /\ calls[t] < Calls /\ lock = NoOne /\ refcnt > 0
  /\ refcnt' = refcnt + 1
  /\ own' = [own EXCEPT ![t] = Default]
  /\ calls' = [calls EXCEPT ![t] = @ + 1]
  /\ UNCHANGED <<lockVars, pc, cur, polled, ctxVars, default, fallback, option, udevVars, faults>>

\* A context is allocated and gets its options: the defaults, then the caller's.
Allocate(t) ==
  /\ pc[t] = "idle" /\ own[t] = NoCtx /\ calls[t] < Calls /\ lock = NoOne
  /\ \E x \in Ctxs : ctx[x].state = "unused"
  /\ LET c == CHOOSE x \in Ctxs : ctx[x].state = "unused"
     IN \E asDefault \in BOOLEAN, asked \in (IF NoDiscovery THEN BOOLEAN ELSE {FALSE}) :
          /\ asDefault => refcnt = 0
          /\ ctx' = [ctx EXCEPT ![c] = [state |-> "init", noDiscovery |-> option \/ asked]]
          /\ cur' = [cur EXCEPT ![t] = c]
          /\ own' = [own EXCEPT ![t] = IF asDefault THEN Default ELSE c]
          /\ IF asDefault THEN default' = c /\ refcnt' = 1 ELSE UNCHANGED <<default, refcnt>>
  /\ lock' = t
  /\ calls' = [calls EXCEPT ![t] = @ + 1]
  /\ Goto(t, "io")
  /\ UNCHANGED <<hotplug, polled, active, fallback, option, udevVars, faults>>

\* usbi_io_init, and the context is one of the active ones.
IoInit(t) ==
  /\ pc[t] = "io"
  /\ \/ /\ Works /\ hotplug # Monitor
        /\ active' = active \cup {cur[t]}
        /\ Goto(t, "backend")
     \/ MayFail /\ Goto(t, "err_free") /\ UNCHANGED active
  /\ UNCHANGED <<lockVars, own, cur, calls, polled, ctx, defaultVars, udevVars>>

\* op_init: the kernel and usbfs are looked at; without discovery that is all.
BackendInit(t) ==
  /\ pc[t] = "backend"
  /\ \/ Works /\ Goto(t, IF ctx[cur[t]].noDiscovery THEN "done" ELSE IF initCount = 0 THEN "start" ELSE "scan")
     \/ MayFail /\ Goto(t, "err_io")
  /\ UNCHANGED <<lockVars, own, cur, calls, polled, ctxVars, defaultVars, udevVars>>

\* linux_udev_start_event_monitor: whatever fails, what was made is released.
StartMonitor(t) ==
  /\ pc[t] = "start"
  /\ \/ Works /\ udev' = [monitor |-> "open", control |-> FALSE] /\ thread' = "running" /\ Goto(t, "scan")
     \/ MayFail /\ Goto(t, "err_io") /\ UNCHANGED <<udev, thread>>
  /\ UNCHANGED <<lockVars, own, cur, calls, polled, ctxVars, defaultVars, initCount>>

\* The first scan counts the context; if it fails the monitor is of no use.
Scan(t) ==
  /\ pc[t] = "scan" /\ hotplug = NoOne
  /\ \/ Works /\ initCount' = initCount + 1 /\ Goto(t, "done")
     \/ MayFail /\ UNCHANGED initCount /\ Goto(t, IF initCount = 0 THEN "err_stop" ELSE "err_io")
  /\ UNCHANGED <<lockVars, own, cur, calls, polled, ctxVars, defaultVars, udev, thread>>

\* The first context of its own is the one functions called with NULL fall back to.
InitDone(t) ==
  /\ pc[t] = "done"
  /\ ctx' = [ctx EXCEPT ![cur[t]].state = "live"]
  /\ fallback' = IF own[t] # Default /\ fallback = NoCtx THEN cur[t] ELSE fallback
  /\ lock' = NoOne
  /\ cur' = [cur EXCEPT ![t] = NoCtx]
  /\ Goto(t, "idle")
  /\ UNCHANGED <<hotplug, own, calls, polled, active, default, refcnt, option, udevVars, faults>>

\* err_io_exit
InitUndone(t) ==
  /\ pc[t] = "err_io" /\ hotplug # Monitor
  /\ active' = active \ {cur[t]}
  /\ Goto(t, "err_free")
  /\ UNCHANGED <<lockVars, own, cur, calls, polled, ctx, defaultVars, udevVars, faults>>

\* err_free_ctx
InitFailed(t) ==
  /\ pc[t] = "err_free"
  /\ IF own[t] = Default THEN default' = NoCtx /\ refcnt' = 0 ELSE UNCHANGED <<default, refcnt>>
  /\ ctx' = [ctx EXCEPT ![cur[t]].state = "freed"]
  /\ own' = [own EXCEPT ![t] = NoCtx]
  /\ cur' = [cur EXCEPT ![t] = NoCtx]
  /\ lock' = NoOne
  /\ Goto(t, "idle")
  /\ UNCHANGED <<hotplug, calls, polled, active, fallback, option, udevVars, faults>>

-----------------------------------------------------------------------------
\* libusb_exit: the default context only goes with its last user.
ExitShared(t) ==
  /\ pc[t] = "idle" /\ own[t] = Default /\ lock = NoOne /\ refcnt > 1
  /\ refcnt' = refcnt - 1
  /\ own' = [own EXCEPT ![t] = NoCtx]
  /\ UNCHANGED <<lockVars, pc, cur, calls, polled, ctxVars, default, fallback, option, udevVars, faults>>

\* Mutant: nobody counts the users of the default context.
ExitUncounted(t) ==
  /\ pc[t] = "idle" /\ own[t] # NoCtx /\ lock = NoOne /\ hotplug # Monitor
  /\ LET c == IF own[t] = Default THEN default ELSE own[t]
     IN c # NoCtx /\ active' = active \ {c} /\ cur' = [cur EXCEPT ![t] = c]
  /\ refcnt' = IF own[t] = Default THEN 0 ELSE refcnt
  /\ lock' = t
  /\ Goto(t, "exit")
  /\ UNCHANGED <<hotplug, own, calls, polled, ctx, default, fallback, option, udevVars, faults>>

Exit(t) ==
  /\ pc[t] = "idle" /\ own[t] # NoCtx /\ lock = NoOne /\ hotplug # Monitor
  /\ own[t] = Default => refcnt = 1
  /\ LET c == IF own[t] = Default THEN default ELSE own[t]
     IN active' = active \ {c} /\ cur' = [cur EXCEPT ![t] = c]
  /\ refcnt' = IF own[t] = Default THEN 0 ELSE refcnt
  /\ lock' = t
  /\ Goto(t, "exit")
  /\ UNCHANGED <<hotplug, own, calls, polled, ctx, default, fallback, option, udevVars, faults>>

\* op_exit: the last context that was scanned for stops the monitor.
BackendExit(t) ==
  /\ pc[t] = "exit"
  /\ IF ctx[cur[t]].noDiscovery THEN UNCHANGED initCount /\ Goto(t, "free")
     ELSE initCount' = initCount - 1 /\ Goto(t, IF initCount = 1 THEN "stop" ELSE "free")
  /\ UNCHANGED <<lockVars, own, cur, calls, polled, ctxVars, defaultVars, udev, thread, faults>>

\* linux_udev_stop_event_monitor: the thread is told to end and waited for.
StopSignal(t) ==
  /\ pc[t] \in {"stop", "err_stop"}
  /\ udev' = [udev EXCEPT !.control = TRUE]
  /\ Goto(t, IF pc[t] = "stop" THEN "join" ELSE "err_join")
  /\ UNCHANGED <<lockVars, own, cur, calls, polled, ctxVars, defaultVars, initCount, thread, faults>>

\* Then the monitor is freed, without linux_hotplug_lock.
StopJoin(t) ==
  /\ pc[t] \in {"join", "err_join"} /\ thread = "ended"
  /\ udev' = [udev EXCEPT !.monitor = "freed"]
  /\ Goto(t, IF pc[t] = "join" THEN "forget" ELSE "err_forget")
  /\ UNCHANGED <<lockVars, own, cur, calls, polled, ctxVars, defaultVars, initCount, thread, faults>>

\* And its pointer is cleared.
StopForget(t) ==
  /\ pc[t] \in {"forget", "err_forget"}
  /\ udev' = NoUdev
  /\ thread' = "none"
  /\ Goto(t, IF pc[t] = "forget" THEN "free" ELSE "err_io")
  /\ UNCHANGED <<lockVars, own, cur, calls, polled, ctxVars, defaultVars, initCount, faults>>

\* The context is freed, and is nobody's default or fallback any more.
ExitDone(t) ==
  /\ pc[t] = "free"
  /\ ctx' = [ctx EXCEPT ![cur[t]].state = "freed"]
  /\ default' = IF own[t] = Default THEN NoCtx ELSE default
  /\ fallback' = IF fallback = own[t] THEN NoCtx ELSE fallback
  /\ own' = [own EXCEPT ![t] = NoCtx]
  /\ cur' = [cur EXCEPT ![t] = NoCtx]
  /\ lock' = NoOne
  /\ Goto(t, "idle")
  /\ UNCHANGED <<hotplug, calls, polled, active, refcnt, option, udevVars, faults>>

-----------------------------------------------------------------------------
\* libusb_set_option with a NULL context: a default, and the option of the context
\* that NULL stands for.
SetDefaultOption(t) ==
  /\ SetsLive \/ Implicit = NoCtx
  /\ pc[t] = "idle" /\ lock = NoOne /\ ~option
  /\ option' = TRUE
  /\ ctx' = IF Implicit = NoCtx THEN ctx ELSE [ctx EXCEPT ![Implicit].noDiscovery = TRUE]
  /\ UNCHANGED <<lockVars, threadVars, active, default, refcnt, fallback, udevVars, faults>>

\* libusb_get_device_list polls the monitor, under linux_hotplug_lock.
PollEnter(t) ==
  /\ pc[t] = "idle" /\ own[t] # NoCtx /\ hotplug = NoOne
  /\ PollsAlways \/ ~ctx[IF own[t] = Default THEN default ELSE own[t]].noDiscovery
  /\ hotplug' = t
  /\ polled' = [polled EXCEPT ![t] = udev.monitor]
  /\ Goto(t, "poll")
  /\ UNCHANGED <<lock, own, cur, calls, ctxVars, defaultVars, udevVars, faults>>

PollLeave(t) ==
  /\ pc[t] = "poll"
  /\ hotplug' = NoOne
  /\ polled' = [polled EXCEPT ![t] = "none"]
  /\ Goto(t, "idle")
  /\ UNCHANGED <<lock, own, cur, calls, ctxVars, defaultVars, udevVars, faults>>

\* The monitor thread: an event is handled for every active context.
MonitorEnter ==
  /\ thread = "running" /\ hotplug = NoOne
  /\ hotplug' = Monitor
  /\ UNCHANGED <<lock, threadVars, ctxVars, defaultVars, udevVars, faults>>

MonitorLeave ==
  /\ hotplug = Monitor
  /\ hotplug' = NoOne
  /\ UNCHANGED <<lock, threadVars, ctxVars, defaultVars, udevVars, faults>>

\* It ends when it is told to, or when poll() fails.
MonitorEnds ==
  /\ thread = "running" /\ hotplug # Monitor
  /\ \/ udev.control /\ Works
     \/ MayFail
  /\ thread' = "ended"
  /\ UNCHANGED <<lockVars, threadVars, ctxVars, defaultVars, initCount, udev>>

-----------------------------------------------------------------------------
Init ==
  /\ lock = NoOne /\ hotplug = NoOne
  /\ pc = [t \in Threads |-> "idle"] /\ own = [t \in Threads |-> NoCtx] /\ cur = [t \in Threads |-> NoCtx]
  /\ calls = [t \in Threads |-> 0] /\ polled = [t \in Threads |-> "none"]
  /\ ctx = [c \in Ctxs |-> Fresh] /\ active = {}
  /\ default = NoCtx /\ refcnt = 0 /\ fallback = NoCtx /\ option = FALSE
  /\ initCount = 0 /\ udev = NoUdev /\ thread = "none" /\ faults = 0

Begin(t) == ReuseDefault(t) \/ Allocate(t) \/ SetDefaultOption(t) \/ PollEnter(t)
Go(t) == IoInit(t) \/ BackendInit(t) \/ StartMonitor(t) \/ Scan(t) \/ InitDone(t) \/ InitUndone(t) \/ InitFailed(t)
         \/ BackendExit(t) \/ StopSignal(t) \/ StopJoin(t) \/ StopForget(t) \/ ExitDone(t) \/ PollLeave(t)

Next == \/ \E t \in Threads : Begin(t) \/ Go(t) \/ ExitShared(t) \/ Exit(t)
        \/ MonitorEnter \/ MonitorLeave \/ MonitorEnds

Spec == Init /\ [][Next]_vars

-----------------------------------------------------------------------------
\* Properties.

TypeOK ==
  /\ lock \in Threads \cup {NoOne} /\ hotplug \in Threads \cup {Monitor, NoOne}
  /\ own \in [Threads -> Ctxs \cup {NoCtx, Default}] /\ cur \in [Threads -> Ctxs \cup {NoCtx}]
  /\ \A c \in Ctxs : ctx[c].state \in {"unused", "init", "live", "freed"}
  /\ active \subseteq Ctxs /\ default \in Ctxs \cup {NoCtx} /\ fallback \in Ctxs \cup {NoCtx}
  /\ refcnt \in 0..Cardinality(Threads) /\ initCount \in 0..Cardinality(Ctxs)
  /\ udev.monitor \in {"none", "open", "freed"} /\ thread \in {"none", "running", "ended"}

Live == {c \in Ctxs : ctx[c].state = "live"}

\* Between two calls, init_count is the number of contexts that look for devices,
\* and the monitor and its thread exist exactly as long as there is one, whatever
\* failed and whoever came first.
MonitorWhileNeeded ==
  lock = NoOne =>
    /\ initCount = Cardinality({c \in Live : ~ctx[c].noDiscovery})
    /\ udev.monitor = (IF initCount > 0 THEN "open" ELSE "none")
    /\ (thread = "none") <=> (initCount = 0)

\* One user's libusb_exit leaves the contexts of the others alone: the context a
\* thread uses, the ones the monitor thread goes through, the default and the
\* fallback are never freed ones.
UsersAreIndependent ==
  /\ \A t \in Threads : pc[t] \in {"idle", "poll"} /\ own[t] # NoCtx =>
       (IF own[t] = Default THEN default # NoCtx /\ ctx[default].state = "live" ELSE ctx[own[t]].state = "live")
  /\ \A c \in active : ctx[c].state \in {"init", "live"}
  /\ lock = NoOne => {default, fallback} \ {NoCtx} \subseteq Live
  /\ lock = NoOne => refcnt = Cardinality({t \in Threads : own[t] = Default})

\* The monitor a poll has in its hands, and the one its thread waits on, is not
\* freed.
MonitorNotFreed ==
  /\ \A t \in Threads : polled[t] = "open" => udev.monitor = "open"
  /\ thread = "running" => udev.monitor = "open"
=============================================================================
