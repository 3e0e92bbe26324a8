----------------------------- MODULE UsbEvents -----------------------------
(***************************************************************************)
(* The event core of libusb (io.c, sync.c, events_posix.c, libusb_close of *)
(* core.c and the event side of linux_usbfs.c): every thread opens a       *)
(* handle, makes synchronous transfers on it (allocate, submit, handle     *)
(* events until the transfer has completed, free) and closes the handle.   *)
(* Any thread that waits may become the event handler and complete the     *)
(* transfers of the others.  A closer may close the handle of a victim     *)
(* while the transfer of the victim is in flight, which do_close and       *)
(* sync_transfer_wait_for_completion provide for.                          *)
(*                                                                         *)
(* Granularity: one action per critical section, or per step between two   *)
(* of them.  event_data_lock and event_waiters_lock guard single steps and  *)
(* need no variable.                                                       *)
(* A transfer has the name of the thread that made it, as has its handle;  *)
(* it is one URB here (UsbUrbs has the splitting).                         *)
(***************************************************************************)
EXTENDS Integers, Sequences, FiniteSets, SequencesExt, Functions

CONSTANTS
  Threads,    \* threads that make synchronous transfers
  Closers,    \* threads that only close the handle of a victim
  Victims,    \* threads whose handle a closer closes
  Timeout,    \* Timeout[t]: timeout of the transfers of t, 0 for none
  Calls,      \* bound: transfers made by each thread
  LastInstant,\* bound: the last value of the clock
  Disturbances, \* what may happen: devices unplugged, failures of poll() and of
              \* submissions, interruptions, waits that last a minute, closes
  Cost,       \* Cost[d]: how much of the bound a disturbance takes
  Faults,     \* bound: on what all of them take, with a timerfd and without one
  Timers,     \* what usbi_using_timer may be: whether a timerfd could be created
  NoOne       \* no thread

Actors == Threads \cup Closers

ASSUME EventsAssumption ==
  /\ NoOne \notin Actors
  /\ Threads \cap Closers = {}
  /\ IsFiniteSet(Actors)
  /\ Victims \subseteq Threads
  /\ Timeout \in [Threads -> Nat]
  /\ Timers \subseteq BOOLEAN
  /\ Calls \in Nat /\ LastInstant \in Nat \ {0}

ASSUME FaultsAssumption ==
  /\ \A d \in Disturbances : Cost[d] \in Nat \ {0}
  /\ Faults \in [BOOLEAN -> Nat]

Never == LastInstant + 1          \* a wait with no timeout of its own

VARIABLES
  pc,          \* where each thread is
  after,       \* where it goes on when handle_timeouts or a callee returns
  on,          \* the transfer or handle it works on
  status,      \* the status it is about to report
  until,       \* when its wait for events ends by itself
  reported,    \* usbi_reported_events of the event handler
  xfer,        \* struct usbi_transfer of each thread
  completed,   \* the completed flag on each caller's stack
  result,      \* what the last transfer of each thread returned
  calls,       \* transfers begun by each thread
  flying,      \* ctx->flying_transfers
  flyingLock, eventsLock, lock,   \* owners of the mutexes
  handlerActive,  \* ctx->event_handler_active
  waiting,     \* threads asleep on ctx->event_waiters_cond
  deviceClose, \* ctx->device_close
  eventFlags,  \* ctx->event_flags
  event,       \* the eventfd is readable
  useTimer,    \* usbi_using_timer: the timerfd could be created
  timer,       \* instant the timerfd is armed for, 0 when disarmed
  now,         \* the clock
  sources,     \* handles among ctx->event_sources
  polled,      \* handles in ctx->event_data, the set poll() looks at
  fdOpen,      \* handles that are open
  urb,         \* the URB of each transfer in the kernel
  gone,        \* handles whose device was unplugged
  faults       \* what the disturbances so far took of the bound

threadVars == <<pc, after, on, status, until, reported, result, calls>>
lockVars   == <<flyingLock, eventsLock, lock, waiting, handlerActive>>
flagVars   == <<deviceClose, eventFlags, event>>
xferVars   == <<xfer, completed, flying>>
timeVars   == <<useTimer, timer, now>>
fdVars     == <<sources, polled, fdOpen>>
kernelVars == <<urb, gone, faults>>
vars == <<threadVars, lockVars, flagVars, xferVars, timeVars, fdVars, kernelVars>>

\* What calloc leaves in a transfer before it is submitted.
FreshTransfer(t) == [alive |-> TRUE, handle |-> TRUE, inFlight |-> FALSE,
  cancelling |-> FALSE, handled |-> FALSE, timedOut |-> FALSE,
  deadline |-> 0, status |-> "COMPLETED"]
Freed == [FreshTransfer(NoOne) EXCEPT !.alive = FALSE, !.handle = FALSE]

\* usbi_reported_events with nothing in it.
Nothing == [event |-> FALSE, timer |-> FALSE, ready |-> {}, error |-> {}]

\* What disturbs the calls, within the bound.
Disturbance(kind) ==
  /\ kind \in Disturbances /\ faults + Cost[kind] <= Faults[useTimer]
  /\ faults' = faults + Cost[kind]

Goto(a, label) == pc' = [pc EXCEPT ![a] = label]

\* --- events and event sources ------------------------------------------

\* ctx->event_flags |= f; signal the event if no flag was set before.
Raise(f) == /\ eventFlags' = eventFlags \cup {f}
            /\ event' = (event \/ eventFlags = {})

\* ctx->event_flags &= ~f; clear the event if no flag is left.
Lower(fs) == /\ eventFlags' = eventFlags \ fs
             /\ event' = (event /\ eventFlags \ fs # {})

\* --- the flying list and its timer ----------------------------------------

Later(x, deadline) == xfer[x].deadline = 0 \/ xfer[x].deadline > deadline

\* add_to_flying_list: before the first later transfer; at the end when there
\* is none, or without a deadline.
PlaceOf(deadline) ==
  LET i == SelectInSeq(flying, LAMBDA x : Later(x, deadline))
  IN  IF deadline = 0 \/ i = 0 THEN Len(flying) + 1 ELSE i

\* A transfer that becomes the first one arms the timer.
ArmedFor(deadline) == IF useTimer /\ deadline # 0 /\ PlaceOf(deadline) = 1 THEN deadline ELSE timer

Pending(x) == xfer[x].deadline # 0 /\ ~xfer[x].handled

\* arm_timer_for_next_timeout: the first timeout not handled, 0 disarms.
NextTimeout(list) ==
  LET i == SelectInSeq(list, Pending)
  IN  IF i = 0 THEN 0 ELSE xfer[list[i]].deadline

\* remove_from_flying_list
Unlist(x) ==
  /\ flying' = RemoveFirst(flying, x)
  /\ timer' = IF useTimer /\ xfer[x].deadline # 0 /\ flying # <<>> /\ Head(flying) = x
              THEN NextTimeout(flying') ELSE timer

\* --- libusb_open, the transfer call up to the wait ----------------------

\* op_open adds the descriptor to the event sources; linking the handle
\* needs open_devs_lock, which op_handle_events holds while it works.
InBackend == {"fds", "disconnect", "cancelled", "unlist", "landed", "callback"}
Open(t) ==
  /\ pc[t] = "open"
  /\ \A a \in Actors : pc[a] \notin InBackend
  /\ sources' = sources \cup {t} /\ fdOpen' = fdOpen \cup {t}
  /\ Raise("SOURCES_MODIFIED")
  /\ Goto(t, "call")
  /\ UNCHANGED <<after, on, status, until, reported, result, calls, lockVars,
                 xferVars, timeVars, polled, deviceClose, kernelVars>>

\* The caller's own choice: calls within the bounds, on a handle that no
\* other thread has begun to close.
MayCall(t) == /\ calls[t] < Calls
              /\ now + Timeout[t] <= LastInstant
              /\ \A c \in Closers : on[c] # t

\* libusb_alloc_transfer and filling it in, or no more calls: close.
Call(t) ==
  /\ pc[t] = "call"
  /\ \/ /\ MayCall(t)
        /\ calls' = [calls EXCEPT ![t] = @ + 1]
        /\ xfer' = [xfer EXCEPT ![t] = FreshTransfer(t)]
        /\ Goto(t, "submit")
        /\ UNCHANGED on
     \/ /\ ~MayCall(t)
        /\ on' = [on EXCEPT ![t] = t]
        /\ Goto(t, IF \E c \in Closers : on[c] = t THEN "done" ELSE "close")
        /\ UNCHANGED <<calls, xfer>>
  /\ result' = [result EXCEPT ![t] = "none"]
  /\ UNCHANGED <<after, status, until, reported, lockVars, completed, flying, timeVars, fdVars, flagVars, kernelVars>>

\* libusb_submit_transfer up to the release of flying_transfers_lock: both
\* locks are taken and the lock of the transfer is kept.
SubmitList(t) ==
  /\ pc[t] = "submit" /\ flyingLock = NoOne /\ lock[t] = NoOne
  /\ LET deadline == IF Timeout[t] = 0 THEN 0 ELSE now + Timeout[t]
     IN  /\ xfer' = [xfer EXCEPT ![t].deadline = deadline]
         /\ flying' = InsertAt(flying, PlaceOf(deadline), t)
         /\ timer' = ArmedFor(deadline)
  /\ lock' = [lock EXCEPT ![t] = t]
  /\ Goto(t, "urb")
  /\ UNCHANGED <<after, on, status, until, reported, result, calls, flyingLock, eventsLock,
       waiting, handlerActive, completed, useTimer, now, fdVars, flagVars, kernelVars>>

\* usbi_backend.submit_transfer, then IN_FLIGHT, under the transfer's lock.
SubmitUrb(t) ==
  /\ pc[t] = "urb"
  /\ \/ /\ t \notin gone
        /\ urb' = [urb EXCEPT ![t] = "submitted"]
        /\ Goto(t, "mark")
        /\ UNCHANGED <<faults, result, lock>>
     \/ /\ \/ t \in gone /\ UNCHANGED faults
           \/ t \notin gone /\ Disturbance("submission")
        /\ result' = [result EXCEPT ![t] = IF t \in gone THEN "NO_DEVICE" ELSE "IO"]
        /\ lock' = [lock EXCEPT ![t] = NoOne]
        /\ Goto(t, "submitFailed")
        /\ UNCHANGED urb
  /\ UNCHANGED <<after, on, status, until, reported, calls, flyingLock, eventsLock, waiting, handlerActive, xferVars, timeVars, fdVars, flagVars, gone>>

MarkInFlight(t) ==
  /\ pc[t] = "mark"
  /\ xfer' = [xfer EXCEPT ![t].inFlight = TRUE]
  /\ lock' = [lock EXCEPT ![t] = NoOne]
  /\ Goto(t, "wait")
  /\ UNCHANGED <<after, on, status, until, reported, result, calls, flyingLock, eventsLock, waiting, handlerActive, completed, flying, timeVars, fdVars, flagVars, kernelVars>>

\* A failed submission leaves the list again and the transfer is freed.
SubmitFailed(t) ==
  /\ pc[t] = "submitFailed" /\ flyingLock = NoOne
  /\ Unlist(t)
  /\ xfer' = [xfer EXCEPT ![t] = Freed]
  /\ Goto(t, "call")
  /\ UNCHANGED <<after, on, status, until, reported, result, calls, lockVars, completed,
       useTimer, now, fdVars, flagVars, kernelVars>>

\* --- sync_transfer_wait_for_completion -------------------------------------

\* while (!*completed): read the result, or handle events.  Without a timer
\* libusb_get_next_timeout (which needs flying_transfers_lock) may find an
\* expired timeout, which is handled at once, or bounds the wait.
Wait(t) ==
  /\ pc[t] = "wait"
  /\ \/ completed[t] /\ Goto(t, "result") /\ UNCHANGED until
     \/ /\ ~completed[t] /\ (useTimer \/ flyingLock = NoOne)
        /\ LET next == IF useTimer THEN 0 ELSE NextTimeout(flying)
           IN IF next # 0 /\ next <= now
              THEN Goto(t, "timeouts") /\ UNCHANGED until
              ELSE /\ Goto(t, "tryLock")
                   /\ until' = [until EXCEPT ![t] = IF next = 0 THEN Never ELSE next]
  /\ UNCHANGED <<after, on, status, reported, result, calls, lockVars, xferVars, timeVars, fdVars, flagVars, kernelVars>>

\* Mutant: A caller that does not look at the handle after handling events.
ReturnedUnchecked(t) ==
  /\ pc[t] = "returned"
  /\ Goto(t, "wait")
  /\ UNCHANGED <<after, on, status, until, reported, result, calls, lockVars, xferVars, timeVars, fdVars, flagVars, kernelVars>>

\* handle_events returned 0.  A transfer whose handle was closed is over.
Returned(t) ==
  /\ pc[t] = "returned"
  /\ IF xfer[t].handle THEN UNCHANGED <<xfer, completed>>
     ELSE /\ xfer' = [xfer EXCEPT ![t].status = "NO_DEVICE"]
          /\ completed' = [completed EXCEPT ![t] = TRUE]
  /\ Goto(t, "wait")
  /\ UNCHANGED <<after, on, status, until, reported, result, calls, lockVars, flying, timeVars, fdVars, flagVars, kernelVars>>

\* libusb_cancel_transfer with the lock of x free: what it does to x and to
\* the URB.  Succeeds when the kernel still had the URB.
CanCancel(x) == xfer[x].inFlight /\ ~xfer[x].cancelling
CancelSucceeds(x) == CanCancel(x) /\ urb[x] = "submitted" /\ x \notin gone
CancelUrb(x) == IF CancelSucceeds(x) THEN [urb EXCEPT ![x] = "discarded"] ELSE urb

\* The cancellation of a transfer in flight goes through its handle, which is NULL when
\* it was closed under the caller: that is the end of the process (linux_usbfs.c:1876).
Crashes(t) == pc[t] = "error" /\ CanCancel(t) /\ ~xfer[t].handle

\* handle_events failed (LIBUSB_ERROR_IO): cancel the transfer, go on waiting.
CancelAndRetry(t) ==
  /\ pc[t] = "error" /\ lock[t] = NoOne /\ ~Crashes(t)
  /\ xfer' = [xfer EXCEPT ![t].cancelling = @ \/ CanCancel(t)]
  /\ urb' = CancelUrb(t)
  /\ Goto(t, "wait")
  /\ UNCHANGED <<after, on, status, until, reported, result, calls, lockVars, completed, flying,
       timeVars, fdVars, flagVars, gone, faults>>

\* The result is read from the transfer, which is freed.
ResultOf(s) == CASE s = "COMPLETED" -> "OK"
                 [] s = "TIMED_OUT" -> "TIMEOUT"
                 [] s = "STALL"     -> "PIPE"
                 [] s = "NO_DEVICE" -> "NO_DEVICE"
                 [] OTHER           -> "IO"
Result(t) ==
  /\ pc[t] = "result"
  /\ result' = [result EXCEPT ![t] = ResultOf(xfer[t].status)]
  /\ xfer' = [xfer EXCEPT ![t] = Freed]
  /\ completed' = [completed EXCEPT ![t] = FALSE]
  /\ Goto(t, "call")
  /\ UNCHANGED <<after, on, status, until, reported, calls, lockVars, flying,
       timeVars, fdVars, flagVars, kernelVars>>

\* --- becoming the event handler, or an event waiter --------------------------

\* libusb_try_lock_events looks at device_close first, then tries the lock.
TryLock(t) ==
  /\ pc[t] = "tryLock"
  /\ Goto(t, IF deviceClose > 0 THEN "waiter" ELSE "takeEvents")
  /\ UNCHANGED <<after, on, status, until, reported, result, calls, lockVars, xferVars, timeVars, fdVars, flagVars, kernelVars>>

TakeEvents(t) ==
  /\ pc[t] = "takeEvents"
  /\ IF eventsLock = NoOne
     THEN /\ eventsLock' = t /\ handlerActive' = TRUE
          /\ Goto(t, "handler")
     ELSE Goto(t, "waiter") /\ UNCHANGED <<eventsLock, handlerActive>>
  /\ UNCHANGED <<after, on, status, until, reported, result, calls, flyingLock, lock,
       waiting, xferVars, timeVars, fdVars, flagVars, kernelVars>>

\* libusb_event_handler_active: a close counts as event handling.
EventHandlerActive == deviceClose > 0 \/ handlerActive

\* Mutant: A waiter that does not check that someone still handles events.
WaiterNoRecheck(t) ==
  /\ pc[t] = "waiter"
  /\ IF completed[t] THEN Goto(t, "returned") /\ UNCHANGED waiting
     ELSE Goto(t, "asleep") /\ waiting' = waiting \cup {t}
  /\ UNCHANGED <<after, on, status, until, reported, result, calls, flyingLock, eventsLock, lock,
       handlerActive, xferVars, timeVars, fdVars, flagVars, kernelVars>>

\* libusb_lock_event_waiters, then under that lock: already completed, no
\* handler any more, or asleep, which gives up the lock.
Waiter(t) ==
  /\ pc[t] = "waiter"
  /\ IF completed[t] THEN Goto(t, "returned") /\ UNCHANGED waiting
     ELSE IF ~EventHandlerActive THEN Goto(t, "tryLock") /\ UNCHANGED waiting
     ELSE Goto(t, "asleep") /\ waiting' = waiting \cup {t}
  /\ UNCHANGED <<after, on, status, until, reported, result, calls, flyingLock, eventsLock, lock,
       handlerActive, xferVars, timeVars, fdVars, flagVars, kernelVars>>

\* Woken, the thread takes the lock again and gives it up; when its time
\* was over it looks for expired timeouts.
Wake(t) ==
  /\ pc[t] = "asleep"
  /\ \/ t \notin waiting /\ Goto(t, "returned") /\ UNCHANGED waiting
     \/ /\ t \in waiting /\ until[t] <= now
        /\ waiting' = waiting \ {t}
        /\ Goto(t, "timeouts")
  /\ until' = [until EXCEPT ![t] = Never]
  /\ UNCHANGED <<after, on, status, reported, result, calls, flyingLock, eventsLock, lock,
       handlerActive, xferVars, timeVars, fdVars, flagVars, kernelVars>>

\* --- handle_timeouts ------------------------------------------------------------

\* handle_timeouts and handle_timer_trigger hold flying_transfers_lock.
LockTimeouts(t) ==
  /\ pc[t] = "timeouts" /\ flyingLock = NoOne
  /\ flyingLock' = t
  /\ Goto(t, "expire")
  /\ UNCHANGED <<after, on, status, until, reported, result, calls, eventsLock, lock,
       waiting, handlerActive, xferVars, timeVars, fdVars, flagVars, kernelVars>>

Expired(x) == Pending(x) /\ xfer[x].deadline <= now

\* handle_timeout, which needs the lock of the transfer too: cancel it.
TimeOut(t, x) ==
  /\ lock[x] = NoOne
  /\ xfer' = [xfer EXCEPT ![x].handled = TRUE, ![x].cancelling = @ \/ CanCancel(x)]
  /\ urb' = CancelUrb(x)
  /\ IF CancelSucceeds(x) THEN on' = [on EXCEPT ![t] = x] /\ Goto(t, "expired")
     ELSE UNCHANGED <<on, pc>>
  /\ UNCHANGED <<after, flyingLock, timer>>

\* No timeout is left; handle_timer_trigger arms the timer for the next one.
TimeoutsDone(t) ==
  /\ timer' = IF after[t] = "fds" THEN NextTimeout(flying) ELSE timer
  /\ flyingLock' = NoOne
  /\ Goto(t, after[t])
  /\ after' = [after EXCEPT ![t] = "returned"]
  /\ UNCHANGED <<xfer, urb, on>>

\* handle_timeouts_locked: the first transfer whose timeout is over, or the end.
HandleTimeout(t) ==
  /\ pc[t] = "expire"
  /\ LET due == SelectInSeq(flying, Expired)
     IN  IF due # 0 THEN TimeOut(t, flying[due]) ELSE TimeoutsDone(t)
  /\ UNCHANGED <<status, until, reported, result, calls, eventsLock, lock,
       waiting, handlerActive, completed, flying, useTimer, now, fdVars, flagVars, gone, faults>>

\* TIMED_OUT is set once the cancellation was accepted, when the lock of the
\* transfer has been given up and the flying lock has not.
MarkTimedOut(t) ==
  /\ pc[t] = "expired"
  /\ xfer' = [xfer EXCEPT ![on[t]].timedOut = TRUE]
  /\ on' = [on EXCEPT ![t] = NoOne]
  /\ Goto(t, "expire")
  /\ UNCHANGED <<after, status, until, reported, result, calls, lockVars, completed, flying,
       timeVars, fdVars, flagVars, kernelVars>>

\* --- handle_events ------------------------------------------------------------

\* With the lock held the flag is read again.  The poll set is rebuilt when
\* the event sources were modified.
Handler(t) ==
  /\ pc[t] = "handler"
  /\ status' = [status EXCEPT ![t] = "none"]
  /\ IF completed[t] THEN Goto(t, "unlock") /\ UNCHANGED <<polled, eventFlags, event>>
     ELSE /\ Goto(t, "poll")
          /\ IF "SOURCES_MODIFIED" \in eventFlags
             THEN polled' = sources /\ Lower({"SOURCES_MODIFIED"})
             ELSE UNCHANGED <<polled, eventFlags, event>>
  /\ UNCHANGED <<after, on, until, reported, result, calls, lockVars, xferVars, timeVars,
       sources, fdOpen, deviceClose, kernelVars>>

Retrieved == {"ok", "stall", "discarded"}
Ready == {h \in polled : urb[h] \in Retrieved \/ h \in gone}
TimerExpired == useTimer /\ timer # 0 /\ timer <= now

\* poll() returned 0: without a timer the timeouts are looked at.
PollTimedOut(t) ==
  IF useTimer THEN Goto(t, "unlock") /\ UNCHANGED after
  ELSE Goto(t, "timeouts") /\ after' = [after EXCEPT ![t] = "unlock"]

\* usbi_wait_for_events: something is ready, or the time is over.
\* Sources removed meanwhile are ignored.
Poll(t) ==
  /\ pc[t] = "poll"
  /\ \/ /\ event \/ TimerExpired \/ Ready # {}
        /\ reported' = [reported EXCEPT ![t] = [event |-> event, timer |-> TimerExpired,
                          ready |-> Ready \cap sources, error |-> Ready \cap sources \cap gone]]
        /\ Goto(t, "triggered")
        /\ UNCHANGED after
     \/ /\ ~event /\ ~TimerExpired /\ Ready = {} /\ until[t] <= now
        /\ PollTimedOut(t)
        /\ UNCHANGED reported
  /\ UNCHANGED <<on, status, until, result, calls, lockVars, xferVars, timeVars, fdVars, flagVars, kernelVars>>

\* poll() fails: LIBUSB_ERROR_IO.
PollFails(t) ==
  /\ pc[t] = "poll" /\ Disturbance("poll")
  /\ status' = [status EXCEPT ![t] = "FAILED"]
  /\ Goto(t, "unlock")
  /\ UNCHANGED <<after, on, until, reported, result, calls, lockVars, xferVars, timeVars, fdVars, flagVars, urb, gone>>

\* handle_event_trigger, then handle_timer_trigger, then the backend.
EventTrigger(t) ==
  /\ pc[t] = "triggered"
  /\ IF reported[t].event THEN Lower({"USER_INTERRUPT"}) ELSE UNCHANGED <<eventFlags, event>>
  /\ IF reported[t].timer
     THEN Goto(t, "timeouts") /\ after' = [after EXCEPT ![t] = "fds"]
     ELSE Goto(t, "fds") /\ UNCHANGED after
  /\ UNCHANGED <<on, status, until, reported, result, calls, lockVars, xferVars, timeVars, fdVars, deviceClose, kernelVars>>

\* op_handle_events: the next ready descriptor.  One with POLLERR leaves the
\* event sources and its device is treated as disconnected.
NextFd(t) ==
  /\ pc[t] = "fds"
  /\ \/ reported[t].ready = {} /\ Goto(t, "unlock") /\ UNCHANGED <<on, reported, sources, eventFlags, event>>
     \/ \E h \in reported[t].ready :
          \/ /\ h \in reported[t].error
             /\ on' = [on EXCEPT ![t] = h]
             /\ Goto(t, "disconnect")
             /\ sources' = sources \ {h}
             /\ IF h \in sources THEN Raise("SOURCES_MODIFIED") ELSE UNCHANGED <<eventFlags, event>>
             /\ UNCHANGED reported
          \/ /\ h \notin reported[t].error /\ urb[h] \notin Retrieved
             /\ reported' = [reported EXCEPT ![t].ready = @ \ {h}]
             /\ UNCHANGED <<pc, on, sources, eventFlags, event>>
  /\ UNCHANGED <<after, status, until, result, calls, lockVars, xferVars, timeVars, polled, fdOpen,
       deviceClose, kernelVars>>

StatusOf(u) == CASE u = "ok" -> "COMPLETED" [] u = "stall" -> "STALL" [] OTHER -> "NO_DEVICE"

\* Mutant: A URB the device ended stays with the transfer when it is reaped.
ReapTwice(t) ==
  /\ \E h \in reported[t].ready :
       /\ \/ pc[t] = "fds" /\ h \notin reported[t].error /\ urb[h] \in Retrieved
          \/ pc[t] = "disconnect" /\ h = on[t] /\ urb[h] \in Retrieved \cup {"lost"}
       /\ lock[h] = NoOne
       /\ on' = [on EXCEPT ![t] = h]
       /\ urb' = IF urb[h] \in {"ok", "stall"} THEN urb ELSE [urb EXCEPT ![h] = "none"]
       /\ status' = [status EXCEPT ![t] = StatusOf(urb[h])]
       /\ Goto(t, IF urb[h] = "discarded" THEN "cancelled" ELSE "unlist")
  /\ UNCHANGED <<after, until, reported, result, calls, lockVars, xferVars, timeVars, fdVars, flagVars, gone, faults>>

\* The status a reaped URB gives; a cancelled one asks for the reason first.
Reap(t) ==
  /\ \E h \in reported[t].ready :
       /\ \/ pc[t] = "fds" /\ h \notin reported[t].error /\ urb[h] \in Retrieved
          \/ pc[t] = "disconnect" /\ h = on[t] /\ urb[h] \in Retrieved \cup {"lost"}
       /\ lock[h] = NoOne
       /\ on' = [on EXCEPT ![t] = h]
       /\ urb' = [urb EXCEPT ![h] = "none"]
       /\ status' = [status EXCEPT ![t] = StatusOf(urb[h])]
       /\ Goto(t, IF urb[h] = "discarded" THEN "cancelled" ELSE "unlist")
  /\ UNCHANGED <<after, until, reported, result, calls, lockVars, xferVars, timeVars, fdVars, flagVars, gone, faults>>

\* Mutant: A disconnection that does not wait for the lock of the transfer.
DisconnectUnlocked(t) ==
  /\ pc[t] = "disconnect" /\ flyingLock = NoOne
  /\ LET h == on[t]
     IN  IF Contains(flying, h) /\ xfer[h].inFlight
         THEN /\ urb' = [urb EXCEPT ![h] = "none"]
              /\ status' = [status EXCEPT ![t] = "NO_DEVICE"]
              /\ Goto(t, "unlist") /\ UNCHANGED reported
         ELSE /\ reported' = [reported EXCEPT ![t].ready = @ \ {h}]
              /\ Goto(t, "fds") /\ UNCHANGED <<urb, status>>
  /\ UNCHANGED <<after, on, until, result, calls, lockVars, xferVars, timeVars, fdVars, flagVars, gone, faults>>

\* usbi_handle_disconnect: a transfer still in flight ends with NO_DEVICE; one
\* that is being submitted is waited for, one that is not in flight ignored.
Disconnect(t) ==
  /\ pc[t] = "disconnect" /\ flyingLock = NoOne
  /\ LET h == on[t]
     IN  IF Contains(flying, h)
         THEN /\ lock[h] = NoOne
              /\ IF xfer[h].inFlight
                 THEN /\ urb' = [urb EXCEPT ![h] = "none"]
                      /\ status' = [status EXCEPT ![t] = "NO_DEVICE"]
                      /\ Goto(t, "unlist") /\ UNCHANGED reported
                 ELSE /\ reported' = [reported EXCEPT ![t].ready = @ \ {h}]
                      /\ Goto(t, "fds") /\ UNCHANGED <<urb, status>>
         ELSE /\ reported' = [reported EXCEPT ![t].ready = @ \ {h}]
              /\ Goto(t, "fds") /\ UNCHANGED <<urb, status>>
  /\ UNCHANGED <<after, on, until, result, calls, lockVars, xferVars, timeVars, fdVars, flagVars, gone, faults>>

\* Mutant: The reason of a cancellation read without the flying lock.
CancelledUnlocked(t) ==
  /\ pc[t] = "cancelled"
  /\ status' = [status EXCEPT ![t] = IF xfer[on[t]].timedOut THEN "TIMED_OUT" ELSE "CANCELLED"]
  /\ Goto(t, "unlist")
  /\ UNCHANGED <<after, on, until, reported, result, calls, lockVars, xferVars, timeVars, fdVars, flagVars, kernelVars>>

\* usbi_handle_transfer_cancellation: the reason, under the flying lock.
Cancelled(t) ==
  /\ pc[t] = "cancelled" /\ flyingLock = NoOne
  /\ status' = [status EXCEPT ![t] = IF xfer[on[t]].timedOut THEN "TIMED_OUT" ELSE "CANCELLED"]
  /\ Goto(t, "unlist")
  /\ UNCHANGED <<after, on, until, reported, result, calls, lockVars, xferVars, timeVars, fdVars, flagVars, kernelVars>>

\* usbi_handle_transfer_completion in its three steps: off the list, no longer
\* in flight, the callback under the waiters lock.  Nothing after the callback
\* looks at the transfer, which synchronous calls free for themselves.
UnlistDone(t) ==
  /\ pc[t] = "unlist" /\ flyingLock = NoOne
  /\ Unlist(on[t])
  /\ Goto(t, "landed")
  /\ UNCHANGED <<after, on, status, until, reported, result, calls, lockVars, xfer, completed,
       useTimer, now, fdVars, flagVars, kernelVars>>

Landed(t) ==
  /\ pc[t] = "landed" /\ lock[on[t]] = NoOne
  /\ xfer' = [xfer EXCEPT ![on[t]].inFlight = FALSE, ![on[t]].status = status[t]]
  /\ Goto(t, "callback")
  /\ UNCHANGED <<after, on, status, until, reported, result, calls, lockVars, completed, flying,
       timeVars, fdVars, flagVars, kernelVars>>

Callback(t) ==
  /\ pc[t] = "callback"
  /\ completed' = [completed EXCEPT ![on[t]] = TRUE]
  /\ status' = [status EXCEPT ![t] = "none"]
  /\ on' = [on EXCEPT ![t] = NoOne]
  /\ Goto(t, "fds")
  /\ UNCHANGED <<after, until, reported, result, calls, lockVars, xfer, flying, timeVars,
       fdVars, flagVars, kernelVars>>

\* libusb_unlock_events: release, then wake the waiters under their lock.
UnlockEvents(a) ==
  /\ pc[a] = "unlock"
  /\ handlerActive' = FALSE /\ eventsLock' = NoOne
  /\ on' = [on EXCEPT ![a] = IF a \in Closers THEN @ ELSE NoOne]
  /\ until' = [until EXCEPT ![a] = Never]
  /\ after' = [after EXCEPT ![a] = "returned"]
  /\ reported' = [reported EXCEPT ![a] = Nothing]
  /\ Goto(a, "broadcast")
  /\ UNCHANGED <<status, result, calls, flyingLock, lock,
       waiting, xferVars, timeVars, fdVars, flagVars, kernelVars>>

Broadcast(a) ==
  /\ pc[a] = "broadcast"
  /\ waiting' = {}
  /\ Goto(a, CASE status[a] = "FAILED" -> "error" [] status[a] = "CLOSING" -> "done" [] OTHER -> "returned")
  /\ status' = [status EXCEPT ![a] = "none"]
  /\ UNCHANGED <<after, on, until, reported, result, calls, flyingLock, eventsLock, lock,
       handlerActive, xferVars, timeVars, fdVars, flagVars, kernelVars>>

\* --- libusb_close ---------------------------------------------------------------

\* A closer decides to close the handle of a victim, which is a disturbance,
\* or to close none.  It does not while the victim is about to use the handle
\* in a submission or closes it, nor one that another closer closes.
ChooseVictim(c) ==
  /\ pc[c] = "idle"
  /\ \/ /\ Disturbance("close")
        /\ \E v \in Victims \cap fdOpen :
             /\ \A b \in Closers : on[b] # v
             /\ pc[v] \notin {"submit", "urb", "mark", "submitFailed", "close", "closeLock", "drop", "closeFd"}
             /\ on' = [on EXCEPT ![c] = v]
        /\ Goto(c, "close")
     \/ Goto(c, "done") /\ UNCHANGED <<on, faults>>
  /\ UNCHANGED <<after, status, until, reported, result, calls, lockVars, xferVars, timeVars,
       fdVars, flagVars, urb, gone>>

\* Mutant: A close counted once however many are under way.
CloseBeginUncounted(a) ==
  /\ pc[a] = "close"
  /\ deviceClose' = 1
  /\ Raise("DEVICE_CLOSE")
  /\ status' = [status EXCEPT ![a] = "CLOSING"]
  /\ Goto(a, "closeLock")
  /\ UNCHANGED <<after, on, until, reported, result, calls, lockVars, xferVars, timeVars, fdVars, kernelVars>>

\* Announce the close, so that the event handler gives up its lock.
CloseBegin(a) ==
  /\ pc[a] = "close"
  /\ deviceClose' = deviceClose + 1
  /\ IF deviceClose = 0 THEN Raise("DEVICE_CLOSE")
     ELSE eventFlags' = eventFlags /\ event' = (event \/ eventFlags = {})
  /\ status' = [status EXCEPT ![a] = "CLOSING"]
  /\ Goto(a, "closeLock")
  /\ UNCHANGED <<after, on, until, reported, result, calls, lockVars, xferVars, timeVars, fdVars, kernelVars>>

CloseLock(a) ==
  /\ pc[a] = "closeLock" /\ eventsLock = NoOne
  /\ eventsLock' = a /\ handlerActive' = TRUE
  /\ Goto(a, "drop")
  /\ UNCHANGED <<after, on, status, until, reported, result, calls, flyingLock, lock,
       waiting, xferVars, timeVars, fdVars, flagVars, kernelVars>>

\* Mutant: A close that leaves the transfers of the handle in the list.
CloseDropForgets(a) ==
  /\ pc[a] = "drop" /\ flyingLock = NoOne
  /\ xfer' = [xfer EXCEPT ![on[a]].handle = FALSE]
  /\ Goto(a, "closeFd")
  /\ UNCHANGED <<after, on, status, until, reported, result, calls, lockVars, completed, flying, timeVars,
       fdVars, flagVars, kernelVars>>

\* do_close: a transfer of the handle leaves the list and loses the handle.
CloseDrop(a) ==
  /\ pc[a] = "drop" /\ flyingLock = NoOne
  /\ LET h == on[a]
     IN  IF Contains(flying, h)
         THEN /\ lock[h] = NoOne
              /\ flying' = RemoveFirst(flying, h)
              /\ xfer' = [xfer EXCEPT ![h].handle = FALSE]
         ELSE UNCHANGED <<flying, xfer>>
  /\ Goto(a, "closeFd")
  /\ UNCHANGED <<after, on, status, until, reported, result, calls, lockVars, completed, timeVars,
       fdVars, flagVars, kernelVars>>

\* op_close: the descriptor leaves the event sources unless it already has,
\* and closing it makes the kernel drop its URBs.
CloseFd(a) ==
  /\ pc[a] = "closeFd"
  /\ LET h == on[a]
     IN  /\ IF h \in sources THEN Raise("SOURCES_MODIFIED") ELSE UNCHANGED <<eventFlags, event>>
         /\ sources' = sources \ {h} /\ fdOpen' = fdOpen \ {h}
         /\ urb' = [urb EXCEPT ![h] = "none"]
         /\ gone' = gone \ {h}
  /\ Goto(a, "closeEnd")
  /\ UNCHANGED <<after, on, status, until, reported, result, calls, lockVars, xferVars, timeVars,
       polled, deviceClose, faults>>

CloseEnd(a) ==
  /\ pc[a] = "closeEnd"
  /\ deviceClose' = deviceClose - 1
  /\ Lower(IF deviceClose = 1 THEN {"DEVICE_CLOSE"} ELSE {})
  /\ Goto(a, "unlock")
  /\ UNCHANGED <<after, on, status, until, reported, result, calls, lockVars, xferVars, timeVars, fdVars, kernelVars>>

\* --- the environment --------------------------------------------------------

\* libusb_interrupt_event_handler, called by anybody.
Interrupt ==
  /\ Disturbance("interrupt")
  /\ Raise("USER_INTERRUPT")
  /\ UNCHANGED <<threadVars, lockVars, xferVars, timeVars, fdVars, deviceClose, urb, gone>>

\* The kernel ends a URB, or the device goes away with its URBs.
Complete(x) ==
  /\ urb[x] = "submitted" /\ x \notin gone
  /\ \E u \in {"ok", "stall"} : urb' = [urb EXCEPT ![x] = u]
  /\ UNCHANGED <<threadVars, lockVars, xferVars, timeVars, fdVars, flagVars, gone, faults>>

Unplug(h) ==
  /\ h \in fdOpen \ gone
  /\ Disturbance("unplug")
  /\ gone' = gone \cup {h}
  /\ urb' = [urb EXCEPT ![h] = IF @ = "submitted" THEN "lost" ELSE @]
  /\ UNCHANGED <<threadVars, lockVars, xferVars, timeVars, fdVars, flagVars>>

\* Without a deadline a wait still ends after 60 seconds.  Only the victim of
\* a close is allowed to rely on it.
Minute(t) ==
  /\ IF xfer[t].alive /\ ~xfer[t].handle THEN UNCHANGED faults
     ELSE Disturbance("minute")
  /\ \/ pc[t] = "poll" /\ PollTimedOut(t) /\ UNCHANGED waiting
     \/ /\ pc[t] = "asleep" /\ t \in waiting
        /\ waiting' = waiting \ {t}
        /\ Goto(t, "timeouts") /\ UNCHANGED after
  /\ UNCHANGED <<on, status, until, reported, result, calls, flyingLock, eventsLock, lock,
       handlerActive, xferVars, timeVars, fdVars, flagVars, urb, gone>>

\* The clock, which the bound keeps from passing a deadline being set.
Tick ==
  /\ now < LastInstant /\ now' = now + 1
  /\ \A t \in Threads : pc[t] = "submit" => now + Timeout[t] < LastInstant
  /\ UNCHANGED <<threadVars, lockVars, xferVars, useTimer, timer, fdVars, flagVars, kernelVars>>

\* --- specification -------------------------------------------------------------

\* libusb_init: the event and the timer are in the poll set, nothing open.
Init ==
  /\ pc = [a \in Actors |-> IF a \in Threads THEN "open" ELSE "idle"]
  /\ after = [a \in Actors |-> "returned"]
  /\ on = [a \in Actors |-> NoOne]
  /\ status = [a \in Actors |-> "none"]
  /\ until = [a \in Actors |-> Never]
  /\ reported = [a \in Actors |-> Nothing]
  /\ xfer = [t \in Threads |-> Freed]
  /\ completed = [t \in Threads |-> FALSE]
  /\ result = [t \in Threads |-> "none"]
  /\ calls = [t \in Threads |-> 0]
  /\ flying = <<>>
  /\ flyingLock = NoOne /\ eventsLock = NoOne
  /\ lock = [t \in Threads |-> NoOne]
  /\ handlerActive = FALSE /\ waiting = {} /\ deviceClose = 0
  /\ eventFlags = {} /\ event = FALSE
  /\ useTimer \in Timers /\ timer = 0 /\ now = 1
  /\ sources = {} /\ polled = {} /\ fdOpen = {}
  /\ urb = [t \in Threads |-> "none"] /\ gone = {} /\ faults = 0

CallStep(t) == \/ Open(t) \/ Call(t) \/ SubmitList(t) \/ SubmitUrb(t) \/ MarkInFlight(t) \/ SubmitFailed(t)
               \/ Wait(t) \/ Returned(t) \/ CancelAndRetry(t) \/ Result(t)
WaitStep(t) == \/ TryLock(t) \/ TakeEvents(t) \/ Waiter(t) \/ Wake(t)
               \/ LockTimeouts(t) \/ HandleTimeout(t) \/ MarkTimedOut(t)
HandlerStep(t) == \/ Handler(t) \/ Poll(t) \/ EventTrigger(t) \/ NextFd(t)
                  \/ Reap(t) \/ Disconnect(t) \/ Cancelled(t) \/ UnlistDone(t) \/ Landed(t)
                  \/ Callback(t)
CloseStep(a) == \/ CloseBegin(a) \/ CloseLock(a) \/ CloseDrop(a) \/ CloseFd(a) \/ CloseEnd(a)
                \/ UnlockEvents(a) \/ Broadcast(a)

Terminated == /\ (\A a \in Actors : pc[a] = "done") \/ \E t \in Threads : Crashes(t)
              /\ UNCHANGED vars

Next ==
  \/ \E t \in Threads : CallStep(t) \/ WaitStep(t) \/ HandlerStep(t) \/ Minute(t) \/ PollFails(t) \/ Complete(t) \/ Unplug(t)
  \/ \E a \in Actors : CloseStep(a)
  \/ \E c \in Closers : ChooseVictim(c)
  \/ Interrupt \/ Tick \/ Terminated

\* Threads that can run do run, a closer closes, and time passes; the
\* device owes nothing.
Spec == /\ Init /\ [][Next]_vars
        /\ \A t \in Threads : WF_vars(CallStep(t) \/ WaitStep(t) \/ HandlerStep(t) \/ CloseStep(t))
        /\ \A c \in Closers : WF_vars(ChooseVictim(c) \/ CloseStep(c))
        /\ \A v \in Victims : WF_vars(Minute(v) /\ ~xfer[v].handle)
        /\ WF_vars(Tick)

\* --- properties ----------------------------------------------------------------

TransferType == [alive : BOOLEAN, handle : BOOLEAN, inFlight : BOOLEAN, cancelling : BOOLEAN,
  handled : BOOLEAN, timedOut : BOOLEAN, deadline : 0..LastInstant,
  status : {"COMPLETED", "TIMED_OUT", "STALL", "NO_DEVICE", "CANCELLED"}]

\* Types, and the bounds of the counters: every close that was announced is
\* taken back, and no transfer is listed twice (libusb_close, add_to_flying_list).
TypeOK ==
  /\ on \in [Actors -> Threads \cup {NoOne}]
  /\ xfer \in [Threads -> TransferType]
  /\ IsInjective(flying) /\ Range(flying) \subseteq Threads
  /\ {flyingLock, eventsLock} \subseteq Actors \cup {NoOne}
  /\ lock \in [Threads -> Threads \cup {NoOne}]
  /\ waiting \subseteq Threads
  /\ deviceClose = Cardinality({a \in Actors : pc[a] \in {"closeLock", "drop", "closeFd", "closeEnd"}})
  /\ eventFlags \subseteq {"SOURCES_MODIFIED", "DEVICE_CLOSE", "USER_INTERRUPT"}
  /\ timer \in 0..LastInstant /\ now \in 1..LastInstant
  /\ polled \subseteq Threads /\ sources \subseteq fdOpen
  /\ urb \in [Threads -> Retrieved \cup {"none", "submitted", "lost"}]

\* The event handler, whichever thread it is, never touches a transfer its
\* owner may already have freed, the flying list (which handle_timeouts walks)
\* holds no freed transfer, and no URB that can still be reaped belongs to one:
\* the owner frees as soon as it sees the flag that the callback sets
\* (sync.c:36-40), or finds its handle closed.  Nor are events handled on a handle
\* that is being torn down: while a handler completes a transfer the handle is
\* open, and poll() is never asked about a closed descriptor (the reason
\* libusb_close takes the events lock).
Touches == {"cancelled", "unlist", "landed", "callback", "expired"}
NoUseAfterFree ==
  /\ \A i \in 1..Len(flying) : xfer[flying[i]].alive
  /\ \A a \in Actors : pc[a] \in Touches => xfer[on[a]].alive
  /\ \A t \in Threads : urb[t] # "none" =>
       xfer[t].alive \/ \E a \in Actors : pc[a] = "closeFd" /\ on[a] = t
  /\ \A a \in Actors : pc[a] \in InBackend \ {"fds"} => on[a] \in fdOpen
  /\ \A t \in Threads : pc[t] = "poll" => polled \subseteq fdOpen

\* Nobody sleeps through an event: a flag has the eventfd readable, or poll()
\* would sleep on, and no flag leaves it readable, or poll() would spin; and a
\* thread asleep as a waiter although its transfer has completed is about to be
\* woken, as an event handler or a closer still has to broadcast.
NoLostWakeup ==
  /\ event <=> eventFlags # {}
  /\ \A t \in waiting : completed[t] \/ ~EventHandlerActive =>
       \E a \in Actors : eventsLock = a \/ pc[a] = "broadcast"

\* With a timerfd: when no one is at work on the list, the timer is armed for
\* the earliest timeout that was not handled, or a transfer that was handled
\* is still at the head and its removal will arm the timer.
AtWork == flyingLock # NoOne
TimerCoversTimeouts ==
  useTimer /\ ~AtWork /\ NextTimeout(flying) # 0 =>
    \/ timer # 0 /\ timer <= NextTimeout(flying)
    \/ xfer[Head(flying)].handled

\* A transfer that libusb cancelled for its timeout says so: a call ends with
\* LIBUSB_ERROR_IO only when something failed, and with a timeout only when its
\* time was over.
TimeoutsAreTrue ==
  \A t \in Threads :
    /\ result[t] = "IO" => faults > 0
    /\ result[t] = "TIMEOUT" => Timeout[t] # 0 /\ now > Timeout[t]

\* The timer covers the timeouts, and timeouts are reported as such.  The first
\* part is about instances where only handles of transfers without a timeout are
\* closed under their thread; TimeoutsWakePoll is about the others.
TimeoutsAreKept == TimerCoversTimeouts /\ TimeoutsAreTrue

\* With a timerfd the timeout handling is just another descriptor (io.c:655, 745):
\* a thread in poll() is woken when the time of a listed transfer is over.  It is
\* not when do_close (core.c:1529) took the transfer at the head of the list, whose
\* timeout was handled, and did not arm the timer for the next one.
TimeoutsWakePoll ==
  \A t, x \in Threads : pc[t] = "poll" /\ useTimer /\ Contains(flying, x) /\ Expired(x) =>
    event \/ TimerExpired \/ Ready # {}

\* A call completes once, whatever handler, disconnection or close gets to it:
\* the flag is set only while it is clear, and the status of a completed
\* transfer stays.
CompletesOnce ==
  [][\A t \in Threads :
       /\ \A a \in Threads : Callback(a) /\ on[a] = t => ~completed[t] /\ xfer[t].alive
       /\ completed[t] /\ xfer[t].alive /\ xfer'[t].alive => xfer'[t].status = xfer[t].status]_vars

\* A transfer of an unplugged device is not forgotten: once its descriptor has
\* left the event sources nothing but usbi_handle_disconnect can end it, so
\* that walk has to wait for a submission that is under way (io.c:1519-1530).
GoneIsNotForgotten ==
  \A t \in gone \ sources :
    urb[t] \in {"lost", "discarded"} => \E a \in Actors : on[a] = t /\ pc[a] \in InBackend \cup {"closeFd"}

\* Every call with a timeout returns although the device may never answer,
\* every close gets the events lock although others handle events, and a call
\* whose handle is closed under it or whose device is unplugged returns: in the
\* end only a call without a timeout that was never answered still waits, unless the
\* process has ended in a retry.
Unanswered(t) == Timeout[t] = 0 /\ urb[t] = "submitted" /\ t \notin gone
EverythingEnds ==
  <>[](\/ \A a \in Actors : pc[a] = "done" \/ (a \in Threads /\ Unanswered(a))
       \/ \E t \in Threads : Crashes(t))
=============================================================================
