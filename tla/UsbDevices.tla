----------------------------- MODULE UsbDevices -----------------------------
(***************************************************************************)
(* The device list of one libusb context with the udev backend: core.c     *)
(* (list, references, open, close, exit), hotplug.c (messages, callbacks)  *)
(* and the enumeration of linux_usbfs.c and linux_udev.c.                  *)
(*                                                                         *)
(* Actors: the bus, where devices come and go; the udev monitor thread;    *)
(* the thread that handles events and runs the callbacks; application      *)
(* threads that list, open, close and register; the thread that calls      *)
(* libusb_init_context and, when the others are done, libusb_exit.         *)
(* linux_hotplug_lock makes one critical section of the monitor, the poll  *)
(* of libusb_get_device_list, the first scan and the early disconnect of   *)
(* op_open: it is the record "hp".                                         *)
(***************************************************************************)
EXTENDS Naturals, Sequences, FiniteSets, SequencesExt

CONSTANTS Ids,          \* session ids: what the bus number and the address give
          Parent,       \* the id of the hub of an id, or NoId
          Devs,         \* struct libusb_device objects, each used once
          Cbs,          \* struct usbi_hotplug_callback objects, each used once
          Apps,         \* application threads
          Scripts,      \* what the calls of each of them may be
          Changes,      \* bound on the devices plugged and unplugged
          StableStart,  \* nothing is unplugged before libusb_init_context returns
          Monitor, Main, Events, NoOne, NoId, NoDev

\* Hubs are not behind hubs: an id, its hub, nothing above it.
ASSUME Topology == \A i \in Ids : Parent[i] \in Ids \cup {NoId} /\ (Parent[i] \in Ids => Parent[Parent[i]] = NoId)

ASSUME Finite == IsFiniteSet(Devs) /\ IsFiniteSet(Apps) /\ Changes \in Nat /\ StableStart \in BOOLEAN

\* Pointers to devices, pointers to callbacks and NULL are told apart, and so are
\* the threads.
ASSUME Distinct ==
  /\ NoId \notin Ids /\ NoDev \notin Devs \cup Cbs /\ Devs \cap Cbs = {}
  /\ Apps \cap {Monitor, Main, Events, NoOne} = {} /\ NoOne \notin {Monitor, Main, Events}
  /\ Monitor # Main /\ Events # Main

VARIABLES plugged, queue, changes,         \* the bus and the udev socket
          dev, listed,                     \* struct libusb_device, ctx->usb_devs
          leaving,                         \* what of the list libusb_exit has still to release
          msgs, ready,                     \* ctx->hotplug_msgs, ctx->hotplug_ready
          hp,                              \* who is inside linux_hotplug_lock, and where
          pc, script, mine, target, open,  \* application threads
          cbs, cb, swept,                  \* ctx->hotplug_cbs, its members, CB_DEREGISTERED
          lost,                            \* handles whose poll() reports an error
          ev, told,                        \* the event thread; what callbacks were told
          phase                            \* of the context

busVars == <<plugged, queue, changes>>
devVars == <<dev, listed, leaving>>
appVars == <<pc, script, mine, target, open>>
cbVars  == <<cbs, cb, swept>>
evVars  == <<ev, told, lost>>
vars == <<busVars, devVars, msgs, ready, hp, appVars, cbVars, evVars, phase>>

-----------------------------------------------------------------------------
\* Devices and their references.

NewDev(i, p) == [id |-> i, parent |-> p, ref |-> 1, attached |-> FALSE,
                 wrapped |-> FALSE, state |-> "alive"]
Unused == {d \in Devs : dev[d].state = "unused"}
ListedAs(i) == LET S == {d \in Range(listed) : dev[d].id = i} IN IF S = {} THEN NoDev ELSE CHOOSE d \in S : TRUE

Ref(dv, d) == [dv EXCEPT ![d].ref = @ + 1]
RefAll(dv, S) == [d \in Devs |-> IF d \in S THEN [dv[d] EXCEPT !.ref = @ + 1] ELSE dv[d]]

Drop(dv, d) == [dv EXCEPT ![d].ref = @ - 1, ![d].state = IF dv[d].ref = 1 THEN "freed" ELSE @]

\* The last reference frees the device and drops the one it holds on its hub.
Unref(dv, d) ==
  IF dv[d].ref = 1 /\ dv[d].parent # NoDev THEN Drop(Drop(dv, d), dv[d].parent) ELSE Drop(dv, d)

\* Bounds: every device and callback object is used once; a thread has one list at
\* a time, and one handle of a device.
MayAllocate == Unused # {}
MayRegister == \E c \in Cbs : cb[c] = "unused"
OneList(t) == mine[t] = {}
OneHandle(t, d) == d \notin open[t]

Message(e, d) == [event |-> e, dev |-> d]

\* Nothing is queued until the first enumeration is done.
Notify(e, d) == msgs' = IF ready THEN Append(msgs, Message(e, d)) ELSE msgs

\* A message that says a device left holds a reference.
Release(m) == dev' = IF m.event = "LEFT" THEN Unref(dev, m.dev) ELSE dev

-----------------------------------------------------------------------------
\* The bus.

MayChange == changes < Changes

\* A hub is there before what is plugged into it, and leaves after it.
Plug(i) ==
  /\ MayChange /\ i \notin plugged /\ Parent[i] \in plugged \cup {NoId}
  /\ plugged' = plugged \cup {i}
  /\ queue' = Append(queue, [act |-> "add", id |-> i])
  /\ changes' = changes + 1
  /\ UNCHANGED <<devVars, msgs, ready, hp, appVars, cbVars, evVars, phase>>

Unplug(i) ==
  /\ MayChange /\ (StableStart => ready) /\ i \in plugged /\ \A j \in plugged : Parent[j] # i
  /\ plugged' = plugged \ {i}
  /\ queue' = Append(queue, [act |-> "remove", id |-> i])
  /\ changes' = changes + 1
  /\ lost' = lost \cup {h \in Apps \X Devs : h[2] \in open[h[1]] /\ dev[h[2]].id = i}
  /\ UNCHANGED <<devVars, msgs, ready, hp, appVars, cbVars, ev, told, phase>>

-----------------------------------------------------------------------------
\* Inside linux_hotplug_lock.  hp.step: "idle", "next", "enumerate", "parent",
\* "connect", "arrived", "disconnect", "left", "unref".

Idle == [owner |-> NoOne, step |-> "idle", id |-> NoId, todo |-> {}, new |-> NoDev, child |-> NoDev]
Lock(o, s, i) == hp.owner = NoOne /\ hp' = [Idle EXCEPT !.owner = o, !.step = s, !.id = i]
Unlock == hp' = Idle

\* Mutant: a removal is not told from the other actions.
StepOfAny(e) == "enumerate"
StepOf(e) == IF e.act = "add" THEN "enumerate" ELSE "disconnect"

\* The monitor thread takes one event at a time.  libusb_exit takes the context
\* off active_contexts_list first.
Active == phase \in {"init", "scan", "scanned", "ready"}

Receive ==
  /\ Active /\ queue # <<>>
  /\ Lock(Monitor, StepOf(Head(queue)), Head(queue).id)
  /\ queue' = Tail(queue)
  /\ UNCHANGED <<plugged, changes, devVars, msgs, ready, appVars, cbVars, evVars, phase>>

\* libusb_get_device_list empties the socket before it looks at the list.
PollMore ==
  /\ hp.owner \in Apps /\ hp.step = "next" /\ pc[hp.owner] = "poll" /\ queue # <<>>
  /\ hp' = [hp EXCEPT !.step = StepOf(Head(queue)), !.id = Head(queue).id]
  /\ queue' = Tail(queue)
  /\ UNCHANGED <<plugged, changes, devVars, msgs, ready, appVars, cbVars, evVars, phase>>

PollDone ==
  /\ hp.owner \in Apps /\ hp.step = "next" /\ pc[hp.owner] = "poll" /\ queue = <<>>
  /\ Unlock
  /\ pc' = [pc EXCEPT ![hp.owner] = "walk"]
  /\ UNCHANGED <<busVars, devVars, msgs, ready, script, mine, target, open, cbVars, evVars, phase>>

\* The monitor thread is done with its event, op_open with its disconnect.
EventDone ==
  /\ hp.step = "next"
  /\ \/ hp.owner \in {Monitor, Events} /\ UNCHANGED pc
     \/ hp.owner \in Apps /\ pc[hp.owner] = "early" /\ pc' = [pc EXCEPT ![hp.owner] = "failed"]
  /\ Unlock
  /\ UNCHANGED <<busVars, devVars, msgs, ready, script, mine, target, open, cbVars, evVars, phase>>

\* The scan enumerates what udev listed when it began, in udev's order.
ScanMore ==
  /\ hp.owner = Main /\ hp.step = "next" /\ hp.todo # {}
  /\ \E i \in hp.todo : hp' = [hp EXCEPT !.step = "enumerate", !.id = i, !.todo = @ \ {i}]
  /\ UNCHANGED <<busVars, devVars, msgs, ready, appVars, cbVars, evVars, phase>>

ScanDone ==
  /\ hp.owner = Main /\ hp.step = "next" /\ hp.todo = {}
  /\ Unlock
  /\ phase' = "scanned"
  /\ UNCHANGED <<busVars, devVars, msgs, ready, appVars, cbVars, evVars>>

\* The session id is not listed.
NewId(i) == ListedAs(i) = NoDev

\* A session id that is listed already is left alone.
Known ==
  /\ hp.step = "enumerate" /\ ~NewId(hp.id)
  /\ hp' = [hp EXCEPT !.step = "next"]
  /\ UNCHANGED <<busVars, devVars, msgs, ready, appVars, cbVars, evVars, phase>>

\* Its descriptors cannot be read any more: the new device is destroyed.
Gone ==
  /\ hp.step = "enumerate" /\ NewId(hp.id) /\ hp.id \notin plugged
  /\ hp' = [hp EXCEPT !.step = "next"]
  /\ UNCHANGED <<busVars, devVars, msgs, ready, appVars, cbVars, evVars, phase>>

\* A device is allocated with one reference and takes one on its hub, if that is
\* listed; else the hub is enumerated first.
Allocate ==
  /\ hp.step = "enumerate" /\ NewId(hp.id) /\ hp.id \in plugged /\ MayAllocate
  /\ LET d == CHOOSE x \in Unused : TRUE
         p == IF Parent[hp.id] = NoId THEN NoDev ELSE ListedAs(Parent[hp.id])
         made == [dev EXCEPT ![d] = NewDev(hp.id, p)]
     IN /\ dev' = IF p = NoDev THEN made ELSE Ref(made, p)
        /\ hp' = IF p = NoDev /\ Parent[hp.id] # NoId THEN [hp EXCEPT !.step = "parent", !.child = d]
                 ELSE [hp EXCEPT !.step = "connect", !.new = d]
  /\ UNCHANGED <<busVars, listed, leaving, msgs, ready, appVars, cbVars, evVars, phase>>

\* linux_get_parent_info: the hub was not listed.
EnumerateParent ==
  /\ hp.step = "parent"
  /\ LET i == Parent[hp.id]
         d == CHOOSE x \in Unused : TRUE
     IN IF i \in plugged
        THEN /\ MayAllocate
             /\ dev' = [dev EXCEPT ![d] = NewDev(i, NoDev)]
             /\ hp' = [hp EXCEPT !.step = "connect", !.new = d]
        ELSE /\ UNCHANGED dev
             /\ hp' = [hp EXCEPT !.step = "connect", !.new = hp.child, !.child = NoDev]
  /\ UNCHANGED <<busVars, listed, leaving, msgs, ready, appVars, cbVars, evVars, phase>>

Connect ==
  /\ hp.step = "connect"
  /\ dev' = [dev EXCEPT ![hp.new].attached = TRUE]
  /\ listed' = <<hp.new>> \o listed
  /\ hp' = [hp EXCEPT !.step = "arrived"]
  /\ UNCHANGED <<busVars, leaving, msgs, ready, appVars, cbVars, evVars, phase>>

\* The message holds no reference.  After its hub, the child is connected.
Arrived ==
  /\ hp.step = "arrived"
  /\ Notify("ARRIVED", hp.new)
  /\ IF hp.child = NoDev
     THEN hp' = [hp EXCEPT !.step = "next", !.new = NoDev] /\ UNCHANGED dev
     ELSE /\ dev' = Ref([dev EXCEPT ![hp.child].parent = hp.new], hp.new)
          /\ hp' = [hp EXCEPT !.step = "connect", !.new = hp.child, !.child = NoDev]
  /\ UNCHANGED <<busVars, listed, leaving, ready, appVars, cbVars, evVars, phase>>

\* linux_device_disconnected: the device is taken off the list, by its id.
Disconnect ==
  /\ hp.step = "disconnect"
  /\ LET d == ListedAs(hp.id)
     IN IF d = NoDev THEN hp' = [hp EXCEPT !.step = "next"] /\ UNCHANGED <<dev, listed>>
        ELSE /\ dev' = Ref([dev EXCEPT ![d].attached = FALSE], d)
             /\ listed' = RemoveFirst(listed, d)
             /\ hp' = [hp EXCEPT !.step = "left", !.new = d]
  /\ UNCHANGED <<busVars, leaving, msgs, ready, appVars, cbVars, evVars, phase>>

\* The message takes over the reference of the list.
Left ==
  /\ hp.step = "left"
  /\ Notify("LEFT", hp.new)
  /\ hp' = [hp EXCEPT !.step = "unref"]
  /\ UNCHANGED <<busVars, devVars, ready, appVars, cbVars, evVars, phase>>

\* The reference usbi_get_device_by_session_id took.
Unreferenced ==
  /\ hp.step = "unref"
  /\ dev' = Unref(dev, hp.new)
  /\ hp' = [hp EXCEPT !.step = "next", !.new = NoDev]
  /\ UNCHANGED <<busVars, listed, leaving, msgs, ready, appVars, cbVars, evVars, phase>>

HotplugLock == PollMore \/ PollDone \/ EventDone \/ ScanMore \/ ScanDone \/ Known \/ Gone \/ Allocate
               \/ EnumerateParent \/ Connect \/ Arrived \/ Disconnect \/ Left \/ Unreferenced

-----------------------------------------------------------------------------
\* libusb_init_context and libusb_exit.

Scan ==
  /\ phase = "init"
  /\ hp.owner = NoOne
  /\ hp' = [Idle EXCEPT !.owner = Main, !.step = "next", !.todo = plugged]
  /\ phase' = "scan"
  /\ UNCHANGED <<busVars, devVars, msgs, ready, appVars, cbVars, evVars>>

\* usbi_hotplug_init, once the first enumeration is done.
HotplugInit ==
  /\ phase = "scanned"
  /\ ready' = TRUE
  /\ phase' = "ready"
  /\ UNCHANGED <<busVars, devVars, msgs, hp, appVars, cbVars, evVars>>

\* When the application has stopped using the context, usbi_hotplug_exit frees the
\* callbacks.
Exit ==
  /\ phase = "ready" /\ ev.step = "idle" /\ hp.owner = NoOne
  /\ \A t \in Apps : pc[t] = "idle" /\ script[t] = <<>>
  /\ cb' = [c \in Cbs |-> IF c \in Range(cbs) THEN "freed" ELSE cb[c]]
  /\ cbs' = <<>> /\ swept' = FALSE
  /\ phase' = "messages"
  /\ UNCHANGED <<busVars, devVars, msgs, ready, hp, appVars, evVars>>

\* It frees the messages that were not processed,
FreeMessage ==
  /\ phase = "messages" /\ msgs # <<>>
  /\ Release(Head(msgs))
  /\ msgs' = Tail(msgs)
  /\ UNCHANGED <<busVars, listed, leaving, ready, hp, appVars, cbVars, evVars, phase>>

\* and walks the list,
MessagesFreed ==
  /\ phase = "messages" /\ msgs = <<>>
  /\ leaving' = listed
  /\ phase' = "devices"
  /\ UNCHANGED <<busVars, dev, listed, msgs, ready, hp, appVars, cbVars, evVars>>

\* usbi_recursively_remove_parents: the hub, if only this child refers to it.
LastChildOf(d) == {p \in {dev[d].parent} \ {NoDev} : dev[p].ref = 1}

Unlink(s, S) == IF S = {} THEN s ELSE RemoveFirst(s, CHOOSE d \in S : TRUE)

\* Mutant: the list keeps its references.
ReleaseNothing ==
  /\ phase = "devices" /\ leaving # <<>>
  /\ leaving' = Tail(leaving)
  /\ UNCHANGED <<busVars, dev, listed, msgs, ready, hp, appVars, cbVars, evVars, phase>>

\* device by device: unlisted if the list has its only reference, which is dropped.
\* What the application still refers to stays on the list, for the warning.
ReleaseListed ==
  /\ phase = "devices" /\ leaving # <<>>
  /\ LET d == Head(leaving)
         alone == {x \in {d} : dev[x].ref = 1}
     IN dev' = Unref(dev, d) /\ listed' = Unlink(Unlink(listed, alone), LastChildOf(d))
  /\ leaving' = Tail(leaving)
  /\ UNCHANGED <<busVars, msgs, ready, hp, appVars, cbVars, evVars, phase>>

Released ==
  /\ phase = "devices" /\ leaving = <<>>
  /\ phase' = "end"
  /\ UNCHANGED <<busVars, devVars, msgs, ready, hp, appVars, cbVars, evVars>>

Exiting == Exit \/ FreeMessage \/ MessagesFreed \/ ReleaseListed \/ Released

-----------------------------------------------------------------------------
\* Application threads.

Goto(t, l) == pc' = [pc EXCEPT ![t] = l]
Next1(t, op) == phase = "ready" /\ pc[t] = "idle" /\ script[t] # <<>> /\ Head(script[t]) = op
Done1(t) == script' = [script EXCEPT ![t] = Tail(@)]

\* libusb_get_device_list: first what udev still has to say.
ListPoll(t) ==
  /\ \/ Next1(t, "list") /\ Done1(t)
     \/ pc[t] = "enumerate" /\ UNCHANGED script
  /\ OneList(t)
  /\ Lock(t, "next", NoId)
  /\ Goto(t, "poll")
  /\ UNCHANGED <<busVars, devVars, msgs, ready, mine, target, open, cbVars, evVars, phase>>

\* Then the list, under usb_devs_lock.  A registration goes on to call the callback.
ListWalk(t) ==
  /\ pc[t] = "walk"
  /\ mine' = [mine EXCEPT ![t] = Range(listed)]
  /\ dev' = RefAll(dev, Range(listed))
  /\ Goto(t, IF target[t] \in Cbs THEN "callback" ELSE "idle")
  /\ UNCHANGED <<busVars, listed, leaving, msgs, ready, hp, script, target, open, cbVars, evVars, phase>>

FreeList(t) ==
  /\ Next1(t, "free") /\ (IF mine[t] = {} THEN Done1(t) ELSE UNCHANGED script)
  /\ IF mine[t] = {} THEN UNCHANGED <<mine, dev>>
     ELSE \E d \in mine[t] : mine' = [mine EXCEPT ![t] = @ \ {d}] /\ dev' = Unref(dev, d)
  /\ UNCHANGED <<busVars, listed, leaving, msgs, ready, hp, pc, target, open, cbVars, evVars, phase>>

\* libusb_open: a device known to be gone is refused.
OpenRefused(t) ==
  /\ Next1(t, "open")
  /\ mine[t] = {} \/ \E d \in mine[t] : ~dev[d].attached
  /\ Done1(t)
  /\ UNCHANGED <<busVars, devVars, msgs, ready, hp, pc, mine, target, open, cbVars, evVars, phase>>

Open(t) ==
  /\ Next1(t, "open") /\ Done1(t)
  /\ \E d \in mine[t] :
       /\ dev[d].attached /\ OneHandle(t, d)
       /\ dev' = Ref(dev, d)
       /\ target' = [target EXCEPT ![t] = d]
  /\ Goto(t, "opening")
  /\ UNCHANGED <<busVars, listed, leaving, msgs, ready, hp, mine, open, cbVars, evVars, phase>>

\* op_open: the node opens, or is gone, or may not be opened.
Opened(t) ==
  /\ pc[t] = "opening" /\ dev[target[t]].id \in plugged
  /\ \/ open' = [open EXCEPT ![t] = @ \cup {target[t]}] /\ target' = [target EXCEPT ![t] = NoDev] /\ Goto(t, "idle")
     \/ UNCHANGED <<open, target>> /\ Goto(t, "failed")
  /\ UNCHANGED <<busVars, devVars, msgs, ready, hp, script, mine, cbVars, evVars, phase>>

\* The node is gone: the disconnect is done here unless the monitor was faster.
OpenNoDevice(t) ==
  /\ pc[t] = "opening" /\ dev[target[t]].id \notin plugged
  /\ hp.owner = NoOne
  /\ IF dev[target[t]].attached
     THEN Lock(t, "disconnect", dev[target[t]].id) /\ Goto(t, "early")
     ELSE UNCHANGED hp /\ Goto(t, "failed")
  /\ UNCHANGED <<busVars, devVars, msgs, ready, script, mine, target, open, cbVars, evVars, phase>>

OpenFailed(t) ==
  /\ pc[t] = "failed"
  /\ dev' = Unref(dev, target[t])
  /\ target' = [target EXCEPT ![t] = NoDev]
  /\ Goto(t, "idle")
  /\ UNCHANGED <<busVars, listed, leaving, msgs, ready, hp, script, mine, open, cbVars, evVars, phase>>

\* libusb_wrap_sys_device: a device of its own, attached but not listed.
Wrap(t) ==
  /\ Next1(t, "wrap") /\ Done1(t)
  /\ \/ \E i \in plugged :
          LET d == CHOOSE x \in Unused : TRUE
          IN /\ MayAllocate
             /\ dev' = [dev EXCEPT ![d] = [NewDev(i, NoDev) EXCEPT !.attached = TRUE, !.wrapped = TRUE]]
             /\ open' = [open EXCEPT ![t] = @ \cup {d}]
     \/ UNCHANGED <<dev, open>>
  /\ UNCHANGED <<busVars, listed, leaving, msgs, ready, hp, pc, mine, target, cbVars, evVars, phase>>

\* libusb_close
Close(t) ==
  /\ Next1(t, "close")
  /\ IF open[t] = {} THEN UNCHANGED <<open, dev, lost>> /\ Done1(t)
     ELSE /\ \E d \in open[t] : /\ open' = [open EXCEPT ![t] = @ \ {d}]
                                /\ dev' = Unref(dev, d)
                                /\ lost' = lost \ {<<t, d>>}
          /\ UNCHANGED script
  /\ UNCHANGED <<busVars, listed, leaving, msgs, ready, hp, pc, mine, target, cbVars, ev, told, phase>>

\* hotplug_cbs_lock, which the event thread lets go while a callback runs; at
\* "message" it may not have taken it yet.
CbsUnlocked == ev.step \in {"idle", "message", "call"}

\* libusb_hotplug_register_callback, with and without LIBUSB_HOTPLUG_ENUMERATE.
Register(t) ==
  /\ CbsUnlocked /\ MayRegister
  /\ \/ Next1(t, "register") /\ Goto(t, "idle") /\ UNCHANGED target
     \/ Next1(t, "enumerate") /\ Goto(t, "enumerate")
        /\ target' = [target EXCEPT ![t] = CHOOSE c \in Cbs : cb[c] = "unused"]
  /\ Done1(t)
  /\ LET c == CHOOSE x \in Cbs : cb[x] = "unused"
     IN cbs' = <<c>> \o cbs /\ cb' = [cb EXCEPT ![c] = "armed"]
  /\ UNCHANGED <<busVars, devVars, msgs, ready, hp, mine, open, swept, evVars, phase>>

\* The callback is called for a device that was on the list; what it returns is
\* ignored.  The list is freed as it goes.
CallArrived(t) ==
  /\ pc[t] = "callback" /\ mine[t] # {}
  /\ \E d \in mine[t] :
       /\ told' = [told EXCEPT ![target[t]][d] = "ARRIVED"]
       /\ mine' = [mine EXCEPT ![t] = @ \ {d}]
       /\ dev' = Unref(dev, d)
  /\ UNCHANGED <<busVars, listed, leaving, msgs, ready, hp, pc, script, target, open, cbVars, ev, lost, phase>>

\* The handle of the callback is read.
Registered(t) ==
  /\ pc[t] = "callback" /\ mine[t] = {}
  /\ Goto(t, "idle")
  /\ target' = [target EXCEPT ![t] = NoDev]
  /\ UNCHANGED <<busVars, devVars, msgs, ready, hp, script, mine, open, cbVars, evVars, phase>>

\* Handles the application has: of callbacks whose registration has returned.
Handles == Range(cbs) \ Range(target)

\* Mutant: the callback is freed at once.
DeregisterFrees(t) ==
  /\ Next1(t, "deregister") /\ Done1(t)
  /\ \/ \E c \in Handles : cb' = [cb EXCEPT ![c] = "freed"] /\ cbs' = RemoveFirst(cbs, c)
     \/ Handles = {} /\ UNCHANGED <<cb, cbs>>
  /\ UNCHANGED <<busVars, devVars, msgs, ready, hp, pc, mine, target, open, swept, evVars, phase>>

\* libusb_hotplug_deregister_callback marks; the event thread frees.
Deregister(t) ==
  /\ CbsUnlocked
  /\ Next1(t, "deregister") /\ Done1(t)
  /\ \/ \E c \in Handles : cb' = [cb EXCEPT ![c] = "marked"] /\ swept' = TRUE
     \/ Handles = {} /\ UNCHANGED <<cb, swept>>
  /\ UNCHANGED <<busVars, devVars, msgs, ready, hp, pc, mine, target, open, cbs, evVars, phase>>

App(t) == ListPoll(t) \/ ListWalk(t) \/ FreeList(t) \/ OpenRefused(t) \/ Open(t) \/ Opened(t) \/ OpenNoDevice(t)
          \/ OpenFailed(t) \/ Wrap(t) \/ Close(t) \/ Register(t) \/ CallArrived(t) \/ Registered(t) \/ Deregister(t)

-----------------------------------------------------------------------------
\* The thread that handles events: usbi_hotplug_process.

Resting == [step |-> "idle", msgs |-> <<>>, rest |-> <<>>]

TakeMessages ==
  /\ phase = "ready" /\ ev.step = "idle" /\ hp.owner # Events /\ (msgs # <<>> \/ swept)
  /\ ev' = [step |-> "message", msgs |-> msgs, rest |-> <<>>]
  /\ msgs' = <<>> /\ swept' = FALSE
  /\ UNCHANGED <<busVars, devVars, ready, hp, appVars, cbs, cb, told, lost, phase>>

NextMessage ==
  /\ ev.step = "message" /\ ev.msgs # <<>>
  /\ ev' = [ev EXCEPT !.step = "callbacks", !.rest = cbs]
  /\ UNCHANGED <<busVars, devVars, msgs, ready, hp, appVars, cbVars, told, lost, phase>>

\* A callback that was deregistered is skipped; the lock is let go for the others.
NextCallback ==
  /\ ev.step = "callbacks" /\ ev.rest # <<>>
  /\ ev' = IF cb[Head(ev.rest)] = "marked" THEN [ev EXCEPT !.rest = Tail(@)] ELSE [ev EXCEPT !.step = "call"]
  /\ UNCHANGED <<busVars, devVars, msgs, ready, hp, appVars, cbVars, told, lost, phase>>

\* It returns 0, or 1 and is freed once the lock is taken again.  Only a callback
\* whose registration has returned is careful enough to return 1.
CallBack ==
  /\ ev.step = "call"
  /\ LET c == Head(ev.rest)
         m == Head(ev.msgs)
     IN /\ told' = [told EXCEPT ![c][m.dev] = m.event]
        /\ ev' = [ev EXCEPT !.step = "callbacks", !.rest = Tail(@)]
        /\ \/ UNCHANGED <<cbs, cb>>
           \/ c \in Handles /\ cbs' = RemoveFirst(cbs, c) /\ cb' = [cb EXCEPT ![c] = "freed"]
  /\ UNCHANGED <<busVars, devVars, msgs, ready, hp, appVars, swept, lost, phase>>

\* Mutant: the reference of the message is kept.
MessageDoneKeepsRef ==
  /\ ev.step = "callbacks" /\ ev.rest = <<>>
  /\ ev' = [ev EXCEPT !.step = "message", !.msgs = Tail(@)]
  /\ UNCHANGED <<busVars, devVars, msgs, ready, hp, appVars, cbVars, told, lost, phase>>

MessageDone ==
  /\ ev.step = "callbacks" /\ ev.rest = <<>>
  /\ Release(Head(ev.msgs))
  /\ ev' = [ev EXCEPT !.step = "message", !.msgs = Tail(@)]
  /\ UNCHANGED <<busVars, listed, leaving, msgs, ready, hp, appVars, cbVars, told, lost, phase>>

\* Callbacks that were deregistered are freed, one by one.
Marked == {k \in DOMAIN cbs : cb[cbs[k]] = "marked"}

StartSweep ==
  /\ ev.step = "message" /\ ev.msgs = <<>>
  /\ ev' = [ev EXCEPT !.step = "sweep"]
  /\ UNCHANGED <<busVars, devVars, msgs, ready, hp, appVars, cbVars, told, lost, phase>>

Sweep ==
  /\ ev.step = "sweep" /\ Marked # {}
  /\ LET c == cbs[Min(Marked)] IN cbs' = RemoveFirst(cbs, c) /\ cb' = [cb EXCEPT ![c] = "freed"]
  /\ UNCHANGED <<busVars, devVars, msgs, ready, hp, appVars, swept, evVars, phase>>

Swept ==
  /\ ev.step = "sweep" /\ Marked = {}
  /\ ev' = Resting
  /\ UNCHANGED <<busVars, devVars, msgs, ready, hp, appVars, cbVars, told, lost, phase>>

\* op_handle_events: poll() reports that the device of a handle is gone.
PollError ==
  /\ phase = "ready" /\ ev.step = "idle"
  /\ \E t \in Apps : \E d \in open[t] :
       /\ <<t, d>> \in lost
       /\ lost' = lost \ {<<t, d>>}
       /\ hp.owner = NoOne
       /\ IF dev[d].attached THEN Lock(Events, "disconnect", dev[d].id) ELSE UNCHANGED hp
  /\ UNCHANGED <<busVars, devVars, msgs, ready, appVars, cbVars, ev, told, phase>>

HandleEvents == PollError \/ TakeMessages \/ NextMessage \/ NextCallback \/ CallBack \/ MessageDone
                \/ StartSweep \/ Sweep \/ Swept

-----------------------------------------------------------------------------
Init ==
  /\ plugged \in {S \in SUBSET Ids : \A i \in S : Parent[i] \in S \cup {NoId}}
  /\ queue = <<>> /\ changes = 0
  /\ dev = [d \in Devs |-> [NewDev(NoId, NoDev) EXCEPT !.ref = 0, !.state = "unused"]]
  /\ listed = <<>> /\ leaving = <<>> /\ msgs = <<>> /\ ready = FALSE
  /\ hp = Idle
  /\ pc = [t \in Apps |-> "idle"] /\ script \in Scripts
  /\ mine = [t \in Apps |-> {}] /\ target = [t \in Apps |-> NoDev] /\ open = [t \in Apps |-> {}]
  /\ cbs = <<>> /\ cb = [c \in Cbs |-> "unused"] /\ swept = FALSE
  /\ ev = Resting /\ told = [c \in Cbs |-> [d \in Devs |-> "nothing"]]
  /\ lost = {}
  /\ phase = "init"

Finished == phase = "end" /\ UNCHANGED vars

Next ==
  \/ \E i \in Ids : Plug(i) \/ Unplug(i)
  \/ Receive \/ HotplugLock
  \/ Scan \/ HotplugInit \/ Exiting
  \/ \E t \in Apps : App(t)
  \/ HandleEvents
  \/ Finished

\* Every thread goes on, and gets linux_hotplug_lock when it is free again and
\* again; nothing has to be plugged or unplugged.
Fairness ==
  /\ WF_vars(Receive) /\ WF_vars(HotplugLock) /\ WF_vars(Scan) /\ WF_vars(HotplugInit) /\ WF_vars(Exiting)
  /\ WF_vars(HandleEvents)
  /\ \A t \in Apps : WF_vars(App(t))

Spec == Init /\ [][Next]_vars /\ Fairness

-----------------------------------------------------------------------------
\* Properties.

Alive(d) == dev[d].state = "alive"

\* What the list refers to: libusb_exit drops its references one by one.
Kept == IF phase \in {"devices", "end"} THEN leaving ELSE listed

\* Messages of a queue that a device left, threads that have it, and what the
\* function that is under way holds.
Leavings(q, d) == Cardinality({k \in DOMAIN q : q[k] = Message("LEFT", d)})
Having(f, d) == Cardinality({t \in Apps : d \in f[t]})
Aiming(d) == Cardinality({t \in Apps : target[t] = d})
Children(d) == Cardinality({c \in Devs : Alive(c) /\ dev[c].parent = d})
UnderWay(d) ==
  (IF hp.child = d THEN 1 ELSE 0)
  + (IF hp.new # d THEN 0 ELSE IF hp.step \in {"connect", "unref"} THEN 1 ELSE IF hp.step = "left" THEN 2 ELSE 0)

Holders(d) ==
  (IF d \in Range(Kept) THEN 1 ELSE 0) + Leavings(msgs, d) + Leavings(ev.msgs, d)
  + Having(mine, d) + Having(open, d) + Aiming(d) + Children(d) + UnderWay(d)

\* Types: the counts of references are no larger than the places that may hold
\* one, and no device or callback is linked twice.
TypeOK ==
  /\ plugged \subseteq Ids /\ changes \in 0..Changes
  /\ \A d \in Devs : dev[d].ref \in 0..(2 * Cardinality(Apps) + Cardinality(Devs) + 4)
  /\ Range(listed) \subseteq Devs /\ IsInjective(listed)
  /\ hp.owner \in Apps \cup {Monitor, Main, Events, NoOne}
  /\ \A c \in Cbs : cb[c] \in {"unused", "armed", "marked", "freed"}
  /\ phase \in {"init", "scan", "scanned", "ready", "messages", "devices", "end"}

\* The count of a device is the number of places that hold it: the list or the
\* message that it left, lists and handles of the application, its children, and
\* the enumeration that is under way.  Nothing leaks and nothing is freed early.
RefsAreOwned ==
  /\ TypeOK
  /\ \A d \in Devs : dev[d].ref = Holders(d) /\ (Alive(d) <=> dev[d].ref > 0)

\* At most one listed device has a session id, attached is what the list says,
\* and nobody disconnects a device twice.
ListedOnce ==
  /\ \A d, e \in Range(listed) : dev[d].id = dev[e].id => d = e
  /\ phase \notin {"devices", "end"} => \A d \in Devs : ~dev[d].wrapped => (dev[d].attached <=> d \in Range(listed))
  /\ \A d \in Devs : Leavings(msgs, d) + Leavings(ev.msgs, d) <= 1

\* The list is in order, and when udev has nothing more to say, it is what is
\* plugged in, and every device that is not at the root has the listed hub as its
\* parent.  Wrapped devices are excepted: their handles disconnect whoever has the
\* id by then.
ListCatchesUp ==
  /\ ListedOnce
  /\ phase = "ready" /\ queue = <<>> /\ hp.owner = NoOne /\ (\A d \in Devs : ~dev[d].wrapped) =>
       /\ {dev[d].id : d \in Range(listed)} = plugged
       /\ \A d \in Range(listed) : Parent[dev[d].id] # NoId => dev[d].parent = ListedAs(Parent[dev[d].id])

\* Whatever order things are unplugged, listed, opened and closed in, libusb_exit
\* is reached and every device is destroyed.
AllReleased == <>(phase = "end" /\ \A d \in Devs : ~Alive(d))

\* Nothing freed is used.  Messages that a device arrived hold no reference, yet
\* their device is alive whenever a callback can see it, in whatever order it left
\* and was released.  The event thread walks the callbacks without the lock while
\* others register and deregister: it never comes to one that was freed, and calls
\* none twice.  The callback that is being registered is still there.  And
\* usbi_recursively_remove_parents never unlinks the device libusb_exit goes to next.
NothingFreedIsUsed ==
  /\ \A k \in DOMAIN msgs : Alive(msgs[k].dev)
  /\ \A k \in DOMAIN ev.msgs : Alive(ev.msgs[k].dev)
  /\ \A c \in Range(ev.rest) \cup Range(cbs) : cb[c] \in {"armed", "marked"}
  /\ IsInjective(ev.rest) /\ IsInjective(cbs)
  /\ \A t \in Apps : target[t] \in Cbs => cb[target[t]] # "freed"
  /\ phase = "devices" /\ leaving # <<>> =>
       /\ \A d \in Range(leaving) : Alive(d)
       /\ LastChildOf(Head(leaving)) \cap Range(Tail(leaving)) = {}
=============================================================================
