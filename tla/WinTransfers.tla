---------------------------- MODULE WinTransfers ----------------------------
(***************************************************************************)
(* Transfers of one device handle on Windows: windows_submit_transfer, the *)
(* thread on the I/O completion port and windows_handle_transfer_completion *)
(* of windows_common.c; choosing and auto-claiming an interface, pipes and *)
(* cancellation of windows_winusb.c.  One application thread, the thread of *)
(* the port and one thread that handles events run side by side; a         *)
(* submission holds the lock of its transfer until it returns.             *)
(***************************************************************************)
EXTENDS Integers, Sequences, FiniteSets

CONSTANTS Xfers, Control,   \* transfers, and those on the control pipe; the others are bulk
          Home,             \* bulk transfers: the interface with their endpoint
          Ifaces,           \* interfaces, 0 .. n-1, all of the WinUSB driver
          Submits, Faults   \* bounds: submissions, and calls of the system that fail

VARIABLES claimed,          \* claimed_interfaces
          asked,            \* the interfaces the application claimed and did not release
          api, eps,         \* interfaces with an api_handle, with their endpoints assigned
          auto,             \* autoclaim_count
          x,                \* transfers
          port, ready,      \* packets in the completion port; completed_transfers
          user, event,      \* what the application and the event thread are doing
          submits, faults

ifaceVars == <<claimed, asked, api, eps, auto>>
bounds == <<submits, faults>>
vars == <<ifaceVars, x, port, ready, user, event, bounds>>

-----------------------------------------------------------------------------
Bulk == Xfers \ Control
\* A transfer: in_flight and cancelling are flags of usbi_transfer, listed its place in
\* active_transfers, handle and iface its windows_transfer_priv, io what the kernel knows.
Idle == [in_flight |-> FALSE, cancelling |-> FALSE, listed |-> FALSE, handle |-> FALSE, iface |-> 0, io |-> "none"]
Free == [at |-> "idle", t |-> CHOOSE t \in Xfers : TRUE]
At(l, t) == [at |-> l, t |-> t]

Fails(n) == faults + n <= Faults /\ faults' = faults + n
\* The lock of the transfer: an unfinished submission has it.
Unlocked(t) == user.at = "idle" \/ user.t # t

\* winusb_release_interface, under libusb_release_interface.
Released(i) ==
  IF i \in claimed /\ i \in api THEN claimed' = claimed \ {i} /\ api' = api \ {i}
  ELSE UNCHANGED <<claimed, api>>

\* auto_release
AutoRelease(i) ==
  IF auto[i] = 0 THEN UNCHANGED <<auto, claimed, api>>
  ELSE /\ auto' = [auto EXCEPT ![i] = @ - 1]
       /\ IF auto[i] = 1 THEN Released(i) ELSE UNCHANGED <<claimed, api>>

\* winusbx_claim_interface: any but the first is associated with the first, which is
\* initialised for it.
Initialised(i) == {0, i}

-----------------------------------------------------------------------------
\* libusb_submit_transfer, windows_submit_transfer: the transfer is on the list of its
\* handle before the driver knows of it.
Submit(t) ==
  /\ user.at = "idle" /\ ~x[t].in_flight /\ x[t].io = "none" /\ submits < Submits
  /\ submits' = submits + 1
  /\ x' = [x EXCEPT ![t] = [Idle EXCEPT !.listed = TRUE, !.iface = x[t].iface]]
  /\ user' = At("choose", t)
  /\ UNCHANGED <<ifaceVars, port, ready, event, faults>>

Chosen(t, i) ==
  /\ x' = [x EXCEPT ![t].iface = i, ![t].handle = TRUE]
  /\ user' = At("issue", t)
Unserviceable(t) == user' = At("failed", t) /\ UNCHANGED x

\* winusbx_submit_control_transfer: a request to the device takes the first interface
\* with a handle.
ChooseAny(t) ==
  /\ user = At("choose", t) /\ t \in Control /\ api # {}
  /\ Chosen(t, CHOOSE i \in api : \A j \in api : i <= j)
  /\ UNCHANGED <<ifaceVars, port, ready, event, bounds>>

\* A request to one interface takes that interface.
ChooseRecipient(t) ==
  /\ user = At("choose", t) /\ t \in Control
  /\ \E i \in api : Chosen(t, i)
  /\ UNCHANGED <<ifaceVars, port, ready, event, bounds>>

\* auto_claim: without the one or the other, the first interface that can be claimed; an
\* interface claimed before counts as claimed now.
AutoClaim(t) ==
  /\ user = At("choose", t) /\ t \in Control /\ api # Ifaces
  /\ \E n \in 0..Cardinality(Ifaces) :
       LET Failed == 0..n-1
       IN /\ Failed \cap claimed = {} /\ Fails(n)
          /\ \E left \in SUBSET Failed :
               /\ IF n \notin Ifaces
                  THEN /\ api' = api \cup left /\ eps' = eps \ Failed
                       /\ Unserviceable(t) /\ UNCHANGED <<claimed, auto>>
                  ELSE /\ IF n \in claimed THEN api' = api \cup left /\ eps' = eps \ Failed
                          ELSE api' = api \cup left \cup Initialised(n) /\ eps' = (eps \ Failed) \cup {n}
                       /\ claimed' = claimed \cup {n}
                       /\ auto' = [auto EXCEPT ![n] = @ + 1]
                       /\ Chosen(t, n)
  /\ UNCHANGED <<asked, port, ready, event, submits>>

\* interface_by_endpoint
ChooseByEndpoint(t) ==
  /\ user = At("choose", t) /\ t \in Bulk
  /\ IF Home[t] \in api \cap eps THEN Chosen(t, Home[t]) ELSE Unserviceable(t)
  /\ UNCHANGED <<ifaceVars, port, ready, event, bounds>>

\* The driver takes the request, or has carried it out and a packet is posted for it
\* (windows_force_sync_completion), or refuses it: always if the handle is gone meanwhile.
Issue(t) ==
  /\ user.at = "issue" /\ user.t = t
  /\ \/ /\ x[t].iface \in api /\ UNCHANGED faults
        /\ x' = [x EXCEPT ![t].io = "pending"] /\ user' = At("accepted", t) /\ UNCHANGED port
     \/ /\ x[t].iface \in api /\ t \in Control /\ UNCHANGED faults
        /\ x' = [x EXCEPT ![t].io = "posted"] /\ port' = Append(port, t)
        /\ user' = At("accepted", t)
     \/ /\ IF x[t].iface \in api THEN Fails(1) ELSE UNCHANGED faults
        /\ user' = At("failed", t) /\ UNCHANGED <<x, port>>
  /\ UNCHANGED <<ifaceVars, ready, event, submits>>

\* A refused transfer leaves the list, and what was claimed for it is released.
SubmitFailed(t) ==
  /\ user = At("failed", t)
  /\ x' = [x EXCEPT ![t].listed = FALSE, ![t].handle = FALSE]
  /\ AutoRelease(x[t].iface)
  /\ user' = Free
  /\ UNCHANGED <<asked, eps, port, ready, event, bounds>>

\* It is in flight from here on, though it may be completed already.
SubmitDone(t) ==
  /\ user = At("accepted", t)
  /\ x' = [x EXCEPT ![t].in_flight = TRUE]
  /\ user' = Free
  /\ UNCHANGED <<ifaceVars, port, ready, event, bounds>>

-----------------------------------------------------------------------------
Aborted(ts) == [t \in Xfers |-> IF t \in ts THEN [x[t] EXCEPT !.io = "posted"] ELSE x[t]]
\* The packets of aborted transfers come in any order.
Orders(ts) == {s \in [1..Cardinality(ts) -> ts] : \A t \in ts : \E i \in DOMAIN s : s[i] = t}

\* winusbx_cancel_transfer, AbortPipe: every transfer of the pipe.
SamePipe(t) == {u \in Xfers : x[u].io = "pending" /\ (t \in Control <=> u \in Control) /\ x[u].iface = x[t].iface}

\* libusb_cancel_transfer, by the application or for a timeout: CancelIoEx ends the
\* transfer alone; with the HANDLE cleared already the pipe is aborted instead.
Cancel(t) ==
  /\ user.at = "idle" \/ event.at = "idle"
  /\ x[t].in_flight /\ ~x[t].cancelling /\ Unlocked(t)
  /\ LET ends == IF x[t].handle THEN {t} \cap {u \in Xfers : x[u].io = "pending"}
                 ELSE IF x[t].iface \in api THEN SamePipe(t) ELSE {}
     IN /\ \E s \in Orders(ends) : port' = port \o s
        /\ x' = [Aborted(ends) EXCEPT ![t].cancelling = TRUE]
  /\ UNCHANGED <<ifaceVars, ready, user, event, bounds>>

\* libusb_claim_interface: the endpoints are forgotten first and assigned last, and what
\* fails in between leaves them forgotten.
Claim(i) ==
  /\ user.at = "idle"
  /\ \/ i \in claimed /\ asked' = asked \cup {i} /\ UNCHANGED <<claimed, api, eps, faults>>
     \/ /\ i \notin claimed
        /\ \/ /\ api' = api \cup Initialised(i) /\ eps' = eps \cup {i} /\ claimed' = claimed \cup {i}
              /\ asked' = asked \cup {i} /\ UNCHANGED faults
           \/ /\ Fails(1) /\ api' \in {api \ {i}, api \cup Initialised(i)} /\ eps' = eps \ {i}
              /\ UNCHANGED <<claimed, asked>>
  /\ UNCHANGED <<auto, x, port, ready, user, event, submits>>

\* libusb_release_interface
Release(i) ==
  /\ user.at = "idle" /\ i \in claimed
  /\ Released(i)
  /\ asked' = asked \ {i}
  /\ UNCHANGED <<eps, auto, x, port, ready, user, event, bounds>>

\* winusb_set_interface_altsetting: refused, it leaves the interface without endpoints.
SetAltsetting(i) ==
  /\ user.at = "idle" /\ i \in claimed
  /\ \/ UNCHANGED faults /\ eps' = IF i \in api THEN eps \cup {i} ELSE eps \ {i}
     \/ Fails(1) /\ eps' = eps \ {i}
  /\ UNCHANGED <<claimed, asked, api, auto, x, port, ready, user, event, submits>>

\* winusbx_reset_device: the pipes of every interface with a handle are aborted.
Reset ==
  /\ user.at = "idle"
  /\ LET ends == {t \in Bulk : x[t].io = "pending" /\ Home[t] \in api \cap eps}
     IN /\ \E s \in Orders(ends) : port' = port \o s
        /\ x' = Aborted(ends)
  /\ UNCHANGED <<ifaceVars, ready, user, event, bounds>>

-----------------------------------------------------------------------------
\* The device answers, stalls or is gone.
KernelCompletes(t) ==
  /\ x[t].io = "pending"
  /\ x' = [x EXCEPT ![t].io = "posted"]
  /\ port' = Append(port, t)
  /\ UNCHANGED <<ifaceVars, ready, user, event, bounds>>

\* A packet of an I/O operation that is not one of libusb's.
Foreign ==
  /\ Fails(1)
  /\ port' = Append(port, "foreign")
  /\ UNCHANGED <<ifaceVars, x, ready, user, event, submits>>

\* Mutant: the thread of the port does not look for the transfer in the list.
IocpUnlisted ==
  /\ port # << >>
  /\ port' = Tail(port)
  /\ ready' = IF Head(port) \in Xfers THEN Append(ready, Head(port)) ELSE ready
  /\ UNCHANGED <<ifaceVars, x, user, event, bounds>>

\* windows_iocp_thread: a packet of a transfer on the list of its handle is passed on.
Iocp ==
  /\ port # << >>
  /\ port' = Tail(port)
  /\ IF Head(port) \in {t \in Xfers : x[t].listed}
     THEN ready' = Append(ready, Head(port)) /\ x' = [x EXCEPT ![Head(port)].listed = FALSE]
     ELSE UNCHANGED <<ready, x>>
  /\ UNCHANGED <<ifaceVars, user, event, bounds>>

\* windows_handle_transfer_completion: the result is read and the HANDLE cleared, without
\* the lock of the transfer,
Handle ==
  /\ event.at = "idle" /\ ready # << >>
  /\ event' = At("clear", Head(ready))
  /\ ready' = Tail(ready)
  /\ x' = [x EXCEPT ![Head(ready)].handle = FALSE]
  /\ UNCHANGED <<ifaceVars, port, user, bounds>>

\* what was claimed for the transfer is released (winusb_clear_transfer_priv),
Clear(t) ==
  /\ event = At("clear", t)
  /\ AutoRelease(x[t].iface)
  /\ event' = At("report", t)
  /\ UNCHANGED <<asked, eps, x, port, ready, user, bounds>>

\* and, once the submission has returned, the callback is called.
Report(t) ==
  /\ event = At("report", t) /\ Unlocked(t)
  /\ x' = [x EXCEPT ![t] = [Idle EXCEPT !.iface = x[t].iface]]
  /\ event' = Free
  /\ UNCHANGED <<ifaceVars, port, ready, user, bounds>>

-----------------------------------------------------------------------------
Init ==
  /\ claimed = {} /\ asked = {} /\ api = {} /\ eps = {} /\ auto = [i \in Ifaces |-> 0]
  /\ x = [t \in Xfers |-> Idle] /\ port = << >> /\ ready = << >>
  /\ user = Free /\ event = Free /\ submits = 0 /\ faults = 0

Next ==
  \/ \E t \in Xfers : \/ Submit(t) \/ ChooseAny(t) \/ ChooseRecipient(t) \/ AutoClaim(t) \/ ChooseByEndpoint(t)
                      \/ Issue(t) \/ SubmitFailed(t) \/ SubmitDone(t) \/ Cancel(t)
                      \/ KernelCompletes(t) \/ Clear(t) \/ Report(t)
  \/ \E i \in Ifaces : Claim(i) \/ Release(i) \/ SetAltsetting(i)
  \/ Reset \/ Foreign \/ Iocp \/ Handle

Spec == Init /\ [][Next]_vars

-----------------------------------------------------------------------------
\* Properties.

TypeOK ==
  /\ claimed \subseteq Ifaces /\ api \subseteq Ifaces /\ eps \subseteq Ifaces /\ asked \subseteq Ifaces
  /\ \A i \in Ifaces : auto[i] \in 0..Cardinality(Control)
  /\ \A t \in Xfers : x[t].io \in {"none", "pending", "posted"}
  /\ user.at \in {"idle", "choose", "issue", "accepted", "failed"} /\ event.at \in {"idle", "clear", "report"}

Times(t, s) == Cardinality({i \in DOMAIN s : s[i] = t})

\* Between its submission and its callback a transfer is in one place: with the driver,
\* in the port, in completed_transfers or with the event thread; it is on the list of its
\* handle exactly until the thread of the port passes it on, so that no completion is
\* missed and none is reported twice.
InOnePlace ==
  \A t \in Xfers :
    LET handled == IF event.at # "idle" /\ event.t = t THEN 1 ELSE 0
        pending == IF x[t].io = "pending" THEN 1 ELSE 0
        submitting == user.at \in {"choose", "issue", "failed"} /\ user.t = t
    IN /\ pending + Times(t, port) + Times(t, ready) + handled = (IF x[t].io = "none" THEN 0 ELSE 1)
       /\ x[t].listed = (submitting \/ x[t].io = "pending" \/ Times(t, port) = 1)
       /\ x[t].in_flight => x[t].io # "none"

\* What libusb claimed by itself it releases: an interface is claimed beyond the wish of
\* the application only while a control transfer is on its way.
NothingLeftClaimed ==
  /\ \A i \in claimed \ asked : auto[i] > 0
  /\ \A i \in Ifaces : auto[i] > 0 =>
       \E t \in Control : x[t].iface = i /\ (x[t].io # "none" \/ (user.at # "idle" /\ user.t = t))

\* An interface that is claimed can be used.
ClaimedIsUsable == claimed \subseteq api
=============================================================================
