------------------------------ MODULE UsbUrbs ------------------------------
(***************************************************************************)
(* One transfer in the Linux backend (linux_usbfs.c): it is split into     *)
(* URBs, which are submitted one ioctl after the other while the kernel    *)
(* already completes the first of them; a failure in the middle, a short   *)
(* URB, an error or a cancellation discards the rest, and the transfer is  *)
(* reported when the last URB has been reaped.  UsbEvents models who reaps *)
(* and cancels; here only the lock of the transfer matters, which keeps    *)
(* reaping and cancelling out of the submission.                           *)
(*                                                                         *)
(* Data is counted in packets; the n-th packet received for the transfer   *)
(* is the number n.  The result of the n-th isochronous packet is n.       *)
(***************************************************************************)
EXTENDS Integers, Sequences, FiniteSets, SequencesExt, Functions

CONSTANTS
  Shapes,    \* transfers: [type, in, length, caps, shortNotOk]
  Block,     \* MAX_BULK_BUFFER_LENGTH and MAX_ISO_PACKETS_PER_URB, in packets
  Faults     \* bound: failed submissions, errors on the bus, unplugging

\* A transfer has a type, a direction and a length, of which zero is one.
UrbsAssumption ==
  /\ \A t \in Shapes : /\ t.type \in {"bulk", "interrupt", "control", "iso"}
                       /\ t.length \in Nat
                       /\ {t.in, t.shortNotOk} \subseteq BOOLEAN
  /\ Block \in Nat \ {0} /\ Faults \in Nat

VARIABLES
  shape,       \* the transfer
  phase,       \* "idle", "submitting", "inflight", "refused", "done"
  next,        \* the URB the submission loop is at
  urbs,        \* tpriv->urbs: [len, state, status, data]
  reapable,    \* URBs the kernel is done with, in the order it was
  retired,     \* tpriv->num_retired
  action,      \* tpriv->reap_action
  reapStatus,  \* tpriv->reap_status
  transferred, \* itransfer->transferred
  buffer,      \* transfer->buffer, or iso_packet_desc
  offset,      \* tpriv->iso_packet_offset
  cancel,      \* what libusb_cancel_transfer returned, "none" before it
  status,      \* transfer->status
  received,    \* packets the kernel received or sent for the transfer
  trouble,     \* what happened to the transfer, first things first
  gone,        \* the device was unplugged
  faults

codeVars == <<phase, next, urbs, reapable, retired, action, reapStatus,
              transferred, buffer, offset, cancel, status>>
busVars  == <<received, trouble, gone, faults>>
vars == <<shape, codeVars, busVars>>

\* --- how a transfer is split ----------------------------------------------

\* submit_bulk_transfer: length of an URB and whether it may continue another.
Whole == \/ shape.type = "control"
         \/ "SCATTER_GATHER" \in shape.caps
         \/ {"CONTINUATION", "NO_PACKET_SIZE_LIM"} \cap shape.caps = {"NO_PACKET_SIZE_LIM"}
Continues == /\ shape.type \in {"bulk", "interrupt"}
             /\ "CONTINUATION" \in shape.caps /\ "SCATTER_GATHER" \notin shape.caps

\* num_urbs, and the part of the transfer each URB has.
UrbLen == IF shape.type = "iso" \/ ~Whole THEN Block ELSE IF shape.length = 0 THEN 1 ELSE shape.length
NumUrbs == IF shape.length = 0 THEN 1 ELSE (shape.length + UrbLen - 1) \div UrbLen
Start(i) == (i - 1) * UrbLen
LenOf(i) == IF i = NumUrbs THEN shape.length - Start(i) ELSE UrbLen

\* A short packet ends the transfer, and must be no success, in every URB but the last.
ShortEnds(i) == Continues /\ shape.in /\ i < NumUrbs

\* --- the kernel's side --------------------------------------------------------

Pending == {i \in DOMAIN urbs : urbs[i].state = "pending"}

\* The kernel hands URBs back: the list of indices, each with a status.
HandBack(us, list, s) ==
  [i \in DOMAIN us |-> IF i \in Range(list) THEN [us[i] EXCEPT !.state = "reapable", !.status = s] ELSE us[i]]

Ascending(S) ==
  CHOOSE s \in [1..Cardinality(S) -> S] : \A p, q \in 1..Cardinality(S) : p < q => s[p] < s[q]
Descending(S) == Reverse(Ascending(S))

\* IOCTL_USBFS_DISCARDURB of the URBs of a range, the last one first.
\* discard_urbs says NOT_FOUND only when the last of the range was not pending.
DiscardResult(range, lastUrb) ==
  IF gone THEN "NO_DEVICE" ELSE IF lastUrb \in Pending THEN "OK" ELSE "NOT_FOUND"
GivenUp(range) == IF gone THEN <<>> ELSE Descending(Pending \cap range)
Discarded(us, range) == HandBack(us, GivenUp(range), "cancelled")
DiscardedList(list, range) == list \o GivenUp(range)

\* --- submission -----------------------------------------------------------------

\* The arrays are allocated; reaping waits for the lock of the transfer.
Submit ==
  /\ phase = "idle"
  /\ urbs' = [i \in 1..NumUrbs |-> [len |-> LenOf(i), state |-> "new", status |-> "none",
                data |-> IF shape.type = "iso" THEN [k \in 1..LenOf(i) |-> Start(i) + k] ELSE <<>>]]
  /\ phase' = "submitting" /\ next' = 1
  /\ retired' = 0 /\ action' = "NORMAL" /\ reapStatus' = "COMPLETED" /\ offset' = 0
  /\ UNCHANGED <<shape, reapable, transferred, buffer, cancel, status, busVars>>

\* calloc fails, or the arguments are refused.
SubmitRefused ==
  /\ phase = "idle" /\ faults < Faults /\ faults' = faults + 1
  /\ phase' = "refused"
  /\ UNCHANGED <<shape, next, urbs, reapable, retired, action, reapStatus, transferred, buffer,
                 offset, cancel, status, received, trouble, gone>>

\* One SUBMITURB succeeds.  The kernel does not take a URB that continues
\* a transfer of which a URB was short or failed: EREMOTEIO.
Ended == Continues /\ \E i \in DOMAIN urbs : urbs[i].status \in {"short", "stall", "proto"}
SubmitUrb ==
  /\ phase = "submitting" /\ ~gone /\ ~Ended
  /\ urbs' = [urbs EXCEPT ![next].state = "pending"]
  /\ next' = next + 1
  /\ phase' = IF next = NumUrbs THEN "inflight" ELSE "submitting"
  /\ UNCHANGED <<shape, reapable, retired, action, reapStatus, transferred, buffer, offset, cancel, status, busVars>>

\* The first SUBMITURB fails: nothing has happened.
FirstUrbFails ==
  /\ phase = "submitting" /\ next = 1
  /\ gone \/ faults < Faults
  /\ faults' = IF gone THEN faults ELSE faults + 1
  /\ phase' = "refused" /\ urbs' = <<>>
  /\ UNCHANGED <<shape, next, reapable, retired, action, reapStatus, transferred, buffer, offset,
                 cancel, status, received, trouble, gone>>

\* The URBs counted as retired because they were never submitted.
NotSubmitted == NumUrbs - next + 1

\* A later one fails: the rest counts as retired, and what was submitted is
\* discarded unless EREMOTEIO says that the transfer has ended by itself.
LaterUrbFails ==
  /\ phase = "submitting" /\ next > 1
  /\ Ended \/ gone \/ faults < Faults
  /\ faults' = IF Ended \/ gone THEN faults ELSE faults + 1
  /\ trouble' = IF Ended \/ gone THEN trouble ELSE Append(trouble, "submit")
  /\ retired' = retired + NotSubmitted
  /\ phase' = "inflight"
  /\ IF Ended /\ ~gone
     THEN action' = "COMPLETED_EARLY" /\ UNCHANGED <<urbs, reapable>>
     ELSE /\ action' = "SUBMIT_FAILED"
          /\ urbs' = Discarded(urbs, 1..(next - 1))
          /\ reapable' = DiscardedList(reapable, 1..(next - 1))
  /\ UNCHANGED <<shape, next, reapStatus, transferred, buffer, offset, cancel, status, received, gone>>

\* --- reaping --------------------------------------------------------------------

\* usbi_handle_transfer_completion: with SHORT_NOT_OK a short success is an error.
Final(s, n) == IF s = "COMPLETED" /\ shape.shortNotOk /\ n # shape.length THEN "ERROR" ELSE s

Done(s) == phase' = "done" /\ status' = s

\* buffer with data written from position p + 1 on.
Written(b, p, data) == [k \in DOMAIN b |-> IF k - p \in DOMAIN data THEN data[k - p] ELSE b[k]]

Failed == {"stall", "proto", "nodev"}
StatusFor(s) == CASE s = "nodev" -> "NO_DEVICE" [] s = "stall" -> "STALL"
                  [] s = "overflow" -> "OVERFLOW" [] s = "proto" -> "ERROR" [] OTHER -> "COMPLETED"

\* Mutant: Surplus data stays where its URB has it.
SurplusInPlace(i) == Start(i)

\* Where the data of a URB ends up: the kernel puts it at the place of the URB;
\* surplus data is moved behind what was received before.
PlaceOf(i) == IF action = "NORMAL" THEN Start(i) ELSE transferred

\* Mutant: An abnormal end that is reported as soon as the URB at hand is reaped.
BulkCompletesEarly(u, all) == all \/ action # "NORMAL" \/ u.status = "overflow"

\* The transfer is over when all URBs are retired, or at an overflow,
\* which only the last URB can have.
BulkCompletes(u, all) == all \/ (action = "NORMAL" /\ u.status = "overflow")

\* tpriv->reap_action after a URB: an error, or less data than requested.
ActionAfter(u, all) ==
  IF action # "NORMAL" THEN action
  ELSE IF u.status = "proto" THEN "ERROR"
  ELSE IF u.status \in {"ok", "short", "cancelled"} /\ ~all /\ Len(u.data) < u.len THEN "COMPLETED_EARLY"
  ELSE "NORMAL"

\* tpriv->reap_status after a URB.
ReapStatusAfter(u, all) ==
  IF action # "NORMAL"
  THEN IF all /\ action # "COMPLETED_EARLY" /\ reapStatus = "COMPLETED" THEN "ERROR" ELSE reapStatus
  ELSE IF u.status = "nodev" THEN "NO_DEVICE"
  ELSE IF reapStatus = "COMPLETED" THEN StatusFor(u.status) ELSE reapStatus

\* Mutant: only an error ends the rest of the transfer, a short URB does not.
RestWaitedFor(i, u, all) ==
  IF action = "NORMAL" /\ ~BulkCompletes(u, all) /\ u.status \in Failed THEN (i + 1)..NumUrbs ELSE {}

\* cancel_remaining: the URBs behind one that was short or failed.
RestDiscarded(i, u, all) ==
  IF action = "NORMAL" /\ ~BulkCompletes(u, all)
       /\ (u.status \in Failed \/ ActionAfter(u, all) = "COMPLETED_EARLY")
  THEN (i + 1)..NumUrbs ELSE {}

\* handle_bulk_completion
ReapBulk ==
  /\ shape.type \in {"bulk", "interrupt"}
  /\ LET i == Head(reapable)
         u == urbs[i]
         all == retired + 1 = NumUrbs
         reaped == [urbs EXCEPT ![i].state = "reaped"]
         total == transferred + Len(u.data)
     IN  /\ buffer' = Written(buffer, PlaceOf(i), u.data)
         /\ transferred' = total
         /\ action' = ActionAfter(u, all) /\ reapStatus' = ReapStatusAfter(u, all)
         /\ urbs' = Discarded(reaped, RestDiscarded(i, u, all))
         /\ reapable' = DiscardedList(Tail(reapable), RestDiscarded(i, u, all))
         /\ IF BulkCompletes(u, all)
            THEN Done(IF action = "CANCELLED" THEN "CANCELLED" ELSE Final(ReapStatusAfter(u, all), total))
            ELSE UNCHANGED <<phase, status>>
  /\ UNCHANGED offset

\* handle_control_completion
ReapControl ==
  /\ shape.type = "control"
  /\ LET u == urbs[1]
     IN  /\ buffer' = Written(buffer, 0, u.data)
         /\ transferred' = Len(u.data)
         /\ urbs' = [urbs EXCEPT ![1].state = "reaped"]
         /\ Done(IF action = "CANCELLED" THEN "CANCELLED" ELSE Final(StatusFor(u.status), Len(u.data)))
  /\ reapable' = Tail(reapable)
  /\ UNCHANGED <<action, reapStatus, offset>>

OffsetAfter(u) == offset + u.len

\* handle_iso_completion: results are copied to the next free descriptors.
ReapIso ==
  /\ shape.type = "iso"
  /\ LET i == Head(reapable)
         u == urbs[i]
         all == retired + 1 = NumUrbs
     IN  /\ buffer' = Written(buffer, offset, u.data)
         /\ offset' = OffsetAfter(u)
         /\ urbs' = [urbs EXCEPT ![i].state = "reaped"]
         /\ IF ~all THEN UNCHANGED <<phase, status>>
            ELSE Done(CASE action = "CANCELLED" -> "CANCELLED"
                        [] action \notin {"NORMAL", "CANCELLED"} -> "ERROR"
                        [] OTHER -> IF shape.shortNotOk THEN "ERROR" ELSE StatusFor(u.status))
  /\ reapable' = Tail(reapable)
  /\ UNCHANGED <<action, reapStatus, transferred>>

\* REAPURBNDELAY hands over the next URB, unless the kernel forgets those of
\* an unplugged device.
CanReap == reapable # <<>> /\ (gone => "REAP_AFTER_DISCONNECT" \in shape.caps)
Reap ==
  /\ phase = "inflight" /\ CanReap
  /\ retired' = retired + 1
  /\ ReapBulk \/ ReapControl \/ ReapIso
  /\ UNCHANGED <<shape, next, cancel, received, trouble, gone, faults>>

\* usbi_handle_disconnect: nothing more to reap and still in flight.
Disconnect ==
  /\ phase = "inflight" /\ gone /\ ~CanReap
  /\ Done("NO_DEVICE")
  /\ urbs' = <<>> /\ reapable' = <<>>
  /\ UNCHANGED <<shape, next, retired, action, reapStatus, transferred, buffer, offset, cancel, busVars>>

\* libusb_cancel_transfer and op_cancel_transfer, by a timeout or the owner.
Cancel ==
  /\ phase = "inflight" /\ cancel = "none"
  /\ cancel' = DiscardResult(1..NumUrbs, NumUrbs)
  /\ urbs' = Discarded(urbs, 1..NumUrbs)
  /\ reapable' = DiscardedList(reapable, 1..NumUrbs)
  /\ action' = IF cancel' = "OK" /\ ~(shape.type = "bulk" /\ action = "ERROR")
               THEN "CANCELLED" ELSE action
  /\ UNCHANGED <<shape, phase, next, retired, reapStatus, transferred, buffer, offset, status, busVars>>

\* --- the kernel and the device -----------------------------------------------

Stalled == Contains(trouble, "stall")
HeadUrb == CHOOSE i \in Pending : \A j \in Pending : i <= j
Kernel == UNCHANGED <<shape, phase, next, retired, action, reapStatus, transferred, buffer, offset, cancel, status>>

\* A packet is moved; it may be the one that fills its URB.
Packet ==
  /\ Pending # {} /\ ~gone /\ ~Stalled /\ shape.type # "iso"
  /\ LET i == HeadUrb
         full == [urbs EXCEPT ![i].data = Append(@, received + 1)]
     IN  /\ Len(urbs[i].data) < urbs[i].len
         /\ received' = received + 1
         /\ IF Len(urbs[i].data) + 1 = urbs[i].len
            THEN urbs' = HandBack(full, <<i>>, "ok") /\ reapable' = Append(reapable, i)
            ELSE urbs' = full /\ UNCHANGED reapable
  /\ Kernel /\ UNCHANGED <<trouble, gone, faults>>

\* The device ends its data with a short packet, or an empty URB is done.  The
\* kernel cancels the URBs that continue the transfer.
ShortPacket ==
  /\ Pending # {} /\ ~gone /\ ~Stalled /\ shape.type # "iso"
  /\ shape.in \/ shape.length = 0
  /\ LET i == HeadUrb
         s == IF ShortEnds(i) THEN "short" ELSE "ok"
         rest == IF ShortEnds(i) THEN Ascending(Pending \ {i}) ELSE <<>>
     IN  /\ urbs' = HandBack(HandBack(urbs, <<i>>, s), rest, "cancelled")
         /\ reapable' = reapable \o <<i>> \o rest
         /\ trouble' = Append(trouble, "short")
  /\ Kernel /\ UNCHANGED <<received, gone, faults>>

\* The frames of an isochronous URB are over.
IsoDone ==
  /\ Pending # {} /\ ~gone /\ shape.type = "iso"
  /\ urbs' = HandBack(urbs, <<HeadUrb>>, "ok")
  /\ reapable' = Append(reapable, HeadUrb)
  /\ Kernel /\ UNCHANGED busVars

\* A stalled endpoint stalls every URB; another error may be a single one.
\* Continued URBs are cancelled.  Overflow happens in the last URB only, as
\* linux_usbfs.c:2435 has it.
BusError(s) ==
  /\ Pending # {} /\ ~gone /\ shape.type # "iso"
  /\ s = "overflow" => HeadUrb = NumUrbs
  /\ Stalled => s = "stall"
  /\ \/ Stalled /\ UNCHANGED faults
     \/ ~Stalled /\ faults < Faults /\ faults' = faults + 1
  /\ LET i == HeadUrb
         rest == IF Continues THEN Ascending(Pending \ {i}) ELSE <<>>
     IN  /\ urbs' = HandBack(HandBack(urbs, <<i>>, s), rest, "cancelled")
         /\ reapable' = reapable \o <<i>> \o rest
  /\ trouble' = IF Stalled THEN trouble ELSE Append(trouble, s)
  /\ Kernel /\ UNCHANGED <<received, gone>>

Unplug ==
  /\ ~gone /\ phase \in {"submitting", "inflight"} /\ faults < Faults
  /\ faults' = faults + 1 /\ gone' = TRUE
  /\ urbs' = HandBack(urbs, Ascending(Pending), "nodev")
  /\ reapable' = reapable \o Ascending(Pending)
  /\ Kernel /\ UNCHANGED <<received, trouble>>

\* --- specification ----------------------------------------------------------------

Init ==
  /\ shape \in Shapes
  /\ phase = "idle" /\ next = 1 /\ urbs = <<>> /\ reapable = <<>>
  /\ retired = 0 /\ action = "NORMAL" /\ reapStatus = "COMPLETED"
  /\ transferred = 0 /\ offset = 0
  /\ buffer = [k \in 1..shape.length |-> 0]
  /\ cancel = "none" /\ status = "none"
  /\ received = 0 /\ trouble = <<>> /\ gone = FALSE /\ faults = 0

Submission == Submit \/ SubmitUrb \/ FirstUrbFails \/ LaterUrbFails
Bus == Packet \/ ShortPacket \/ IsoDone \/ Unplug \/ \E s \in {"stall", "proto", "overflow"} : BusError(s)
Terminated == phase \in {"done", "refused"} /\ UNCHANGED vars

Next == Submission \/ SubmitRefused \/ Reap \/ Disconnect \/ Cancel \/ Bus \/ Terminated

\* The caller's loop and the event handler run; bus and owner owe nothing.
Spec == Init /\ [][Next]_vars /\ WF_vars(Submission) /\ WF_vars(Reap \/ Disconnect)

\* --- properties --------------------------------------------------------------------

\* Types, and the bounds of the counters: no URB is retired twice and no more
\* is reported than was asked for (num_retired, itransfer->transferred).
TypeOK ==
  /\ shape \in Shapes
  /\ phase \in {"idle", "submitting", "inflight", "refused", "done"}
  /\ action \in {"NORMAL", "SUBMIT_FAILED", "CANCELLED", "COMPLETED_EARLY", "ERROR"}
  /\ retired \in 0..NumUrbs /\ transferred \in 0..shape.length
  /\ offset \in 0..shape.length
  /\ IsInjective(reapable)
  /\ buffer \in [1..shape.length -> 0..shape.length]

\* A transfer is not reported while the kernel still has, or will still hand
\* over, a URB of it: its owner is free to release the memory
\* (linux_usbfs.c:2061-2064).
NothingOutstanding ==
  phase \in {"done", "refused"} => reapable = <<>> /\ Pending = {}

\* The status is the first thing that happened: success only when everything
\* arrived or the device ended its data before any error, an error only after
\* an error of that kind that nothing came before.  A transfer the kernel ended
\* during its submission is the subject of CompletedWithoutError.
EndedInSubmission == action = "COMPLETED_EARLY" /\ \E i \in DOMAIN urbs : urbs[i].state = "new"
First(s) == trouble # <<>> /\ Head(trouble) = s
StatusIsTrue ==
  /\ status = "COMPLETED" => First("short") \/ EndedInSubmission \/ (trouble = <<>> /\ (transferred = shape.length \/ shape.type = "iso"))
  /\ status = "ERROR" => First("proto") \/ Contains(trouble, "submit") \/ shape.shortNotOk \/ gone
  /\ status = "STALL" => First("stall")
  /\ status = "OVERFLOW" => First("overflow")
  /\ status = "NO_DEVICE" => gone

\* libusb_cancel_transfer returns 0 exactly when the transfer ends as cancelled,
\* although URBs of it may have ended in any way before.
CancelIsHonest ==
  phase = "done" /\ ~gone => (cancel = "OK" <=> status = "CANCELLED")

\* What is received in spite of an early end, an error or a cancellation is
\* neither lost nor leaves a hole (linux_usbfs.c:2372-2387).
Transfer == INSTANCE UsbTransfer WITH
  state <- IF phase = "submitting" THEN "inflight" ELSE phase,
  received <- [k \in 1..received |-> k],
  given <- IF phase = "done" /\ (status # "NO_DEVICE" \/ transferred = received) THEN SubSeq(buffer, 1, transferred) ELSE <<>>,
  status <- status
ImplementsTransfer == Transfer!Spec

\* Isochronous results stay with their packets as long as nothing is discarded.
IsoInOrder ==
  shape.type = "iso" /\ action = "NORMAL" /\ ~gone => \A k \in 1..offset : buffer[k] = k

\* Once it is cancelled, has failed or has ended early, a transfer is reported
\* without the help of the device.
EndsWhenCancelled == (cancel = "OK" \/ action # "NORMAL") ~> phase = "done"
=============================================================================
