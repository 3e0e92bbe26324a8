---------------------------- MODULE UsbTransfer ----------------------------
(***************************************************************************)
(* What a bulk, interrupt or control transfer promises its owner: it is    *)
(* refused at once, or it is in flight and then done once, with one        *)
(* status; and the owner gets everything that was received for it, in      *)
(* order and without a hole, unless the device went away (libusb.h, the    *)
(* fields status and actual_length of struct libusb_transfer).             *)
(***************************************************************************)
EXTENDS Naturals, Sequences

VARIABLES
  state,     \* "idle", "inflight", "refused" or "done"
  received,  \* what has been received for the transfer, in order
  given,     \* what the owner was given
  status     \* "none" until the transfer is done

vars == <<state, received, given, status>>

Begin == /\ state = "idle" /\ state' = "inflight"
         /\ UNCHANGED <<received, given, status>>

Refuse == /\ state \in {"idle", "inflight"} /\ received = <<>>
          /\ state' = "refused"
          /\ UNCHANGED <<received, given, status>>

Receive == /\ state = "inflight"
           /\ received' = Append(received, Len(received) + 1)
           /\ UNCHANGED <<state, given, status>>

End == /\ state = "inflight" /\ state' = "done"
       /\ status' # "none"
       /\ \/ given' = received
          \/ status' = "NO_DEVICE" /\ given' = <<>>
       /\ UNCHANGED received

Init == state = "idle" /\ received = <<>> /\ given = <<>> /\ status = "none"

Next == Begin \/ Refuse \/ Receive \/ End

Spec == Init /\ [][Next]_vars
=============================================================================
