------------------------------- MODULE WinIso -------------------------------
(***************************************************************************)
(* An isochronous transfer over WinUSB (winusbx_submit_iso_transfer and    *)
(* its callback, winusb_clear_transfer_priv): the buffer is registered for *)
(* every submission; the first try continues the stream, under a callback  *)
(* of libusb's own that tries once more without if it does not succeed.    *)
(***************************************************************************)
EXTENDS Naturals

CONSTANTS Submits, Faults   \* bounds: submissions by the application, calls that fail

VARIABLES at,               \* "idle", or what is being done
          callback, saved,  \* transfer->callback, iso_user_callback
          breaks,           \* iso_break_stream
          handle,           \* isoch_buffer_handle is not NULL
          registered,       \* buffers registered with the system
          stuck,            \* of those, the ones it did not let go of
          status,           \* of the last try
          tries, told, refused, \* since the application submitted: tries, callbacks, a refused retry
          submits, faults

vars == <<at, callback, saved, breaks, handle, registered, stuck, status, tries, told, refused, submits, faults>>
calls == <<tries, told, refused>>

MayFail == faults < Faults /\ faults' = faults + 1
Works == UNCHANGED faults

-----------------------------------------------------------------------------
\* The application fills in its transfer, its callback with it, and submits it.
Submit ==
  /\ at = "idle" /\ submits < Submits
  /\ submits' = submits + 1
  /\ callback' = "user"
  /\ tries' = 0 /\ told' = 0 /\ refused' = FALSE
  /\ at' = "check"
  /\ UNCHANGED <<saved, breaks, handle, registered, stuck, status, faults>>

\* No interface, no endpoint, a length the pipe does not take: nothing is changed.
Check ==
  /\ at = "check"
  /\ \/ Works /\ at' = "register"
     \/ MayFail /\ at' = "refused"
  /\ UNCHANGED <<callback, saved, breaks, handle, registered, stuck, status, calls, submits>>

\* A buffer that is still registered is let go of, or it is no use; the new one is
\* registered.
Register ==
  /\ at = "register"
  /\ LET left == registered - (IF handle THEN 1 ELSE 0)
     IN \/ Works /\ registered' = left + 1 /\ handle' = FALSE /\ at' = "start"
        \/ MayFail /\ at' = "refused"
           /\ \/ handle /\ UNCHANGED <<registered, handle>>
              \/ registered' = left /\ handle' = FALSE
  /\ UNCHANGED <<callback, saved, breaks, stuck, status, calls, submits>>

\* The driver takes the transfer, or its buffer goes again; libusb's callback stays
\* in either case.
Start ==
  /\ at = "start"
  /\ IF breaks THEN UNCHANGED <<callback, saved>> ELSE saved' = callback /\ callback' = "libusb"
  /\ \/ /\ Works /\ handle' = TRUE /\ breaks' = FALSE /\ tries' = tries + 1 /\ at' = "flight"
        /\ UNCHANGED <<registered, stuck>>
     \/ /\ MayFail /\ at' = "refused" /\ UNCHANGED <<handle, breaks, tries>>
        /\ \/ registered' = registered - 1 /\ UNCHANGED stuck
           \/ stuck' = stuck + 1 /\ UNCHANGED registered
  /\ UNCHANGED <<status, told, refused, submits>>

\* winusb_clear_transfer_priv, after a refusal and after a completion: a handle the
\* system does not let go of is kept.
Unregister ==
  IF handle
  THEN \/ Works /\ handle' = FALSE /\ registered' = registered - 1
       \/ MayFail /\ UNCHANGED <<handle, registered>>
  ELSE Works /\ UNCHANGED <<handle, registered>>

\* A refused submission returns its error: to the application, or to libusb's callback,
\* which ignores it.
Refused ==
  /\ at = "refused"
  /\ Unregister
  /\ refused' = TRUE
  /\ at' = "idle"
  /\ UNCHANGED <<callback, saved, breaks, stuck, status, tries, told, submits>>

\* It completes, whole or not, or is cancelled.
Complete ==
  /\ at = "flight"
  /\ status' \in {"COMPLETED", "ERROR", "CANCELLED"}
  /\ Unregister
  /\ at' = "callback"
  /\ UNCHANGED <<callback, saved, breaks, stuck, calls, submits>>

\* The application's callback, directly
Callback ==
  /\ at = "callback"
  /\ callback = "user" \/ (callback = "libusb" /\ status = "COMPLETED")
  /\ callback' = IF callback = "user" THEN callback ELSE saved
  /\ told' = told + 1
  /\ at' = "idle"
  /\ UNCHANGED <<saved, breaks, handle, registered, stuck, status, tries, refused, submits, faults>>

\* or winusbx_native_iso_transfer_continue_stream_callback, which tries once more.
Retry ==
  /\ at = "callback" /\ callback = "libusb" /\ status # "COMPLETED"
  /\ callback' = saved
  /\ breaks' = TRUE
  /\ at' = "check"
  /\ UNCHANGED <<saved, handle, registered, stuck, status, calls, submits, faults>>

-----------------------------------------------------------------------------
Init ==
  /\ at = "idle" /\ callback = "user" /\ saved = "none" /\ breaks = FALSE
  /\ handle = FALSE /\ registered = 0 /\ stuck = 0 /\ status = "none"
  /\ tries = 0 /\ told = 0 /\ refused = FALSE /\ submits = 0 /\ faults = 0

Next == Submit \/ Check \/ Register \/ Start \/ Refused \/ Complete \/ Callback \/ Retry

Spec == Init /\ [][Next]_vars

-----------------------------------------------------------------------------
\* Properties.

TypeOK ==
  /\ callback \in {"user", "libusb"} /\ saved \in {"none", "user", "libusb"}
  /\ registered \in Nat /\ stuck \in 0..Faults /\ tries \in Nat /\ told \in 0..1

\* The buffer of a transfer in flight is registered, and no other is but the ones the
\* system would not let go of.
BufferRegistered ==
  /\ at = "flight" => handle
  /\ registered = stuck + (IF handle THEN 1 ELSE 0) + (IF at = "start" THEN 1 ELSE 0)

\* The application hears once of every transfer it submitted, after one try or two,
\* unless a try was refused.
ToldOnce == at = "idle" /\ submits > 0 => told = (IF refused THEN 0 ELSE 1) /\ tries <= 2
=============================================================================
