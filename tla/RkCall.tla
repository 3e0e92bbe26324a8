-------------------------------- MODULE RkCall --------------------------------
(***************************************************************************)
(* What one command of RK_usb promises its caller, without packets: a      *)
(* remote call that the device executes at most once, in the order of the  *)
(* calls, possibly after the caller was told that it failed.  A result     *)
(* `true' means that the device has executed the call as long as `trusted' *)
(* holds: no call failed since the endpoints were last empty.  Afterwards  *)
(* the response may be a late answer to an earlier call and says nothing.  *)
(*                                                                         *)
(* RkCommand implements this module.                                       *)
(***************************************************************************)
EXTENDS Naturals

VARIABLES
    started,   \* calls started so far; a call is known by its number
    busy,      \* the caller waits for the last one
    result,    \* what it returned: "none" while it runs
    pending,   \* the calls the device may still execute
    executed,  \* the calls it has executed
    trusted    \* no call failed since the endpoints were last empty

vars == <<started, busy, result, pending, executed, trusted>>

Init ==
    /\ started = 0 /\ busy = FALSE /\ result = "none"
    /\ pending = {} /\ executed = {} /\ trusted = TRUE

Start ==
    /\ ~busy
    /\ started' = started + 1 /\ busy' = TRUE /\ result' = "none"
    /\ pending' = pending \cup {started'}
    /\ UNCHANGED <<executed, trusted>>

\* The device executes a call; the ones before it will not be executed any more.
Execute(s) ==
    /\ s \in pending
    /\ executed' = executed \cup {s}
    /\ pending' = {t \in pending : t > s}
    /\ UNCHANGED <<started, busy, result, trusted>>

\* Requests are lost: taken for data, or with the device's power.
Lose ==
    /\ pending' \in SUBSET pending
    /\ UNCHANGED <<started, busy, result, executed, trusted>>

Succeed ==
    /\ busy
    /\ trusted => started \in executed
    /\ busy' = FALSE /\ result' = "true"
    /\ UNCHANGED <<started, pending, executed, trusted>>

\* A failed call may be executed later on.  Trust is lost, except where the
\* device was reset.
Fail ==
    /\ busy
    /\ busy' = FALSE /\ result' = "false"
    /\ pending' \in SUBSET pending
    /\ trusted' \in (IF pending' = {} THEN BOOLEAN ELSE {FALSE})
    /\ UNCHANGED <<started, executed>>

\* A new process takes over, perhaps after the device was replugged.
Restart ==
    /\ busy' = FALSE /\ result' = "none"
    /\ pending' \in SUBSET pending
    /\ trusted' \in {trusted /\ ~busy} \cup (IF pending' = {} THEN {TRUE} ELSE {})
    /\ UNCHANGED <<started, executed>>

Return == Succeed \/ Fail

Next == Start \/ (\E s \in pending : Execute(s)) \/ Lose \/ Return \/ Restart

Spec == Init /\ [][Next]_vars

\* Every call returns.
FairSpec == Spec /\ WF_vars(Return)
=============================================================================
