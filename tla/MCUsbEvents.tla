---------------------------- MODULE MCUsbEvents ----------------------------
(* Constants of UsbEvents for TLC. *)
EXTENDS UsbEvents, TLC
CONSTANTS t1, t2, c1
\* One thread with a timeout, one without.
MCTimeout == (t1 :> 1) @@ (t2 :> 0)
\* Both with a timeout.
MCTwoTimeouts == (t1 :> 1) @@ (t2 :> 1)
\* Everything that may happen.
MCAll == {"unplug", "poll", "submission", "interrupt", "minute", "close"}
\* With a timerfd one of them, or a close and a failure of poll(); without one there is
\* only a close, a failure of poll() or one of a submission.
MCCost == [d \in MCAll |-> CASE d = "close" -> 2
                             [] d = "poll" -> 3
                             [] d = "submission" -> 4
                             [] OTHER -> 5]
MCFaults == [b \in BOOLEAN |-> IF b THEN 5 ELSE 4]
=============================================================================
