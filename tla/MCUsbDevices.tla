---------------------------- MODULE MCUsbDevices ----------------------------
(* Constants of UsbDevices for TLC: a device behind a hub, and the calls that
   two application threads make. *)
EXTENDS UsbDevices
CONSTANTS hub, d1, a1, a2

MCParent == [i \in {hub, d1} |-> IF i = d1 THEN hub ELSE NoId]
Calls(first, second) == [t \in {a1, a2} |-> IF t = a1 THEN first ELSE second]
MCScripts ==
  { Calls(<<"list", "open", "close", "free">>, <<"list", "free">>),
    Calls(<<"enumerate", "deregister">>, <<"wrap", "close">>),
    Calls(<<"register", "deregister">>, <<"register", "deregister">>) }
=============================================================================
