-------------------------------- MODULE RkScan --------------------------------
(***************************************************************************)
(* RK_usb::init: processes that look for a Rockchip device in the device   *)
(* list of libusb while devices are plugged in and taken away.  The list   *)
(* is fetched anew for every index; libusb (see UsbDevices) puts a new     *)
(* device at its head.  Then the interface is claimed, which the kernel    *)
(* (external) gives to one process at a time.                              *)
(***************************************************************************)
EXTENDS Naturals, Sequences, FiniteSets, SequencesExt

CONSTANTS
    Procs,        \* processes: rk_usb run more than once at a time
    Devices,      \* all devices: [known, other, maskrom], see Kind
    Kind,         \* a device's idProduct and idVendor: "chip" of chips[], "vendor" or "other"
    Maskrom,      \* the devices in maskrom mode, by bit 0 of bcdUSB
    Plugs,        \* bound: plugging and unplugging
    Refusals,     \* bound: opens that fail
    None

\* Finitely many devices, and bounds.
ScanAssumption ==
    /\ IsFiniteSet(Devices) /\ None \notin Devices \cup Procs
    /\ Plugs \in Nat /\ Refusals \in Nat

VARIABLES
    pc,       \* "ready", "scan", "claim", "true" or "false" (returned)
    count,    \* the index
    handle,   \* m_handle
    chip,     \* m_chip: the device it is right for; None is the entry for unknown chips
    maskrom,  \* m_maskrom
    bus,      \* the device list, as libusb_get_device_list returns it now
    claimed,  \* kernel: the process that has claimed a device, or its driver
    present,  \* history: devices plugged in since the scan of a process began
    shifted,  \* history: a device was taken away since then
    plugs, refusals

procVars == <<pc, count, handle, chip, maskrom>>
kernelVars == <<bus, claimed>>
vars == <<procVars, kernelVars, present, shifted, plugs, refusals>>

Rockchip(d) == Kind[d] # "other"
OnBus == Range(bus)
Opens(d) == IF Kind[d] = "chip" THEN 2 ELSE 1     \* how often a device is tried
InUse(d) == \E p \in Procs : handle[p] = d

Begin(p) ==
    /\ pc[p] = "ready"
    /\ pc' = [pc EXCEPT ![p] = "scan"]
    /\ present' = [present EXCEPT ![p] = OnBus]
    /\ shifted' = [shifted EXCEPT ![p] = FALSE]
    /\ UNCHANGED <<count, handle, chip, maskrom, kernelVars, plugs, refusals>>

Found(p, d, c) ==
    /\ handle' = [handle EXCEPT ![p] = d]
    /\ chip' = [chip EXCEPT ![p] = c]
    /\ pc' = [pc EXCEPT ![p] = "claim"]
    /\ UNCHANGED <<count, maskrom, refusals>>

\* One round of the loop: the list is fetched and the device at `count' looked at.
\* A chip of the table is opened, and when that fails once more as an unknown one.
Look(p) ==
    /\ pc[p] = "scan" /\ count[p] < Len(bus)
    /\ LET d == bus[count[p] + 1]
       IN \/ Rockchip(d) /\ Found(p, d, IF Kind[d] = "chip" THEN d ELSE None)
          \/ Kind[d] = "chip" /\ refusals < Refusals /\ refusals' = refusals + 1
             /\ handle' = [handle EXCEPT ![p] = d] /\ chip' = [chip EXCEPT ![p] = None]
             /\ pc' = [pc EXCEPT ![p] = "claim"] /\ UNCHANGED <<count, maskrom>>
          \/ Rockchip(d) /\ refusals + Opens(d) =< Refusals /\ refusals' = refusals + Opens(d)
             /\ count' = [count EXCEPT ![p] = @ + 1] /\ UNCHANGED <<pc, handle, chip, maskrom>>
          \/ ~Rockchip(d) /\ count' = [count EXCEPT ![p] = @ + 1] /\ UNCHANGED <<pc, handle, chip, maskrom, refusals>>
    /\ UNCHANGED <<kernelVars, present, shifted, plugs>>

\* Mutant: the last device of the list is not looked at.
NotFoundEarly(p) ==
    /\ pc[p] = "scan" /\ count[p] + 1 >= Len(bus)
    /\ pc' = [pc EXCEPT ![p] = "false"]
    /\ UNCHANGED <<count, handle, chip, maskrom, kernelVars, present, shifted, plugs, refusals>>

\* The index is behind the end of the list.
NotFound(p) ==
    /\ pc[p] = "scan" /\ count[p] >= Len(bus)
    /\ pc' = [pc EXCEPT ![p] = "false"]
    /\ UNCHANGED <<count, handle, chip, maskrom, kernelVars, present, shifted, plugs, refusals>>

\* The kernel's driver is detached, the interface claimed, the descriptors are read.
Claim(p) ==
    /\ pc[p] = "claim"
    /\ LET d == handle[p]
       IN IF d \in OnBus /\ claimed[d] \notin Procs
          THEN /\ claimed' = [claimed EXCEPT ![d] = p]
               /\ maskrom' = [maskrom EXCEPT ![p] = d \in Maskrom]
               /\ pc' = [pc EXCEPT ![p] = "true"]
          ELSE /\ pc' = [pc EXCEPT ![p] = "false"]
               /\ UNCHANGED <<claimed, maskrom>>
    /\ UNCHANGED <<count, handle, chip, bus, present, shifted, plugs, refusals>>

\* The process ends; its destructor closes the handle, which gives the interface back.
End(p) ==
    /\ pc[p] \in {"true", "false"}
    /\ claimed' = [d \in Devices |-> IF claimed[d] = p THEN None ELSE claimed[d]]
    /\ handle' = [handle EXCEPT ![p] = None] /\ chip' = [chip EXCEPT ![p] = None]
    /\ maskrom' = [maskrom EXCEPT ![p] = FALSE] /\ count' = [count EXCEPT ![p] = 0]
    /\ pc' = [pc EXCEPT ![p] = "ready"]
    /\ UNCHANGED <<bus, present, shifted, plugs, refusals>>

Plug(d) ==
    /\ d \notin OnBus /\ ~InUse(d) /\ plugs < Plugs /\ plugs' = plugs + 1
    /\ bus' = <<d>> \o bus
    /\ claimed' = [claimed EXCEPT ![d] = None]
    /\ UNCHANGED <<procVars, present, shifted, refusals>>

Unplug(d) ==
    /\ plugs < Plugs /\ plugs' = plugs + 1
    /\ \E i \in DOMAIN bus : bus[i] = d /\ bus' = RemoveAt(bus, i)
    /\ present' = [p \in Procs |-> present[p] \ {d}]
    /\ shifted' = [p \in Procs |-> TRUE]
    /\ claimed' = [claimed EXCEPT ![d] = None]
    /\ UNCHANGED <<procVars, refusals>>

Init ==
    /\ pc = [p \in Procs |-> "ready"] /\ count = [p \in Procs |-> 0]
    /\ handle = [p \in Procs |-> None] /\ chip = [p \in Procs |-> None] /\ maskrom = [p \in Procs |-> FALSE]
    /\ bus \in {q \in UNION {[1..n -> Devices] : n \in 0..Cardinality(Devices)} : IsInjective(q)}
    /\ claimed = [d \in Devices |-> None]
    /\ present = [p \in Procs |-> {}] /\ shifted = [p \in Procs |-> FALSE] /\ plugs = 0 /\ refusals = 0

Next == \/ \E p \in Procs : Begin(p) \/ Look(p) \/ NotFound(p) \/ Claim(p) \/ End(p)
        \/ \E d \in Devices : Plug(d) \/ Unplug(d)

Spec == Init /\ [][Next]_vars

-----------------------------------------------------------------------------
TypeOK ==
    /\ \A p \in Procs : pc[p] \in {"ready", "scan", "claim", "true", "false"}
    /\ \A p \in Procs : count[p] \in 0..Len(bus) + Plugs
    /\ handle \in [Procs -> Devices \cup {None}] /\ IsInjective(bus)
    /\ claimed \in [Devices -> Procs \cup {None}]

\* A process whose init returned true has the interface for itself, and knows what
\* the gate of main.cpp is to look at, as long as the device stays plugged in.
OwnsItsDevice ==
    \A p \in Procs : pc[p] = "true" /\ handle[p] \in OnBus =>
        claimed[handle[p]] = p /\ maskrom[p] = (handle[p] \in Maskrom)

\* A scan does not overlook a Rockchip device that is there all the time and can be
\* opened, whatever is plugged in meanwhile.  Taking a device away may hide one:
\* the list gets shorter in front of the index.
FindsWhatIsThere ==
    \A p \in Procs : pc[p] = "false" /\ handle[p] = None /\ ~shifted[p] /\ refusals = 0 =>
        \A d \in present[p] : ~Rockchip(d)

\* What init() is for: both of them.
FindsAndOwns ==
    /\ TypeOK
    /\ OwnsItsDevice
    /\ FindsWhatIsThere
=============================================================================
