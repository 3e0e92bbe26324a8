-------------------------------- MODULE RkMain --------------------------------
(***************************************************************************)
(* The command lines of main.cpp: the maskrom gate, and for every command  *)
(* the calls of RK_usb it makes one after the other and what it does when  *)
(* one of them fails.  A call is a remote call of RkCall, which RkCommand  *)
(* implements: it may be executed after the process that made it has ended *)
(* with an error.  The device (external) has a storage medium, and a mode  *)
(* that the gate looks at.                                                 *)
(*                                                                         *)
(* clean, failed and log are history variables.                            *)
(***************************************************************************)
EXTENDS Integers, Sequences

CONSTANTS
    Lines,      \* command lines: [name, arg, len]
    Capable,    \* what the loader that runs on the device supports
    Media,      \* the media the device may have when it starts
    CHUNK,      \* bytes or sectors per call of a loop: 128 in the code
    MaxCalls,   \* bound: calls in a behaviour
    Processes   \* bound: processes in a behaviour

VARIABLES
    started, busy, result, pending, executed, trusted,   \* of RkCall
    pc,        \* "idle", "run" or "call" (in a call of RK_usb)
    line,      \* the command line
    step,      \* how far in its plan the process is
    type,      \* what storage_read returned
    at, left,  \* of a loop: where it is, and what is left
    exit,      \* "none", "ok" (0) or "error" (-1)
    request,   \* the calls made, by number
    mode,      \* device: "maskrom" or "loader" (bit 0 of bcdUSB)
    medium,    \* device: its storage medium
    answer,    \* device: what it answered to the last call
    log,       \* the calls of this process that were executed, with the medium at the time
    process,   \* how many processes there were
    first,     \* the first call of this process
    clean,     \* trusted when the process began
    failed     \* the calls of this process that failed

callVars == <<started, busy, result, pending, executed, trusted>>
mainVars == <<pc, line, step, type, at, left, exit>>
deviceVars == <<mode, medium, answer>>
history == <<log, process, first, clean, failed>>
vars == <<callVars, mainVars, request, deviceVars, history>>

Call == INSTANCE RkCall

-----------------------------------------------------------------------------
\* enum storage_type_t: the bits storage_read understands.
Code == [UNKNOWN |-> 0, FLASH |-> 1, EMMC |-> 2, SD |-> 4, SD1 |-> 8, RAM |-> 64, USB |-> 128,
         SPINAND |-> 256, SPINOR |-> 512, SATA |-> 1024, PCIE |-> 2048]
Types == DOMAIN Code

\* storage_switch: the number it sends; what is not in its list is left 0.
SubCode == [UNKNOWN |-> 0, FLASH |-> 0, EMMC |-> 1, SD |-> 2, SD1 |-> 3, SPINOR |-> 9, SPINAND |-> 8,
            RAM |-> 6, USB |-> 7, SATA |-> 10, PCIE |-> 11]

\* `storage <index>'
Indices == <<"FLASH", "EMMC", "SD", "SD1", "SPINOR", "SPINAND", "RAM", "USB", "SATA", "PCIE">>
TypeAt(index) == IF index \in DOMAIN Indices THEN Indices[index] ELSE "UNKNOWN"

\* storage_read: a value it does not know is UNKNOWN.
Reported(code) == IF \E t \in Types : Code[t] = code THEN CHOOSE t \in Types : Code[t] = code ELSE "UNKNOWN"

\* upgrade: where the loader of a medium begins.
FirstSector(t) == CASE t = "SPINOR" -> 128 [] t = "SPINAND" -> 256 [] OTHER -> 64

-----------------------------------------------------------------------------
\* The calls of a command line.  A `must' ends the process with an error when it
\* fails, an `or' is followed by an alternative, after `any' it goes on regardless;
\* a `loop' is repeated while there is something left.
Do(name, kind) == [do |-> name, kind |-> kind]

flash_detect == <<Do("flash_info", "must"), Do("flash_id", "must")>>
vendor_storage == <<Do("VENDOR_STORAGE", "or"), Do("NEW_VENDOR_STORAGE", "must")>>

upgrade == <<Do("storage_read", "any")>> \o flash_detect \o <<Do("flash_write", "loop")>>
storage == <<Do("storage_read", "any")>>
storage_index == <<Do("SWITCH_STORAGE", "must"), Do("storage_switch", "must"), Do("storage_read", "any")>>
otp == <<Do("READ_OTP_CHIP", "must"), Do("otp_read", "must")>>
sn == vendor_storage \o <<Do("sn_read", "must")>>
sn_string == vendor_storage \o <<Do("sn_write", "must")>>
vs_read == vendor_storage \o <<Do("vs_read", "must")>>
vs_write == vendor_storage \o <<Do("vs_write", "must")>>
flash_range(name) == flash_detect \o <<Do(name, "loop")>>

Plan(l) ==
    CASE l.name = "upgrade" -> upgrade
      [] l.name = "storage" -> IF l.arg < 0 THEN storage ELSE storage_index
      [] l.name = "otp" -> otp
      [] l.name = "sn" -> IF l.arg < 0 THEN sn ELSE sn_string
      [] l.name = "vs_read" -> vs_read
      [] l.name = "vs_write" -> vs_write
      [] l.name = "flash" -> flash_detect
      [] l.name \in {"flash_erase", "flash_read", "flash_write"} -> flash_range(l.name)
      [] l.name \in {"mem_read", "mem_write"} -> <<Do(l.name, "loop")>>
      [] OTHER -> <<Do(l.name, "must")>>      \* ready, version, capability, reset, exec

Capabilities == {"VENDOR_STORAGE", "NEW_VENDOR_STORAGE", "SWITCH_STORAGE", "READ_OTP_CHIP"}

\* What a call that asks for a capability needs of the device.
Needs(do) == CASE do \in {"sn_read", "sn_write", "vs_read", "vs_write"} -> {"VENDOR_STORAGE", "NEW_VENDOR_STORAGE"}
               [] do = "storage_switch" -> {"SWITCH_STORAGE"}
               [] do = "otp_read" -> {"READ_OTP_CHIP"}
               [] OTHER -> {}

This == Plan(line)[step]
Lesser(a, b) == IF a < b THEN a ELSE b

-----------------------------------------------------------------------------
Init ==
    /\ Call!Init
    /\ pc = "idle" /\ line = [name |-> "none", arg |-> 0, len |-> 0] /\ step = 1 /\ type = "UNKNOWN"
    /\ at = 0 /\ left = 0 /\ exit = "none" /\ request = << >>
    /\ mode \in {"maskrom", "loader"} /\ medium \in Media /\ answer = 0
    /\ log = << >> /\ process = 0 /\ first = 1 /\ clean = TRUE /\ failed = {}

Exit(code) == pc' = "idle" /\ exit' = code

\* A process starts: init(), the gate, the arguments; a file is loaded, a buffer
\* allocated.
Launch(l) ==
    /\ pc = "idle" /\ started < MaxCalls /\ process < Processes
    /\ line' = l /\ step' = 1 /\ type' = "UNKNOWN"
    /\ at' = l.arg /\ left' = l.len
    /\ process' = process + 1 /\ first' = started + 1 /\ log' = << >> /\ clean' = trusted /\ failed' = {}
    /\ \/ mode = "maskrom" /\ pc' = "run" /\ exit' = "none"
       \/ mode = "loader" /\ Exit("error")
       \/ mode = "maskrom" /\ l.len > 0 /\ Exit("error")
    /\ UNCHANGED <<callVars, request, deviceVars>>

\* The next call; a loop does one chunk.
Issue ==
    /\ pc = "run" /\ step <= Len(Plan(line)) /\ started < MaxCalls
    /\ This.kind = "loop" => left > 0
    /\ request' = Append(request,
         [do |-> This.do, at |-> at, n |-> IF This.kind = "loop" THEN Lesser(left, CHUNK) ELSE 0,
          sub |-> SubCode[TypeAt(line.arg)]])
    /\ Call!Start
    /\ pc' = "call"
    /\ UNCHANGED <<line, step, type, at, left, exit, deviceVars, history>>

\* A range that begins behind the end is refused once the size is known; a loop
\* that has done all ends.
LoopEnds ==
    /\ pc = "run" /\ step <= Len(Plan(line)) /\ This.kind = "loop" /\ left = 0
    /\ step' = step + 1
    /\ UNCHANGED <<callVars, pc, line, type, at, left, exit, request, deviceVars, history>>

Finish ==
    /\ pc = "run" /\ step > Len(Plan(line))
    /\ Exit("ok")
    /\ UNCHANGED <<callVars, line, step, type, at, left, request, deviceVars, history>>

\* What a call returns: the device's answer, or after a failure an older one.
Answers == {answer} \cup (IF trusted THEN {} ELSE {0, 1, Code.SPINOR})

Advance == LET n == Lesser(left, CHUNK) IN at' = at + n /\ left' = left - n

\* capability_support: the first of two that is there will do.
CapabilityDone ==
    \E a \in Answers :
        IF a = 1 THEN step' = step + (IF This.kind = "or" THEN 2 ELSE 1) /\ pc' = "run" /\ exit' = exit
        ELSE IF This.kind = "or" THEN step' = step + 1 /\ pc' = "run" /\ exit' = exit
        ELSE step' = step /\ Exit("error")

\* storage_read returned a medium: upgrade takes its first sector from it.
StorageDone ==
    /\ \E a \in Answers : type' = Reported(a)
    /\ at' = IF line.name = "upgrade" THEN FirstSector(type') ELSE at
    /\ step' = step + 1 /\ pc' = "run"

\* A call returned true.
Done ==
    /\ pc = "call" /\ Call!Succeed
    /\ CASE This.do \in Capabilities -> CapabilityDone /\ UNCHANGED <<type, at, left>>
         [] This.do = "storage_read" -> StorageDone /\ UNCHANGED <<left, exit>>
         [] This.kind = "loop" -> Advance /\ pc' = "run" /\ UNCHANGED <<step, type, exit>>
         [] This.do = "flash_id" ->         \* the range may begin behind the end
              /\ \/ step' = step + 1 /\ pc' = "run" /\ exit' = exit
                 \/ line.name \in {"flash_erase", "flash_read", "flash_write"} /\ step' = step /\ Exit("error")
              /\ UNCHANGED <<type, at, left>>
         [] This.do \in {"sn_read", "vs_read"} ->    \* no serial number, the file cannot be saved
              /\ \/ step' = step + 1 /\ pc' = "run" /\ exit' = exit
                 \/ step' = step /\ Exit("error")
              /\ UNCHANGED <<type, at, left>>
         [] OTHER -> step' = step + 1 /\ pc' = "run" /\ UNCHANGED <<type, at, left, exit>>
    /\ UNCHANGED <<line, request, deviceVars, history>>

\* Mutant: the process goes on after a failed call.
FailedGoesOn ==
    /\ pc = "call" /\ Call!Fail
    /\ failed' = failed \cup {This.do}
    /\ step' = step + 1 /\ pc' = "run"
    /\ UNCHANGED <<line, type, at, left, exit, request, deviceVars, log, process, first, clean>>

\* It returned false.
Failed ==
    /\ pc = "call" /\ Call!Fail
    /\ failed' = failed \cup {This.do}
    /\ IF This.kind \in {"any", "or"}
       THEN /\ step' = step + 1 /\ pc' = "run" /\ exit' = exit
            /\ at' = IF line.name = "upgrade" THEN FirstSector("UNKNOWN") ELSE at
       ELSE Exit("error") /\ UNCHANGED <<step, at>>
    /\ UNCHANGED <<line, type, left, request, deviceVars, log, process, first, clean>>

\* The process is killed, or has ended; the device may be replugged.
NewProcess ==
    /\ Call!Restart
    /\ Exit(IF pc = "idle" THEN exit ELSE "error")
    /\ UNCHANGED <<line, step, type, at, left, request, deviceVars, history>>

-----------------------------------------------------------------------------
\* The device (external).  It executes a call and answers: a capability with 0 or 1,
\* storage_read with the bit of its medium.
DeviceExecute(c) ==
    LET r == request[c]
    IN /\ Call!Execute(c)
       /\ log' = IF c < first THEN log ELSE Append(log, [call |-> c, medium |-> medium])
       /\ medium' = IF r.do = "storage_switch" THEN Reported(2^r.sub) ELSE medium
       /\ mode' \in IF r.do = "reset" THEN {"maskrom", "loader"} ELSE {mode}
       /\ answer' = CASE r.do \in Capabilities -> (IF r.do \in Capable THEN 1 ELSE 0)
                      [] r.do = "storage_read" -> Code[medium]
                      [] OTHER -> 0
       /\ UNCHANGED <<mainVars, request, process, first, clean, failed>>

DeviceLoses == Call!Lose /\ UNCHANGED <<mainVars, request, deviceVars, history>>

-----------------------------------------------------------------------------
Step == Issue \/ LoopEnds \/ Finish \/ Done \/ Failed

Next ==
    \/ \E l \in Lines : Launch(l)
    \/ Step \/ NewProcess
    \/ \E c \in pending : DeviceExecute(c)
    \/ DeviceLoses

Spec == Init /\ [][Next]_vars

-----------------------------------------------------------------------------
TypeOK ==
    /\ pc \in {"idle", "run", "call"} /\ busy = (pc = "call")
    /\ step \in 1..5 /\ type \in Types /\ medium \in Types /\ left \in 0..line.len
    /\ exit \in {"none", "ok", "error"} /\ (exit = "none") <=> (pc # "idle" \/ line.name = "none")
    /\ Len(request) = started /\ clean \in BOOLEAN /\ failed \subseteq {request[i].do : i \in DOMAIN request}

Loops == SelectSeq(log, LAMBDA e : request[e.call].n > 0)

\* The loop covered `from' to from + line.len, piece after piece.
Covers(from) ==
    /\ Len(Loops) = (line.len + CHUNK - 1) \div CHUNK
    /\ \A i \in DOMAIN Loops : LET r == request[Loops[i].call]
                               IN r.at = from + (i - 1) * CHUNK /\ r.n = Lesser(CHUNK, line.len - (i - 1) * CHUNK)

\* A process that exits with 0 has done what its command says, when nothing of an
\* earlier process was in the way and none of its calls failed: the range was done
\* from end to end, the loader is where the medium of the device has it, the
\* medium is the one that was asked for.
ZeroMeansDone ==
    (exit = "ok" /\ clean /\ failed = {}) =>
        /\ Len(log) = started - first + 1
        /\ line.name = "upgrade" => /\ Covers(FirstSector(medium))
                                    /\ \A i \in DOMAIN log : log[i].medium = medium
        /\ line.name \in {"flash_erase", "flash_read", "flash_write", "mem_read", "mem_write"} => Covers(line.arg)
        /\ (line.name = "storage" /\ line.arg \in DOMAIN Indices) => medium = TypeAt(line.arg)

\* The device is never asked for what its loader does not support: vendor storage,
\* another medium, OTP - as long as no answer is taken for another.
OnlySupported ==
    trusted => \A i \in DOMAIN log :
        LET do == request[log[i].call].do IN clean /\ Needs(do) # {} => Needs(do) \cap Capable # {}

\* 0 is never returned for a command that failed, but for storage_read: it is then
\* that `storage' shows no medium and upgrade writes to sector 64.
ZeroMeansNoFailure == exit = "ok" => failed \subseteq {"storage_read", "VENDOR_STORAGE"}
=============================================================================
