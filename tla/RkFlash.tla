------------------------------- MODULE RkFlash -------------------------------
(***************************************************************************)
(* The flash loops of RK_usb: a range of sectors erased, written or read   *)
(* in chunks of MAXSEC sectors, one command per chunk (rk_usb.cpp, from    *)
(* flash_erase_lba to flash_write_lba_from_file_progress), with the        *)
(* clipping of main.cpp's flash command and of the file variant.           *)
(*                                                                         *)
(* A chunk command is a remote call of RkCall, which RkCommand implements: *)
(* it may be executed late, after the loop was told that it failed.  The   *)
(* device (external) holds the sectors; it may refuse a command, which the *)
(* response says and the code does not read, and it may lose its power in  *)
(* the middle of a chunk.                                                  *)
(*                                                                         *)
(* base, clean, refused and grown are history variables.                   *)
(***************************************************************************)
EXTENDS Integers, Sequences, FiniteSets

CONSTANTS
    Operations,  \* the operations that may be run: [kind, sec, cnt, len]
    MAXSEC,      \* sectors per command: 128 in the code
    BPS,         \* bytes per sector: 512 in the code
    Total,       \* sectors of the device: flash_info_t::sector_total
    Width,       \* values of uint32_t: 2^32 in the code
    MaxCalls     \* bound: chunk commands in a behaviour

Kinds == {"erase", "erase_ff", "write", "read", "read_file", "write_file"}
Sectors == 0..Total - 1

ASSUME ChunkAssumption == MAXSEC \in Nat \ {0} /\ BPS \in Nat \ {0}
ASSUME TotalAssumption == Total \in Nat \ {0} /\ MaxCalls \in Nat
ASSUME WidthAssumption == Width \in Nat /\ Total < Width
ASSUME OperationsAssumption ==
    \A o \in Operations : o.kind \in Kinds /\ o.sec \in Sectors /\ o.cnt \in Nat /\ o.len \in Nat

VARIABLES
    started, busy, result, pending, executed, trusted,   \* of RkCall
    pc,       \* "idle", "loop" (its head) or "call" (in a chunk command)
    op,       \* the operation being run, or the last one
    sec,      \* start_sec: the next sector
    cnt,      \* cnt_sec, cnt: sectors still to do
    len,      \* len of the file variant: bytes not read yet, by its length at the start
    n,        \* n: sectors in the chunk
    ret,      \* what the operation returned
    got,      \* what a read put in its buffer or file
    request,  \* the chunk commands by call number
    flash,    \* the device's sectors
    answer,   \* the sectors the device read for the last call it executed
    base,     \* flash when the operation began
    clean,    \* trusted when the operation began
    refused,  \* the device refused a command of the operation
    grown     \* the last chunk read more of the file than len had left

callVars == <<started, busy, result, pending, executed, trusted>>
loopVars == <<pc, op, sec, cnt, len, n, ret, got>>
flashVars == <<flash, answer>>
history  == <<base, clean, refused, grown>>
vars == <<callVars, loopVars, request, flashVars, history>>

Call == INSTANCE RkCall

-----------------------------------------------------------------------------
\* What a sector holds: old bytes, 0xFF, or sector i of the caller's data, of
\* which the first `bytes' bytes come from the caller and the rest are zero.
Value == [from : {"old", "blank", "data"}, i : Nat, bytes : 0..BPS]

Old(s)      == [from |-> "old", i |-> s, bytes |-> BPS]
Blank       == [from |-> "blank", i |-> 0, bytes |-> BPS]
Data(i, b)  == [from |-> "data", i |-> i, bytes |-> b]

Lesser(a, b) == IF a < b THEN a ELSE b

\* main.cpp clips the range of `flash erase' and `flash read': 0 means up to the end.
ClipRange(o) == IF o.cnt = 0 \/ o.cnt > Total - o.sec THEN Total - o.sec ELSE o.cnt

\* Mutant: the last sector of the file, partly filled, is not counted.
ClipFileWhole(o) == Lesser(o.len \div BPS, Total - o.sec)

\* flash_write_lba_from_file_progress: whole sectors, the last one perhaps partly
\* filled, clipped to max_sec - start_sec.  The count of sectors keeps 32 bits of
\* the length, and 0 is taken for all there is room for.
ClipFile(o) ==
    LET count == ((o.len \div BPS) + (IF o.len % BPS # 0 THEN 1 ELSE 0)) % Width
    IN  IF count = 0 THEN Total - o.sec ELSE Lesser(count, Total - o.sec)

\* upgrade and the plain loops of class RK_usb take the count as it is.
Goal(o) == CASE o.kind = "write_file" -> ClipFile(o)
             [] o.kind \in {"erase_ff", "read_file"} -> ClipRange(o)
             [] OTHER -> o.cnt

Changes(o) == o.kind \notin {"read", "read_file"}

\* Sector i of what operation o puts on the device.  The last sector of a file is
\* padded with zeros, or has bytes appended since its length was taken.
Content(o, i) ==
    CASE o.kind \in {"erase", "erase_ff"} -> Blank
      [] o.kind = "write_file" -> Data(i, IF grown THEN BPS ELSE Lesser(BPS, o.len - i * BPS))
      [] OTHER -> Data(i, BPS)

\* How many commands the loop needs.
Chunks(o) == (Goal(o) + MAXSEC - 1) \div MAXSEC

\* Bytes of sector j of a chunk when fread returned r bytes; the rest is memset.
Filled(r, j) == IF r =< j * BPS THEN 0 ELSE Lesser(BPS, r - j * BPS)

\* The buffer of a chunk of m sectors; `buf' moves along with start_sec.
Buffer(m, r) ==
    [j \in 1..m |-> CASE op.kind \in {"erase", "erase_ff"} -> Blank
                      [] op.kind = "write_file" -> Data(sec - op.sec + j - 1, Filled(r, j - 1))
                      [] OTHER -> Data(sec - op.sec + j - 1, BPS)]

\* What fread may return so that the loop goes on: the whole chunk, which is not
\* compared with len (the file may have grown), or less if that is all that is left.
FileReads(m) == IF op.kind = "write_file"
                THEN {m * BPS} \cup {r \in {len} : r < m * BPS}
                ELSE {0}

\* Device sector s after the first k sectors of request r were written.
Written(r, k) == [s \in Sectors |-> IF s \in r.sec .. r.sec + k - 1
                                    THEN r.data[s - r.sec + 1] ELSE flash[s]]

-----------------------------------------------------------------------------
Init ==
    /\ Call!Init
    /\ pc = "idle" /\ op \in Operations /\ sec = 0 /\ cnt = 0 /\ len = 0 /\ n = 0
    /\ ret = "none" /\ got = << >> /\ request = << >>
    /\ flash = [s \in Sectors |-> Old(s)] /\ base = flash
    /\ answer = << >> /\ clean = FALSE /\ refused = FALSE /\ grown = FALSE

Return(value) == pc' = "idle" /\ ret' = value

\* The function is entered: the clipping, and for a file fopen, ftell, fseek.
\* A file that cannot be opened, or is empty, ends it at once.
Begin(o) ==
    /\ pc = "idle" /\ started + Chunks(o) =< MaxCalls
    /\ op' = o /\ sec' = o.sec /\ cnt' = Goal(o) /\ len' = o.len
    /\ got' = << >> /\ base' = flash /\ clean' = trusted
    /\ refused' = FALSE /\ grown' = FALSE
    /\ \/ /\ o.kind = "write_file" => o.len > 0
          /\ pc' = "loop" /\ ret' = "none"
       \/ /\ o.kind \in {"read_file", "write_file"}
          /\ Return("false")
    /\ UNCHANGED <<callVars, n, request, flashVars>>

\* Mutant: `while(cnt_sec >= 0)' on an unsigned count.
FinishSpins == pc = "loop" /\ cnt = 0 /\ UNCHANGED vars

\* The loop's head with nothing left: `return true'.
Finish ==
    /\ pc = "loop" /\ cnt = 0
    /\ Return("true")
    /\ UNCHANGED <<callVars, op, sec, cnt, len, n, got, request, flashVars, history>>

\* The loop's body up to the chunk command.  After a last chunk that was more than
\* was left, `len -= r_n' goes below 0 (in the code it wraps); it is not read again.
StartChunk ==
    /\ pc = "loop" /\ cnt > 0
    /\ n' = Lesser(cnt, MAXSEC)
    /\ \E r \in FileReads(n') :
        /\ len' = len - r /\ grown' = (r > len)
        /\ request' = Append(request, [changes |-> Changes(op), sec |-> sec, n |-> n',
                                       data |-> Buffer(n', r)])
    /\ Call!Start
    /\ pc' = "call"
    /\ UNCHANGED <<op, sec, cnt, ret, got, flashVars, base, clean, refused>>

\* fread returns less, and not the rest of the file: it was cut, or a read error.
ShortRead ==
    /\ pc = "loop" /\ cnt > 0 /\ op.kind = "write_file"
    /\ Return("false")
    /\ UNCHANGED <<callVars, op, sec, cnt, len, n, got, request, flashVars, history>>

\* Mutant: a full chunk is counted, whatever n was.
ChunkDoneFull ==
    /\ pc = "call" /\ Call!Succeed
    /\ sec' = sec + MAXSEC /\ cnt' = cnt - MAXSEC
    /\ pc' = "loop"
    /\ UNCHANGED <<op, len, n, ret, got, request, flashVars, history>>

\* The chunk command returned true: advance.  What a read returns is the device's
\* answer as long as no call has failed, and may be a late one afterwards.
ChunkDone ==
    /\ pc = "call" /\ Call!Succeed
    /\ sec' = sec + n /\ cnt' = cnt - n
    /\ IF Changes(op)
       THEN got' = got /\ pc' = "loop" /\ ret' = ret
       ELSE /\ \E data \in {answer} \cup (IF trusted THEN {} ELSE {[j \in 1..n |-> Blank]}) :
                  got' = got \o data
            /\ \/ pc' = "loop" /\ ret' = ret
               \/ op.kind = "read_file" /\ Return("false")   \* fwrite fails
    /\ UNCHANGED <<op, len, n, request, flashVars, history>>

\* Mutant: a failed chunk is skipped and the loop goes on.
ChunkFailedSkipped ==
    /\ pc = "call" /\ Call!Fail
    /\ pc' = "loop" /\ sec' = sec + n /\ cnt' = cnt - n
    /\ UNCHANGED <<op, len, n, ret, got, request, flashVars, history>>

\* It returned false: the loop is given up.
ChunkFailed ==
    /\ pc = "call" /\ Call!Fail
    /\ Return("false")
    /\ UNCHANGED <<op, sec, cnt, len, n, got, request, flashVars, history>>

\* The process is killed, or ends and another one follows.
NewProcess ==
    /\ Call!Restart
    /\ pc' = "idle" /\ ret' = "none"
    /\ UNCHANGED <<op, sec, cnt, len, n, got, request, flashVars, history>>

-----------------------------------------------------------------------------
\* The device (external).

DeviceExecute(c) ==
    /\ Call!Execute(c)
    /\ request[c].sec + request[c].n =< Total
    /\ IF request[c].changes
       THEN flash' = Written(request[c], request[c].n) /\ answer' = << >>
       ELSE /\ answer' = [j \in 1..request[c].n |-> flash[request[c].sec + j - 1]]
            /\ flash' = flash
    /\ UNCHANGED <<loopVars, request, history>>

\* A bad block, or a range it does not have: it says so in the response only.
DeviceRefuse(c) ==
    /\ Call!Execute(c)
    /\ refused' = TRUE /\ answer' = [j \in 1..request[c].n |-> Blank]
    /\ UNCHANGED <<loopVars, request, flash, base, clean, grown>>

\* Power fails: what was not executed is lost, a chunk may be half written.
DevicePowerFails ==
    /\ Call!Lose /\ pending' = {}
    /\ \/ \E c \in pending : \E k \in 0..request[c].n :
              /\ request[c].changes /\ request[c].sec + request[c].n =< Total
              /\ flash' = Written(request[c], k)
       \/ flash' = flash
    /\ UNCHANGED <<loopVars, request, answer, history>>

\* A request is taken for the data of an earlier one.
DeviceLoses == Call!Lose /\ UNCHANGED <<loopVars, request, flashVars, history>>

-----------------------------------------------------------------------------
LoopStep == Finish \/ StartChunk \/ ShortRead \/ ChunkDone \/ ChunkFailed

Next ==
    \/ \E o \in Operations : Begin(o)
    \/ LoopStep
    \/ NewProcess
    \/ \E c \in pending : DeviceExecute(c) \/ DeviceRefuse(c)
    \/ DevicePowerFails \/ DeviceLoses

Spec == Init /\ [][Next]_vars

\* The loop runs on, and every chunk command returns (RkCall, RkCommand).
FairSpec == Spec /\ WF_vars(LoopStep)

-----------------------------------------------------------------------------
Request == [changes : BOOLEAN, sec : Nat, n : 1..MAXSEC, data : Seq(Value)]

TypeOK ==
    /\ pc \in {"idle", "loop", "call"} /\ op \in Operations
    /\ sec \in Nat /\ cnt \in Nat /\ len \in Int /\ n \in 0..MAXSEC
    /\ ret \in {"none", "true", "false"} /\ busy = (pc = "call")
    /\ got \in Seq(Value) /\ answer \in Seq(Value)
    /\ request \in Seq(Request)
    /\ flash \in [Sectors -> Value] /\ base \in [Sectors -> Value]
    /\ Len(request) = started
    /\ clean \in BOOLEAN /\ refused \in BOOLEAN /\ grown \in BOOLEAN
    /\ pending \subseteq 1..started

\* The sectors an operation is to change or read, as a user counts them.
Wanted(o) ==
    {s \in Sectors : s >= o.sec /\
        CASE o.kind = "write_file" -> (s - o.sec) * BPS < o.len
          [] o.kind \in {"erase_ff", "read_file"} -> o.cnt = 0 \/ s < o.sec + o.cnt
          [] OTHER -> s < o.sec + o.cnt}

\* The device when the sectors below `end' are done, and nothing else.
DoneUpTo(end) == [s \in Sectors |-> IF Changes(op) /\ s \in Wanted(op) /\ s < end
                                    THEN Content(op, s - op.sec) ELSE base[s]]

\* Wherever an operation stops - a chunk fails, is executed late, is half written
\* when the power fails, the process is killed - the device holds the old sectors
\* with the new ones in a prefix of the range: no hole, nothing outside.  Of a file
\* that grows meanwhile too (what it holds is taken as it is when it is read).
AlwaysAPrefix == (clean /\ ~refused) => \E end \in 0..Total : flash = DoneUpTo(end)

\* An operation that returns true is complete: all of the range was written, or read
\* into the buffer.  Of a file it is what fits of the length it had at first, its last
\* sector padded with zeros - or filled up with what was appended to it since (grown):
\* sectors appended behind that one are not written, and true is returned.
\* Files whose count of sectors does not fit in 32 bits are excepted: what the
\* high bits stand for is left out in silence.
CountFits(o) == o.kind = "write_file" => o.len <= (Width - 1) * BPS
DoneMeansAll ==
    (ret = "true" /\ clean /\ ~refused /\ CountFits(op)) =>
        /\ flash = DoneUpTo(Total)
        /\ ~Changes(op) => /\ Len(got) = Cardinality(Wanted(op))
                           /\ \A j \in DOMAIN got : got[j] = base[op.sec + j - 1]

\* Every operation ends, with true or with false.
OperationReturns == pc # "idle" ~> pc = "idle"

\* usb_response_t has a `Response status' and an `Amount not transferred'; main.cpp
\* prints `Failed to write flash' when the operation returns false.  A refused
\* command is not reported: nobody reads these two fields.
RefusalIsReported == ret = "true" => ~refused
=============================================================================
