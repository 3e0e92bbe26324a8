------------------------------ MODULE RkUpload ------------------------------
(***************************************************************************)
(* Uploads to the boot ROM in maskrom mode (rk_usb.cpp, from               *)
(* maskrom_upload_memory to maskrom_exec_arm64) and the commands of        *)
(* main.cpp that are sequences of uploads.                                 *)
(*                                                                         *)
(* An image goes out in control transfers of at most 4096 bytes, with a    *)
(* CRC behind it.  The boot ROM (external) is what the framing takes it to *)
(* be: a shorter transfer ends an image, which is run when the CRC over    *)
(* all that came since the last end is right; zeros behind the CRC leave   *)
(* it right.  Nothing tells the host whether it was.                       *)
(*                                                                         *)
(* ran, session, clean, lost, broken and rejected are history.             *)
(***************************************************************************)
EXTENDS Integers, Sequences, FiniteSets

CONSTANTS
    Jobs,        \* the command lines that may be run: sequences of uploads
    MaxSessions  \* bound: processes in a behaviour

\* Bytes per control transfer, and per call of maskrom_write_arm32.
Block == 4096
Piece == 16384

Codes == {"sram", "dram", "bad"}   \* 0x471, 0x472, an entry type nobody knows

Upload == [code : Codes, len : Nat, must : BOOLEAN, file : BOOLEAN,
           at : Nat, from : Nat, n : Nat]

ASSUME JobsAssumption == Jobs \subseteq Seq(Upload)
ASSUME BoundAssumption == MaxSessions \in Nat

VARIABLES
    pc,        \* "idle", "next" (between uploads), "send" or "term"
    job,       \* the uploads of the command line
    k,         \* the upload being done, or the last one
    total,     \* total: bytes of it that were sent
    ret,       \* what the command line returned
    gone,      \* the open handle no longer reaches the device
    blocks,    \* the transfers the ROM holds since the last end of an image
    rom,       \* it is still the boot ROM: no 0x472 image runs
    ran,       \* the uploads of this process whose images were run
    session,   \* number of the process
    clean,     \* the ROM held nothing when it started, and no upload was skipped
    lost,      \* an upload returned true and did not reach the device whole
    broken,    \* uploads that were given up, killed or not terminated
    rejected   \* images with a wrong CRC

hostVars == <<pc, job, k, total, ret, gone>>
romVars  == <<blocks, rom, ran, rejected>>
history  == <<session, clean, lost, broken>>
vars     == <<hostVars, romVars, history>>

-----------------------------------------------------------------------------
\* The frame of an image.

\* Mutant: no padding, the CRC may be split over two transfers.
PaddedNever(len) == len

\* A length of 4095 modulo 4096 is padded by a zero ...
Padded(len) == IF len % Block = Block - 1 THEN len + 1 ELSE len

\* ... the CRC is appended ...
Framed(len) == Padded(len) + 2

\* Mutant: an image that ends with a full transfer is not terminated.
PendNever(len) == FALSE

\* ... and an image that then fills its last transfer is terminated by one more.
Pend(len) == Padded(len) % Block = Block - 2

Lesser(a, b) == IF a < b THEN a ELSE b

-----------------------------------------------------------------------------
\* The command lines.

Image(code, len, must, file) ==
    [code |-> code, len |-> len, must |-> must, file |-> file, at |-> 0, from |-> 0, n |-> 0]

\* maskrom <sram> <dram>, and extra maskrom: the first failure ends it.
Maskrom(sram, dram) == <<Image("sram", sram, TRUE, TRUE), Image("dram", dram, TRUE, TRUE)>>

\* extra exec-arm32, exec-arm64, dump-arm32, dump-arm64: one payload.
Exec(payload) == <<Image("sram", payload, TRUE, FALSE)>>

\* download <loader>: the entries of the file; the first 0x471 entry of 0x800
\* bytes is a header.  A 0x471 image that fails is only warned about.
Download(entries) ==
    LET Header(i) == entries[i].code = "sram" /\ entries[i].len = 2048
        Kept == {i \in DOMAIN entries : /\ entries[i].code # "loader"
                                        /\ Header(i) => \E j \in 1..i - 1 : Header(j)}
        Position(i) == Cardinality({j \in Kept : j =< i})
    IN  [p \in {Position(i) : i \in Kept} |->
            LET e == entries[CHOOSE i \in Kept : Position(i) = p]
            IN  Image(e.code, e.len, e.code # "sram", p = 1)]

\* Mutant: `addr += n' is missing in maskrom_write_arm32_progress.
WriteSamePlace(payload, addr, len) ==
    [i \in 1..(len + Piece - 1) \div Piece |->
        LET from == (i - 1) * Piece
            n    == Lesser(Piece, len - from)
        IN  [code |-> "sram", len |-> payload + 8 + n, must |-> TRUE, file |-> i = 1,
             at |-> addr, from |-> from, n |-> n]]

\* extra write-arm32, write-arm64: the file in pieces, each behind a payload that
\* copies it to its address, with that address and the length in front.
Write(payload, addr, len) ==
    [i \in 1..(len + Piece - 1) \div Piece |->
        LET from == (i - 1) * Piece
            n    == Lesser(Piece, len - from)
        IN  [code |-> "sram", len |-> payload + 8 + n, must |-> TRUE, file |-> i = 1,
             at |-> addr + from, from |-> from, n |-> n]]

\* sizeof(payload)
dump_arm32  == 628
dump_arm64  == 772
write_arm32 == 1344
write_arm64 == 400
exec_arm32  == 164
exec_arm64  == 148

-----------------------------------------------------------------------------
Init ==
    /\ pc = "idle" /\ job = << >> /\ k = 0 /\ total = 0 /\ ret = "none" /\ gone = FALSE
    /\ blocks = << >> /\ rom = TRUE /\ ran = << >> /\ rejected = 0
    /\ session = 0 /\ clean = FALSE /\ lost = FALSE /\ broken = 0

\* A process is started and finds the device.
NewProcess(j) ==
    /\ pc = "idle" /\ session < MaxSessions /\ rom
    /\ pc' = "next" /\ job' = j /\ k' = 0 /\ total' = 0 /\ ret' = "none" /\ gone' = FALSE
    /\ session' = session + 1 /\ clean' = (blocks = << >>) /\ lost' = FALSE /\ ran' = << >>
    /\ UNCHANGED <<blocks, rom, rejected, broken>>

Return(value) == pc' = "idle" /\ ret' = value

\* All uploads are done: the command returns 0.
Finish ==
    /\ pc = "next" /\ k = Len(job)
    /\ Return("true")
    /\ UNCHANGED <<job, k, total, gone, romVars, history>>

\* maskrom_upload_memory is entered and malloc succeeds: the frame is built.
Frame ==
    /\ pc = "next" /\ k < Len(job) /\ job[k + 1].code # "bad"
    /\ pc' = "send" /\ k' = k + 1 /\ total' = 0
    /\ UNCHANGED <<job, ret, gone, romVars, history>>

\* malloc fails: the whole body is skipped and the function returns true.
NoMemory ==
    /\ pc = "next" /\ k < Len(job) /\ job[k + 1].code # "bad"
    /\ k' = k + 1 /\ lost' = TRUE /\ clean' = FALSE
    /\ UNCHANGED <<pc, job, total, ret, gone, romVars, session, broken>>

\* The file with the image, or with all the images, cannot be loaded, or the loader
\* has an entry of an unknown type.
NotStarted ==
    /\ pc = "next" /\ k < Len(job) /\ (job[k + 1].code = "bad" \/ job[k + 1].file)
    /\ Return("false")
    /\ UNCHANGED <<job, k, total, gone, romVars, history>>

\* One transfer of upload k of this process.
Transfer(from, n) == [session |-> session, k |-> k, code |-> job[k].code,
                      framed |-> Framed(job[k].len), from |-> from, n |-> n]

\* Mutant: the transfers are one byte short of full.
RestShort == Lesser(Framed(job[k].len) - total, Block - 1)

\* uint16_t n: at most 4096 of the bytes that are left.
Rest == Lesser(Framed(job[k].len) - total, Block)

\* Transfers bs are one image in order, with nothing but zeros behind its CRC.
Whole(bs) ==
    /\ \A i \in DOMAIN bs :
        /\ bs[i].session = bs[1].session /\ bs[i].k = bs[1].k
        /\ bs[i].from = IF i = 1 THEN 0 ELSE bs[i - 1].from + bs[i - 1].n
    /\ bs[Len(bs)].from + bs[Len(bs)].n >= bs[1].framed

\* The ROM takes transfer b (external).
Receive(b) ==
    LET bs == Append(blocks, b) IN
    IF b.n = Block
    THEN blocks' = bs /\ UNCHANGED <<rom, ran, rejected>>
    ELSE /\ blocks' = << >>
         /\ IF Whole(bs)
            THEN /\ ran' = Append(ran, b.k)
                 /\ rom' = (b.code = "sram") /\ UNCHANGED rejected
            ELSE rejected' = rejected + 1 /\ UNCHANGED <<rom, ran>>

Reachable == ~gone /\ rom

\* libusb_control_transfer returned n.
SendBlock ==
    /\ pc = "send" /\ Reachable
    /\ Receive(Transfer(total, Rest))
    /\ total' = total + Rest
    /\ pc' = CASE total' < Framed(job[k].len) -> "send"
               [] total' = Framed(job[k].len) /\ Pend(job[k].len) -> "term"
               [] OTHER -> "next"
    /\ UNCHANGED <<job, k, ret, gone, history>>

\* An upload returns false: the command ends, unless it only warns.
GiveUp ==
    /\ IF job[k].must THEN Return("false") ELSE pc' = "next" /\ UNCHANGED ret
    /\ clean' = (clean /\ job[k].must) /\ broken' = broken + 1
    /\ UNCHANGED <<session, lost>>

\* Mutant: the loop of maskrom_upload_memory tries the transfer once more.
SendFailsRetried ==
    /\ pc = "send"
    /\ UNCHANGED romVars \/ (Reachable /\ Receive(Transfer(total, Rest)))
    /\ UNCHANGED <<hostVars, history>>

\* It returned something else, whether or not the ROM took the bytes.
SendFails ==
    /\ pc = "send"
    /\ UNCHANGED romVars \/ (Reachable /\ Receive(Transfer(total, Rest)))
    /\ GiveUp
    /\ UNCHANGED <<job, k, total, gone>>

\* The transfer of a single zero; its result is ignored.
Terminate ==
    /\ pc = "term"
    /\ \/ /\ Reachable /\ Receive(Transfer(total, 1))
          /\ UNCHANGED <<clean, lost, broken>>
       \/ /\ UNCHANGED romVars
          /\ clean' = FALSE /\ lost' = TRUE /\ broken' = broken + 1
    /\ pc' = "next"
    /\ UNCHANGED <<job, k, total, ret, gone, session>>

\* Killed; in maskrom_write_arm32 also a malloc that fails.
Killed ==
    /\ pc # "idle"
    /\ pc' = "idle" /\ ret' = "none"
    /\ broken' = IF pc \in {"send", "term"} THEN broken + 1 ELSE broken
    /\ UNCHANGED <<job, k, total, gone, romVars, session, clean, lost>>

\* The board is reset or power-cycled into maskrom mode (external).
PowerCycle ==
    /\ blocks' = << >> /\ rom' = TRUE /\ ran' = << >> /\ gone' = TRUE
    /\ UNCHANGED <<pc, job, k, total, ret, rejected, session, lost, broken>>
    /\ clean' = FALSE

Next ==
    \/ \E j \in Jobs : NewProcess(j)
    \/ Finish \/ Frame \/ NoMemory \/ NotStarted
    \/ SendBlock \/ SendFails \/ Terminate \/ Killed
    \/ PowerCycle

Spec == Init /\ [][Next]_vars
-----------------------------------------------------------------------------
Sent == [session : Nat, k : Nat, code : Codes, framed : Nat, from : Nat, n : 1..Block]

TypeOK ==
    /\ pc \in {"idle", "next", "send", "term"}
    /\ job \in {<< >>} \cup Jobs /\ k \in 0..Len(job) /\ total \in Nat
    /\ ret \in {"none", "true", "false"} /\ gone \in BOOLEAN
    /\ blocks \in Seq(Sent) /\ rom \in BOOLEAN /\ ran \in Seq(Nat)
    /\ rejected \in Nat /\ session \in 0..MaxSessions
    /\ clean \in BOOLEAN /\ lost \in BOOLEAN /\ broken \in Nat
    /\ pc \in {"send", "term"} => k > 0
    /\ pc = "send" => total < Framed(job[k].len) /\ total % Block = 0
    /\ pc = "term" => total = Framed(job[k].len) /\ total % Block = 0

\* The two bytes of the CRC always travel in one transfer: none ends between them.
CrcInOneTransfer ==
    \A i \in DOMAIN blocks : blocks[i].from + blocks[i].n # blocks[i].framed - 1

\* A command line that returns true has made the ROM run all of its images, once
\* each and in order - if the ROM held no rest of an earlier upload, memory did
\* not run out and the terminating zero, whose result is ignored, arrived.
AllRan ==
    (ret = "true" /\ clean) => ran = [i \in 1..Len(job) |-> i]

\* A file that is written to memory in pieces is there from its beginning, in
\* place and without a gap, wherever the command stopped.
WrittenInPlace ==
    LET pieces == [i \in DOMAIN ran |-> job[ran[i]]] IN
    clean =>
        \A i \in DOMAIN pieces : pieces[i].n > 0 =>
            /\ pieces[i].at - pieces[i].from = job[1].at
            /\ pieces[i].from = IF i = 1 THEN 0 ELSE pieces[i - 1].from + pieces[i - 1].n

\* An upload that was given up, killed or not terminated spoils at most one later
\* upload: the ROM never rejects more images than uploads broke off.
SpoilsOne == rejected =< broken

\* main.cpp prints `Error sram upload' when an upload returns false: an upload that
\* returns true reached the device.  It returns true when malloc fails, too, and
\* when the terminating zero does not arrive.
TrueIsDelivered == ret = "true" => ~lost
=============================================================================
