------------------------------ MODULE MCRkTool ------------------------------
(***************************************************************************)
(* The parts of the tool around the commands, side by side: the command    *)
(* lines (RkMain), the search for a device (RkScan), the loader parser     *)
(* (RkBin) and the codes (RkCodes).  They share no state, so a behaviour   *)
(* is one of one part; the variables of the others have no value in it.    *)
(***************************************************************************)
EXTENDS Integers, Sequences, SequencesExt

CONSTANTS Parts, Indexes, p1, p2, None

VARIABLES
    part, pc,
    started, busy, result, pending, executed, trusted, line, step, type, at, left, exit, request,
    mode, medium, answer, log, process, first, clean, failed,
    count, handle, chip, maskrom, bus, claimed, present, shifted, plugs, refusals,
    file, bufsize, offset, eof, entry, flashLen, idblen, head, idx, placed,
    phase, width, buf, pos, word, key, s, m_i, m_j, plain, cipher

mainOnly == <<started, busy, result, pending, executed, trusted, line, step, type, at, left, exit, request,
              mode, medium, answer, log, process, first, clean, failed>>
scanOnly == <<count, handle, chip, maskrom, bus, claimed, present, shifted, plugs, refusals>>
binOnly == <<file, bufsize, offset, eof, entry, flashLen, idblen, head, idx, placed>>
codesOnly == <<phase, width, buf, pos, word, key, s, m_i, m_j, plain, cipher>>
vars == <<part, pc, mainOnly, scanOnly, binOnly, codesOnly>>

\* The variables of a part that is not run.
NoMain ==
    /\ started = 0 /\ busy = 0 /\ result = 0 /\ pending = 0 /\ executed = 0 /\ trusted = 0
    /\ line = 0 /\ step = 0 /\ type = 0 /\ at = 0 /\ left = 0 /\ exit = 0 /\ request = 0
    /\ mode = 0 /\ medium = 0 /\ answer = 0 /\ log = 0 /\ process = 0 /\ first = 0 /\ clean = 0
    /\ failed = 0
NoScan ==
    /\ count = 0 /\ handle = 0 /\ chip = 0 /\ maskrom = 0 /\ bus = 0 /\ claimed = 0 /\ present = 0
    /\ shifted = 0 /\ plugs = 0 /\ refusals = 0
NoBin ==
    /\ file = 0 /\ bufsize = 0 /\ offset = 0 /\ eof = 0 /\ entry = 0 /\ flashLen = 0 /\ idblen = 0
    /\ head = 0 /\ idx = 0 /\ placed = 0
NoCodes ==
    /\ phase = 0 /\ width = 0 /\ buf = 0 /\ pos = 0 /\ word = 0 /\ key = 0 /\ s = 0 /\ m_i = 0
    /\ m_j = 0 /\ plain = 0 /\ cipher = 0

-----------------------------------------------------------------------------
\* Command lines: loops of two chunks, a medium that is switched to before the loader
\* is upgraded, one of two capabilities.
Line(name, arg, len) == [name |-> name, arg |-> arg, len |-> len]
MCLines == {Line("upgrade", 0, 3), Line("sn", 1, 0), Line("mem_write", 1, 3), Line("otp", 1, 0), Line("reset", 0, 0)}
           \cup {Line("storage", i, 0) : i \in Indexes}

Main == INSTANCE RkMain WITH
    Lines <- MCLines, Capable <- {"NEW_VENDOR_STORAGE", "SWITCH_STORAGE"}, Media <- {"EMMC", "SPINOR"},
    CHUNK <- 2, MaxCalls <- 5, Processes <- 2

-----------------------------------------------------------------------------
\* A chip of the table, an unknown one and another device; two processes.
Scan == INSTANCE RkScan WITH
    Procs <- {p1, p2}, Devices <- {"chip", "vendor", "mouse"},
    Kind <- [chip |-> "chip", vendor |-> "vendor", mouse |-> "other"], Maskrom <- {"chip"},
    Plugs <- 3, Refusals <- 2

\* What the proofs assume of the processes, devices and bounds.
ASSUME ScanOK == Scan!ScanAssumption

-----------------------------------------------------------------------------
\* Loaders with a head first, last, twice or not at all, sizes on both sides of a
\* sector and a group, a file cut short or with something behind it; sizes on both
\* sides of the one whose aligned length wraps, layouts of more than UMAX, and last
\* entries whose end wraps; files of every length around the first three buffers.
HeaderLen == 5
Behind(specs) == [i \in DOMAIN specs |->
    LET before == FoldLeft(LAMBDA n, e : n + e[3], 0, SubSeq(specs, 1, i - 1))
    IN [type |-> specs[i][1], name |-> specs[i][2], start |-> HeaderLen + 12 + before, size |-> specs[i][3]]]
Shapes == {<<<<"471", "ddr", 3>>, <<"472", "plug", 2>>, <<"loader", n, a>>, <<"loader", m, b>>, <<"loader", k, 5>>>> :
             n \in {"FlashHead", "FlashData"}, m \in {"FlashBoot", "FlashHead"}, k \in {"FlashBoot", "Extra"},
             a \in 1..9, b \in {1, 8}}
FileOf(magic, es, more, crc) ==
    [length |-> es[Len(es)].start + es[Len(es)].size + 4 + more, magic |-> magic, entries |-> es, crc |-> crc]
Loader(name, start, size) == [type |-> "loader", name |-> name, start |-> start, size |-> size]
Large == {<<Loader(n, 17, a), Loader("FlashData", b[1], b[2]), Loader("FlashBoot", 20, 5)>> :
             n \in {"FlashHead", "FlashData"}, a \in {3, 119, 120, 121, 127},
             b \in {<<17, 3>>, <<17, 120>>, <<100, 127>>}}
Wrapped == {<<Loader("FlashData", 17, 3), Loader("FlashBoot", start, size)>> :
               start \in {17, 100, 120}, size \in {3, 4, 7, 8, 27, 28, 110, 111, 127}}
MCFiles == {FileOf(m, Behind(sh), more, c) : m \in {"BOOT", "LDR "}, sh \in Shapes, more \in {-1, 0}, c \in BOOLEAN}
           \cup {[length |-> n, magic |-> "none", entries |-> << >>, crc |-> FALSE] : n \in 0..33}
           \cup {[length |-> 40, magic |-> m, entries |-> es, crc |-> c] :
                    m \in {"BOOT", "LDR "}, es \in Large \cup Wrapped, c \in BOOLEAN}

Bin == INSTANCE RkBin WITH
    Files <- MCFiles, HEADER <- HeaderLen, BUFFER <- 4, SECTOR <- 2, GROUP <- 4, UMAX <- 128

-----------------------------------------------------------------------------
MCMessages == UNION {[1..n -> {0, 1, 8, 15}] : n \in 0..3} \cup {<<128, 255, 49>>, <<49, 50, 51, 52>>}

Codes == INSTANCE RkCodes WITH
    Messages <- MCMessages, Keys <- {<<3>>, <<1, 7, 4>>, <<12, 2, 15, 9>>}, N <- 16

-----------------------------------------------------------------------------
Init ==
    /\ part \in Parts
    /\ IF part = "main" THEN Main!Init ELSE NoMain
    /\ IF part = "scan" THEN Scan!Init ELSE NoScan
    /\ IF part = "bin" THEN Bin!Init ELSE NoBin
    /\ IF part = "codes" THEN Codes!Init /\ pc = 0 ELSE NoCodes

Next ==
    /\ UNCHANGED part
    /\ \/ part = "main" /\ Main!Next /\ UNCHANGED <<scanOnly, binOnly, codesOnly>>
       \/ part = "scan" /\ Scan!Next /\ UNCHANGED <<mainOnly, binOnly, codesOnly>>
       \/ part = "bin" /\ Bin!Next /\ UNCHANGED <<mainOnly, scanOnly, codesOnly>>
       \/ part = "codes" /\ Codes!Next /\ UNCHANGED <<pc, mainOnly, scanOnly, binOnly>>

Spec == Init /\ [][Next]_vars

-----------------------------------------------------------------------------
\* A command line that exits with 0 has done what it says, in full and in order, no
\* call of it failed, and the device was asked for nothing its loader does not support
\* (main.cpp).
ZeroMeansDone == part = "main" =>
    /\ Main!TypeOK
    /\ Main!ZeroMeansDone
    /\ Main!ZeroMeansNoFailure
    /\ Main!OnlySupported

\* A process whose init returned true has the device for itself, and a scan does not
\* overlook a device that is there all the time, unless another one is unplugged
\* meanwhile (RK_usb::init).
FindsAndOwns == part = "scan" => Scan!FindsAndOwns

\* file_load has the whole file whatever its length is to the buffer's;
\* loader_align_size is the least multiple of 2048 that holds a length, up to the last
\* one below 2^32; mkidb copies every entry of such a size inside the memory it
\* allocated, over no piece before it unless the layout has 2^32 bytes, and leaves none
\* out; of the entries load checks the last one, unless its end wraps, and nothing but
\* the unchecked entries and sizes lead outside the file or the memory.
ImagesAreWhole == part = "bin" =>
    /\ Bin!TypeOK
    /\ Bin!WholeFile
    /\ Bin!AlignHolds
    /\ Bin!StaysInside
    /\ Bin!ChecksTheLast
    /\ Bin!LayoutIsComplete

\* The tables of rk_crc16 and rk_crc32 compute the remainder of a polynomial division,
\* a frame with its CRC behind it has the CRC 0 (maskrom_upload_memory), and RC4 undoes
\* itself, block by block (rk_rc4).
CodesAreRight == part = "codes" =>
    /\ Codes!CrcIsDivision
    /\ Codes!FrameLeavesZero
    /\ Codes!Rc4Undoes
=============================================================================
