-------------------------------- MODULE RkBin ---------------------------------
(***************************************************************************)
(* RK_bin: a loader image is read (file_load of rk_common.cpp), checked,   *)
(* and laid out as it goes to the flash (mkidb).  The new layout has every *)
(* loader entry, FlashHead first; the old one has four blocks and the      *)
(* entries FlashData and FlashBoot.  The contents of an entry is its       *)
(* number.  Offsets and sizes of a file are 32-bit numbers, below UMAX,    *)
(* and so are idblen and the sum of the range check, which wrap; the sum   *)
(* of the aligned sizes (m_flash_len) is a 64-bit one and does not.        *)
(*                                                                         *)
(* A copy or a CRC that reaches outside the memory or the file is          *)
(* undefined: the process may end there ("outside") or go on.              *)
(***************************************************************************)
EXTENDS Integers, Sequences, FiniteSets, SequencesExt

CONSTANTS
    Files,      \* the files: [length, magic, entries, crc], see Entry
    HEADER,     \* sizeof(RK_Boot_Header_t): 102 in the code
    BUFFER,     \* the first buffer of file_load: 8192
    SECTOR,     \* 512
    GROUP,      \* sectors of an aligned length: 4
    UMAX        \* 2^32

VARIABLES
    pc,         \* where load() is
    file,       \* the file
    bufsize, offset,    \* of file_load
    eof,        \* fread came up short
    entry,      \* m_entry
    flashLen,   \* m_flash_len
    idblen,     \* idblen
    head,       \* flash_head_index
    idx,        \* idx
    placed      \* what was copied to m_flash_data: [entry, at, len]

fileVars == <<bufsize, offset, eof>>
layoutVars == <<flashLen, idblen, head, idx, placed>>
vars == <<pc, file, fileVars, entry, layoutVars>>

\* RK_Boot_Entry_t: its type (471, 472 or loader), name, place in the file and size.
Entry(type, name, start, size) == [type |-> type, name |-> name, start |-> start, size |-> size]

Goto(l) == pc' = l
Return(value) == pc' = value

\* loader_align_size, in unsigned arithmetic: whole sectors, then groups of them.
loader_align_size(len) ==
    LET t == (((len - 1) % UMAX) \div SECTOR + 1) % UMAX
    IN (((t - 1) % UMAX) \div GROUP + 1) * (GROUP * SECTOR) % UMAX

Loaders == {i \in DOMAIN entry : entry[i].type = "loader"}
Named(name) == {i \in Loaders : entry[i].name = name}
Total(S) == FoldLeft(LAMBDA sum, i : sum + loader_align_size(entry[i].size), 0, SetToSeq(S))

-----------------------------------------------------------------------------
\* file_load: the file is opened and read into a buffer that is doubled while it is
\* filled to the end.
OpenFile ==
    /\ pc = "open"
    /\ Goto("read") \/ Return("false")
    /\ UNCHANGED <<file, fileVars, entry, layoutVars>>

Read ==
    /\ pc = "read" /\ ~eof
    /\ LET room == bufsize - offset
           n == IF room < file.length - offset THEN room ELSE file.length - offset
       IN /\ offset' = offset + n
          /\ eof' = (n < room)
          /\ \/ n < room /\ UNCHANGED <<pc, bufsize>>
             \/ n = room /\ bufsize' = bufsize * 2 /\ pc' = pc
             \/ n = room /\ bufsize' = bufsize /\ Return("false")     \* realloc fails
    /\ UNCHANGED <<file, entry, layoutVars>>

\* load: the length, the magic number, the entries, and the CRC behind the last one,
\* whose end is a 32-bit sum, and with the CRC another one.  The other entries are not
\* compared with the length.
Parse ==
    /\ pc = "read" /\ eof
    /\ LET last == file.entries[Len(file.entries)]
           len == (last.start + last.size) % UMAX
           found == /\ offset > HEADER /\ file.magic \in {"BOOT", "LDR "} /\ file.entries # << >>
                    /\ offset >= (len + 4) % UMAX
           outside == found /\ len + 4 > offset
       IN \/ \E crc \in IF outside THEN BOOLEAN ELSE {file.crc} :
                 /\ entry' = IF found /\ crc THEN file.entries ELSE << >>
                 /\ Goto(IF found /\ crc THEN "sum" ELSE "false")
          \/ outside /\ Return("outside") /\ UNCHANGED entry
    /\ UNCHANGED <<file, fileVars, layoutVars>>

\* mkidb: the length of the layout, and memory for it.
Sum ==
    /\ pc = "sum"
    /\ LET new  == file.magic = "LDR "
           used == IF new THEN Loaders ELSE Named("FlashBoot") \cup Named("FlashData")
       IN /\ flashLen' = IF new \/ Total(used) = 0 THEN Total(used) ELSE Total(used) + 4 * SECTOR
          /\ \/ Total(used) = 0 /\ Return("true")
             \/ Total(used) > 0 /\ Goto(IF new THEN "head" ELSE "blocks")
             \/ Total(used) > 0 /\ Goto("no memory")      \* calloc fails: load returns true all the same
    /\ UNCHANGED <<file, fileVars, entry, idblen, head, idx, placed>>

\* Entry i as it is copied: its size is, not the aligned one.
Copy(i) == [entry |-> i, at |-> idblen, len |-> entry[i].size]
InMemory(p) == p.at + p.len =< flashLen
InFile(i) == entry[i].start + entry[i].size =< file.length

Place(i, next) ==
    /\ placed' = Append(placed, Copy(i))
    /\ idblen' = (idblen + loader_align_size(entry[i].size)) % UMAX
    /\ \/ Goto(next)
       \/ ~(InMemory(Copy(i)) /\ InFile(i)) /\ Return("outside")

\* The first entry called FlashHead comes first.
PlaceHead ==
    /\ pc = "head"
    /\ IF Named("FlashHead") = {} THEN head' = Len(entry) + 1 /\ Goto("rest") /\ UNCHANGED <<placed, idblen>>
       ELSE head' = Min(Named("FlashHead")) /\ Place(head', "rest")
    /\ UNCHANGED <<file, fileVars, entry, flashLen, idx>>

\* Then the other loader entries in their order.
PlaceRest ==
    /\ pc = "rest" /\ idx =< Len(entry)
    /\ IF idx \in Loaders /\ idx # head THEN Place(idx, "rest") ELSE UNCHANGED <<pc, placed, idblen>>
    /\ idx' = idx + 1
    /\ UNCHANGED <<file, fileVars, entry, flashLen, head>>

Placed ==
    /\ pc = "rest" /\ idx > Len(entry)
    /\ Return("true")
    /\ UNCHANGED <<file, fileVars, entry, layoutVars>>

\* Mutant: the blocks are not counted.
BlocksUncounted ==
    /\ pc = "blocks"
    /\ IF Named("FlashData") = {} \/ Named("FlashBoot") = {} THEN Return("null pointer") ELSE Goto("data")
    /\ UNCHANGED <<file, fileVars, entry, layoutVars>>

\* The old layout: four blocks; they tell the sizes of the last FlashData and the
\* last FlashBoot, both of which have to be there.
Blocks ==
    /\ pc = "blocks"
    /\ IF Named("FlashData") = {} \/ Named("FlashBoot") = {} THEN Return("null pointer") ELSE Goto("data")
    /\ idblen' = 4 * SECTOR
    /\ UNCHANGED <<file, fileVars, entry, flashLen, head, idx, placed>>

PlaceData ==
    /\ pc = "data" /\ Place(Max(Named("FlashData")), "boot")
    /\ UNCHANGED <<file, fileVars, entry, flashLen, head, idx>>

PlaceBoot ==
    /\ pc = "boot" /\ Place(Max(Named("FlashBoot")), "true")
    /\ UNCHANGED <<file, fileVars, entry, flashLen, head, idx>>

Init ==
    /\ pc = "open" /\ file \in Files
    /\ bufsize = BUFFER /\ offset = 0 /\ eof = FALSE /\ entry = << >>
    /\ flashLen = 0 /\ idblen = 0 /\ head = 0 /\ idx = 1 /\ placed = << >>

Next == OpenFile \/ Read \/ Parse \/ Sum \/ PlaceHead \/ PlaceRest \/ Placed \/ Blocks \/ PlaceData \/ PlaceBoot

Spec == Init /\ [][Next]_vars

-----------------------------------------------------------------------------
TypeOK ==
    /\ offset \in 0..bufsize /\ flashLen \in Nat /\ idblen \in 0..UMAX - 1
    /\ idx \in 1..Len(entry) + 1 /\ head \in 0..Len(entry) + 1

\* file_load has the whole file when it stops, whatever its length is to the buffer's.
WholeFile == eof => offset = file.length

\* loader_align_size is the least multiple of a group that holds the length, up to
\* the last group below 2^32, from where on it is 0.
AlignHolds ==
    \A len \in 1..UMAX - GROUP * SECTOR :
        /\ loader_align_size(len) % (GROUP * SECTOR) = 0
        /\ loader_align_size(len) >= len /\ loader_align_size(len) < len + GROUP * SECTOR

\* A size that has an aligned length: above it loader_align_size is 0, and the copy
\* of such an entry has no room of its own.
Fits(i) == entry[i].size =< UMAX - GROUP * SECTOR

\* What fits is copied into the memory of the layout; behind what was copied before
\* it, and in the old layout behind the blocks, as long as idblen did not wrap.
StaysInside ==
    \A i \in DOMAIN placed : Fits(placed[i].entry) =>
        /\ InMemory(placed[i])
        /\ flashLen < UMAX =>
            /\ i > 1 /\ Fits(placed[i - 1].entry) => placed[i].at >= placed[i - 1].at + placed[i - 1].len
            /\ file.magic = "BOOT" => placed[i].at >= 4 * SECTOR

\* load accepts a file only if its last entry and the CRC behind it lie inside, or if
\* their end wrapped; and only such an entry, one that does not fit, or another one
\* than the last, which nobody checks, leads outside the file or the memory.
Wraps(e) == e.start + e.size + 4 >= UMAX
ChecksTheLast ==
    /\ entry # << >> => Wraps(entry[Len(entry)]) \/ entry[Len(entry)].start + entry[Len(entry)].size + 4 =< file.length
    /\ pc = "outside" =>
        LET es == file.entries
        IN \/ Wraps(es[Len(es)])
           \/ \E i \in DOMAIN entry : ~Fits(i)
           \/ \E i \in 1..Len(es) - 1 : ~InFile(i)

\* A layout that is finished has every entry it is to have, once, FlashHead first in
\* the new one and FlashData before FlashBoot in the old one, and fills its length.
LayoutIsComplete ==
    (pc = "true" /\ flashLen > 0) =>
        IF file.magic = "LDR "
        THEN /\ {placed[i].entry : i \in DOMAIN placed} = Loaders /\ Len(placed) = Cardinality(Loaders)
             /\ Named("FlashHead") # {} => entry[placed[1].entry].name = "FlashHead"
             /\ idblen = flashLen % UMAX
        ELSE /\ [i \in DOMAIN placed |-> entry[placed[i].entry].name] = <<"FlashData", "FlashBoot">>
             /\ idblen =< flashLen
=============================================================================
