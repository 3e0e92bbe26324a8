----------------------------- MODULE UsbReplies -----------------------------
(***************************************************************************)
(* What descriptor.c makes of the replies of a device: a string descriptor *)
(* as ASCII text, the BOS with its two requests, and the capabilities that *)
(* are taken out of a BOS.  The device is free in what it answers: each    *)
(* reply has a number of bytes, and a bLength or wTotalLength in it.       *)
(***************************************************************************)
EXTENDS Integers, FiniteSets, FiniteSetsExt

CONSTANTS Lengths,    \* bytes that the caller's buffer for a string has
          Counts,     \* bytes of a reply, and what may be in bLength
          Totals,     \* what may be in wTotalLength of the BOS
          Sublinks,   \* numbers of sublink attributes
          CapLengths  \* bLength of a capability

VARIABLES pc, length,    \* where the program is; the caller's buffer
          room, got,     \* bytes allocated for a reply, and bytes of it that came
          looked, wrote, \* bytes of the reply that were looked at, bytes written to the caller's
          block,         \* what became of the block a getter allocated: "none", "given", "lost"
          ret

vars == <<pc, length, room, got, looked, wrote, block, ret>>

HeaderLen == 2
StringMax == 255
BosLen == 5
Error == -1

Return(r) == pc' = "returned" /\ ret' = r

-----------------------------------------------------------------------------
\* libusb_get_string_descriptor_ascii: the language, four bytes of string 0.
StringLanguage ==
    /\ pc = "string"
    /\ \E r \in {Error, 2, 4}, bLength \in Counts :
         /\ got' = r /\ looked' = (IF r = 4 THEN 4 ELSE 0)
         /\ IF r # 4 \/ bLength < 4 THEN Return(Error) ELSE pc' = "text" /\ UNCHANGED ret
    /\ room' = 4
    /\ UNCHANGED <<length, wrote, block>>

\* Then the text: one character for every two bytes, and a 0 behind them, also with
\* room for nothing.
StringText ==
    /\ pc = "text"
    /\ \E r \in Counts \cup {Error}, bLength \in Counts :
         /\ got' = r
         /\ IF r < HeaderLen \/ bLength > r
            THEN looked' = (IF r < HeaderLen THEN 0 ELSE HeaderLen) /\ Return(Error) /\ UNCHANGED wrote
            ELSE LET chars == Max({0, Min({length - 1, (bLength - 2) \div 2})})
                 IN looked' = 2 + 2 * chars /\ wrote' = chars + 1 /\ Return(chars)
    /\ room' = StringMax
    /\ UNCHANGED <<length, block>>

-----------------------------------------------------------------------------
\* libusb_get_bos_descriptor: its head says how much room the whole takes.
BosHead ==
    /\ pc = "bos"
    /\ \E r \in {Error} \cup 0..BosLen, total \in Totals :
         /\ got' = r
         /\ IF r < BosLen THEN Return(Error) /\ UNCHANGED room
            ELSE room' = total /\ pc' = "bos_whole" /\ UNCHANGED ret
    /\ UNCHANGED <<length, looked, wrote, block>>

\* The whole: the parser is given what came, whatever the second head says.
BosWhole ==
    /\ pc = "bos_whole"
    /\ \E r \in {Error, 0, room \div 2, room}, total \in Totals :
         got' = r /\ looked' = (IF r < BosLen THEN 0 ELSE r) /\ Return(IF r < BosLen THEN Error ELSE 0)
    /\ UNCHANGED <<length, room, wrote, block>>

-----------------------------------------------------------------------------
(* The capabilities: one of another type, or too short, is refused, and there may be *)
(* no memory. *)

\* A getter refuses after a look at the length and the type.
Refuse == looked' = 3 /\ Return(Error) /\ UNCHANGED block

\* Otherwise malloc fails, or the caller is given what was made of so many bytes.
Give(all) == looked' = all /\ Return(0) /\ block' = "given"
Take(right, len, least, all) == Refuse \/ (right /\ len >= least /\ Give(all))

GetUsb20Extension(type, len) == Take(type = "usb20", len, 7, 7)
GetSsUsbDevice(type, len) == Take(type = "ss", len, 10, 10)
GetContainerId(type, len) == Take(type = "container", len, 20, 20)

\* The id of a platform, and whatever is behind it.
GetPlatform(type, len) == Take(type = "platform", len, 20, len)

\* The attributes of the sublinks have to be there, too: they are looked for when the
\* block is allocated, and it is not freed when they are not.
GetSsPlus(type, len, sublinks) ==
    IF type # "ssplus" \/ len < 12 THEN Refuse
    ELSE \/ looked' = 12 /\ Return(Error) /\ UNCHANGED block
         \/ len < 12 + 4 * sublinks /\ looked' = 12 /\ Return(Error) /\ block' = "lost"
         \/ len >= 12 + 4 * sublinks /\ Give(12 + 4 * sublinks)

GetCapability ==
    /\ pc = "capability"
    /\ \E len \in CapLengths, type \in {"usb20", "ss", "ssplus", "container", "platform"} :
         /\ got' = len /\ room' = len
         /\ \/ GetUsb20Extension(type, len)
            \/ GetSsUsbDevice(type, len)
            \/ GetContainerId(type, len)
            \/ GetPlatform(type, len)
            \/ \E s \in Sublinks : GetSsPlus(type, len, s)
    /\ UNCHANGED <<length, wrote>>

-----------------------------------------------------------------------------
Init ==
    /\ pc \in {"string", "bos", "capability"} /\ length \in Lengths
    /\ room = 0 /\ got = 0 /\ looked = 0 /\ wrote = 0 /\ block = "none" /\ ret = 0

Next == StringLanguage \/ StringText \/ BosHead \/ BosWhole \/ GetCapability

Spec == Init /\ [][Next]_vars

-----------------------------------------------------------------------------
\* Properties.

TypeOK == /\ length \in Lengths /\ room \in {0, 4, StringMax} \cup Totals \cup CapLengths
          /\ block \in {"none", "given", "lost"} /\ wrote \in 0..StringMax /\ ret \in -1..StringMax

\* Whatever lengths are in a reply, nothing behind the bytes that came, or behind the
\* room for them, is looked at.
LooksAtReply == pc = "returned" /\ looked > 0 => looked <= got /\ got <= room

\* A string fits the caller's buffer with its final 0, and is as long as the result says.
\* The 0 takes one byte, also where the caller has room for none.
StringFits == wrote > 0 => wrote <= Max({length, 1}) /\ ret = wrote - 1

\* What a getter allocates is the caller's when it returns 0, and no more allocated when
\* it fails, but for a SuperSpeedPlus capability that ends within its sublinks.
NothingLost ==
    pc = "returned" /\ got \in CapLengths /\ room = got =>
        (block = "given" => ret = 0) /\ (block = "lost" => ret = Error /\ looked = 12 /\ got < 12 + 4 * Max(Sublinks))
=============================================================================
