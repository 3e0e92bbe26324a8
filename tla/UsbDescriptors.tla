--------------------------- MODULE UsbDescriptors ---------------------------
(***************************************************************************)
(* The parsers of descriptor.c: a configuration with its interfaces,       *)
(* altsettings and endpoints, the interface associations, the BOS, the     *)
(* SuperSpeed companion of an endpoint, and the freeing of what they made. *)
(* The bytes are those of a device: descriptors one behind the other, of   *)
(* which the last may be cut off.  One step is one round of a loop.        *)
(*                                                                         *)
(* A descriptor is its type, its bLength, and the two fields the parsers   *)
(* look at: num (bInterfaceNumber; bNumInterfaces of a configuration,      *)
(* bNumDeviceCaps of a BOS) and eps (bNumEndpoints).                       *)
(***************************************************************************)
EXTENDS Integers, Sequences, FiniteSetsExt, SequencesExt

CONSTANTS Jobs,     \* of "config", "iads", "bos", "companion"
          Inputs,   \* what a device may send: a set of [ds, cut] for each job
          Faults    \* bound on the allocations that fail

VARIABLES job, in, pc,
          i, k,        \* the next descriptor, the interface or capability that is parsed
          n,           \* bNumInterfaces, bNumDeviceCaps or the length of the association array
          ifs,         \* interfaces: [ptr, alts]
          filled,      \* associations or capabilities that were filled in
          start,       \* where parse_interface began
          heap, wrong, \* what is allocated; what was freed without being allocated
          seen,        \* history: up to where the bytes were looked at
          faults

vars == <<job, in, pc, i, k, n, ifs, filled, start, heap, wrong, seen, faults>>

MaxInterfaces == 32
MaxEndpoints == 32
HeaderLen == 2
InterfaceLen == 9
ConfigLen == 9
EndpointLen == 7
AudioLen == 9
BosLen == 5
CapabilityLen == 3
CompanionLen == 6
IadLen == 8
Proper == {"endpoint", "interface", "config", "device"}

-----------------------------------------------------------------------------
\* The bytes behind the first j - 1 descriptors, and the descriptor there.
Size == FoldLeft(LAMBDA sum, d : sum + d.len, 0, in.ds) - in.cut
Offset(j) == FoldLeft(LAMBDA sum, d : sum + d.len, 0, SubSeq(in.ds, 1, j - 1))
Left(j) == Size - Offset(j)
D(j) == in.ds[j]

\* So many bytes of the descriptor there are looked at; headers, from one to the next.
Look(j, bytes) == seen' = Max({seen, Offset(j) + bytes})
Header(j) == IF Left(j) >= HeaderLen THEN HeaderLen ELSE 0

\* Mutant: the length of a skipped descriptor is not compared with what is left.
StopsUnchecked(j) == Left(j) < HeaderLen \/ D(j).len < HeaderLen \/ D(j).type \in Proper

\* The descriptors of classes and vendors are skipped: the loop ends here.
Stops(j) == Left(j) < HeaderLen \/ D(j).len < HeaderLen \/ D(j).len > Left(j) \/ D(j).type \in Proper
SkipFrom(j) == CHOOSE s \in j .. Len(in.ds) + 1 : Stops(s) /\ \A r \in j .. s - 1 : ~Stops(r)
Invalid(j) == Left(j) >= HeaderLen /\ D(j).len < HeaderLen
Short(j) == Left(j) >= HeaderLen /\ D(j).len >= HeaderLen /\ D(j).len > Left(j)

\* One allocation: it gives the block, or fails.
Alloc(b) == heap' = heap \cup b /\ UNCHANGED faults
NoMem == faults < Faults /\ faults' = faults + 1 /\ UNCHANGED heap
Free(b) == heap' = heap \ b /\ wrong' = wrong \cup (b \ heap)

-----------------------------------------------------------------------------
(* parse_configuration *)

NoInterface == [ptr |-> FALSE, alts |-> <<>>]

ConfigHeader ==
    /\ pc = "config"
    /\ Look(1, IF Size < ConfigLen THEN 0 ELSE ConfigLen)
    /\ IF Size < ConfigLen \/ D(1).type # "config" \/ D(1).len < ConfigLen \/ D(1).len > Size \/ D(1).num > MaxInterfaces
       THEN pc' = "unwrap" /\ UNCHANGED <<i, n, ifs, heap, faults>>
       ELSE /\ n' = D(1).num
            /\ \/ /\ Alloc({<<"interface">>})
                  /\ ifs' = [x \in 1..D(1).num |-> NoInterface]
                  /\ i' = 2 /\ pc' = IF D(1).num = 0 THEN "parsed" ELSE "between"
               \/ NoMem /\ pc' = "unwrap" /\ UNCHANGED <<i, ifs>>
    /\ UNCHANGED <<job, in, k, filled, start, wrong>>

\* Before an interface: what is neither goes to the extra descriptors of the configuration.
Between ==
    /\ pc = "between"
    /\ LET s == SkipFrom(i)
       IN Look(s, Header(s)) /\
          IF Invalid(s) THEN i' = s /\ pc' = "clear" /\ UNCHANGED <<n, start, heap, faults>>
          ELSE IF Short(s) THEN i' = s /\ n' = k - 1 /\ pc' = "parsed" /\ UNCHANGED <<start, heap, faults>>
          ELSE \/ /\ Alloc(IF s > i THEN {<<"config_extra">>} ELSE {})
                  /\ i' = s /\ start' = s /\ pc' = "interface" /\ UNCHANGED n
               \/ s > i /\ NoMem /\ pc' = "clear" /\ UNCHANGED <<i, n, start>>
    /\ UNCHANGED <<job, in, k, ifs, filled, wrong>>

-----------------------------------------------------------------------------
(* parse_interface *)

NumAlt == Len(ifs[k].alts)
Alt == ifs[k].alts[NumAlt]
FirstNumber == D(start).num

\* Room for one more altsetting, and its descriptor.
Altsetting ==
    /\ pc = "interface"
    /\ IF Left(i) < InterfaceLen THEN pc' = "leave" /\ UNCHANGED <<i, ifs, heap, seen, faults>>
       ELSE \/ /\ Alloc({<<"altsetting", k>>}) /\ Look(i, InterfaceLen)
               /\ IF D(i).type = "interface" /\ D(i).len >= InterfaceLen /\ D(i).len <= Left(i) /\ D(i).eps <= MaxEndpoints
                  THEN /\ ifs' = [ifs EXCEPT ![k] = [ptr |-> TRUE, alts |-> Append(@.alts,
                                    [num |-> D(i).num, eps |-> D(i).eps, array |-> FALSE, extra |-> FALSE,
                                     got |-> 0, epExtra |-> {}])]]
                       /\ i' = i + 1 /\ pc' = "if_extra"
                  ELSE /\ ifs' = [ifs EXCEPT ![k].ptr = TRUE]
                       /\ pc' = IF D(i).type = "interface" /\ (D(i).len < InterfaceLen \/ D(i).len <= Left(i))
                                THEN "clear_if" ELSE "leave"
                       /\ UNCHANGED i
            \/ NoMem /\ pc' = "clear_if" /\ UNCHANGED <<i, ifs, seen>>
    /\ UNCHANGED <<job, in, k, n, filled, start, wrong>>

\* calloc of the endpoints fails.
ArrayFails(extra) == faults < Faults /\ faults' = faults + 1 /\ heap' = heap \cup extra /\ pc' = "clear_if"

\* Bytes that cannot be a descriptor are an error, a descriptor cut off is the end.
EndsWith(s) == IF Invalid(s) THEN "clear_if" ELSE "leave"

\* The extra descriptors of the altsetting, and the array of its endpoints.
InterfaceExtra ==
    /\ pc = "if_extra"
    /\ LET s == SkipFrom(i)
           extra == IF s > i THEN {<<"extra", k, NumAlt>>} ELSE {}
           eps == IF Alt.eps > 0 THEN {<<"endpoint", k, NumAlt>>} ELSE {}
           Made(a, x) == ifs' = [ifs EXCEPT ![k].alts[NumAlt] = [@ EXCEPT !.extra = x, !.array = a]]
       IN Look(s, Header(s)) /\
          IF Invalid(s) \/ Short(s) THEN pc' = EndsWith(s) /\ i' = s /\ UNCHANGED <<ifs, heap, faults>>
          ELSE /\ i' = s
               /\ \/ Alloc(extra \cup eps) /\ Made(eps # {}, extra # {}) /\ pc' = "endpoint"
                  \/ extra # {} /\ NoMem /\ pc' = "clear_if" /\ UNCHANGED ifs
                  \/ eps # {} /\ Made(FALSE, extra # {}) /\ ArrayFails(extra)
    /\ UNCHANGED <<job, in, k, n, filled, start, wrong>>

\* parse_endpoint, for the next endpoint of the altsetting; 0 ends the loop.
Endpoint ==
    /\ pc = "endpoint" /\ Alt.got < Alt.eps
    /\ IF Left(i) < HeaderLen \/ (D(i).type = "endpoint" /\ D(i).len < EndpointLen)
       THEN pc' = "clear_if" /\ Look(i, Header(i)) /\ UNCHANGED <<i, ifs, heap, faults>>
       ELSE IF D(i).type # "endpoint" \/ D(i).len > Left(i)
       THEN /\ ifs' = [ifs EXCEPT ![k].alts[NumAlt].eps = Alt.got]
            /\ pc' = "alternate" /\ Look(i, HeaderLen) /\ UNCHANGED <<i, heap, faults>>
       ELSE LET s == SkipFrom(i + 1)
                kept == IF s > i + 1 /\ ~Short(s) THEN {<<"ep_extra", k, NumAlt, Alt.got + 1>>} ELSE {}
            IN seen' = Max({seen, Offset(i) + (IF D(i).len >= AudioLen THEN AudioLen ELSE EndpointLen),
                            Offset(s) + Header(s)}) /\
               IF Invalid(s) THEN pc' = "clear_if" /\ i' = s /\ UNCHANGED <<ifs, heap, faults>>
               ELSE \/ /\ Alloc(kept) /\ i' = s /\ UNCHANGED pc
                       /\ ifs' = [ifs EXCEPT ![k].alts[NumAlt] = [@ EXCEPT !.got = @ + 1,
                                    !.epExtra = IF kept # {} THEN @ \cup {Alt.got + 1} ELSE @]]
                    \/ kept # {} /\ NoMem /\ pc' = "clear_if" /\ UNCHANGED <<i, ifs>>
    /\ UNCHANGED <<job, in, k, n, filled, start, wrong>>

\* Is the next descriptor another altsetting of this interface?
Alternate ==
    /\ pc = "alternate" \/ (pc = "endpoint" /\ Alt.got = Alt.eps)
    /\ pc' = IF Left(i) < InterfaceLen \/ D(i).type # "interface" \/ D(i).num # FirstNumber THEN "leave" ELSE "interface"
    /\ Look(i, IF Left(i) < InterfaceLen THEN 0 ELSE 3)
    /\ UNCHANGED <<job, in, i, k, n, ifs, filled, start, heap, wrong, faults>>

\* Back in parse_configuration: nothing parsed ends it.
LeaveInterface ==
    /\ pc = "leave"
    /\ IF i = start THEN n' = k - 1 /\ pc' = "parsed" /\ UNCHANGED k
       ELSE UNCHANGED n /\ (IF k = n THEN pc' = "parsed" /\ UNCHANGED k ELSE k' = k + 1 /\ pc' = "between")
    /\ UNCHANGED <<job, in, i, ifs, filled, start, heap, wrong, seen, faults>>

-----------------------------------------------------------------------------
(* The callers of libusb_get_max_packet_size and its relatives look for an endpoint. *)

\* A loop over the endpoints of altsetting a of interface x does without the array.
NoArray(x, a) == ifs[x].alts[a].eps > 0 /\ ~ifs[x].alts[a].array

\* find_endpoint: the altsettings are gone through until it is found, or to the end.
FindEndpoint ==
    /\ pc = "parsed"
    /\ \E x \in 1..n : \E a \in DOMAIN ifs[x].alts :
         pc' = IF \E y \in 1..x : \E b \in DOMAIN ifs[y].alts : (y = x => b <= a) /\ NoArray(y, b)
               THEN "null pointer" ELSE "parsed"
    /\ UNCHANGED <<job, in, i, k, n, ifs, filled, start, heap, wrong, seen, faults>>

\* find_alt_endpoint: in one altsetting.
FindAltEndpoint ==
    /\ pc = "parsed"
    /\ \E x \in 1..2, a \in 1..2 : x <= n /\ a <= Len(ifs[x].alts) /\ NoArray(x, a)
    /\ pc' = "null pointer"
    /\ UNCHANGED <<job, in, i, k, n, ifs, filled, start, heap, wrong, seen, faults>>

-----------------------------------------------------------------------------
(* clear_interface, clear_configuration *)

\* What clear_interface frees: through the pointers, as far as the counts go.
InterfaceBlocks(x) ==
    IF ~ifs[x].ptr THEN {}
    ELSE {<<"altsetting", x>>} \cup UNION {
           LET alt == ifs[x].alts[a]
           IN (IF alt.extra THEN {<<"extra", x, a>>} ELSE {})
              \cup (IF alt.array THEN {<<"endpoint", x, a>>} \cup {<<"ep_extra", x, a, e>> : e \in alt.epExtra \cap 1..alt.eps}
                    ELSE {}) : a \in DOMAIN ifs[x].alts}
Cleared(x) == [ifs EXCEPT ![x].ptr = FALSE]

ClearInterface ==
    /\ pc = "clear_if"
    /\ Free(InterfaceBlocks(k))
    /\ ifs' = Cleared(k)
    /\ pc' = "clear"
    /\ UNCHANGED <<job, in, i, k, n, filled, start, seen, faults>>

\* clear_configuration: after an error, and from libusb_free_config_descriptor.
ClearConfiguration ==
    /\ pc \in {"clear", "parsed"}
    /\ Free(UNION {InterfaceBlocks(x) : x \in 1..n} \cup {<<"interface">>} \cup (heap \cap {<<"config_extra">>}))
    /\ ifs' = [x \in DOMAIN ifs |-> IF x <= n THEN [ifs[x] EXCEPT !.ptr = FALSE] ELSE ifs[x]]
    /\ pc' = IF pc = "clear" THEN "unwrap" ELSE "release"
    /\ UNCHANGED <<job, in, i, k, n, filled, start, seen, faults>>

\* raw_desc_to_config, libusb_free_config_descriptor: the configuration itself.
FreeConfig ==
    /\ pc \in {"unwrap", "release"}
    /\ Free({<<"config">>})
    /\ pc' = IF pc = "unwrap" THEN "failed" ELSE "freed"
    /\ UNCHANGED <<job, in, i, k, n, ifs, filled, start, seen, faults>>

-----------------------------------------------------------------------------
(* parse_iad_array: the associations are counted, then copied. *)

\* The first pass goes on while a byte is left, and compares a length with the whole size.
IadEnd == CHOOSE s \in 1 .. Len(in.ds) + 1 :
            /\ Left(s) <= 0 \/ D(s).len < HeaderLen \/ D(s).len > Size
            /\ \A r \in 1 .. s - 1 : Left(r) > 0 /\ D(r).len >= HeaderLen /\ D(r).len <= Size

\* With one byte left the type it looks at is whatever is behind the end.
CountIads ==
    /\ pc = "iads"
    /\ IF Size < ConfigLen THEN pc' = "iad_failed" /\ UNCHANGED <<n, heap, seen, faults>>
       ELSE /\ seen' = Max({Offset(r) + HeaderLen : r \in {q \in 1..IadEnd : Left(q) > 0}})
            /\ IF Left(IadEnd) > 0 THEN pc' = "iad_failed" /\ UNCHANGED <<n, heap, faults>>
               ELSE \E behind \in {{}, {r \in 1 .. IadEnd - 1 : Left(r) < HeaderLen}} :
                      LET c == Cardinality({r \in 1 .. IadEnd - 1 : Left(r) >= HeaderLen /\ D(r).type = "iad"} \cup behind)
                      IN /\ n' = c
                         /\ \/ Alloc(IF c > 0 THEN {<<"iad">>} ELSE {}) /\ pc' = IF c > 0 THEN "iad_fill" ELSE "iad_done"
                            \/ c > 0 /\ NoMem /\ pc' = "iad_failed"
    /\ UNCHANGED <<job, in, i, k, ifs, filled, start, wrong>>

\* What is copied of those: an association that is all there.
Fills(r) == D(r).type = "iad" /\ Left(r) >= IadLen

FillIads ==
    /\ pc = "iad_fill"
    /\ LET rest == {r \in 1 .. Len(in.ds) : Left(r) >= HeaderLen}
           mine == {r \in rest : Fills(r)}
       IN /\ filled' = Cardinality(mine)
          /\ i' = Max({0} \cup mine) + 1
          /\ seen' = Max({seen} \cup {Offset(r) + HeaderLen : r \in rest} \cup {Offset(r) + IadLen : r \in mine})
    /\ pc' = "iad_done"
    /\ UNCHANGED <<job, in, k, n, ifs, start, heap, wrong, faults>>

\* libusb_free_interface_association_descriptors, or free(_iad_array) after an error.
FreeIads ==
    /\ pc \in {"iad_failed", "iad_done"}
    /\ Free({<<"array">>} \cup (IF pc = "iad_done" /\ n > 0 THEN {<<"iad">>} ELSE {}))
    /\ pc' = IF pc = "iad_done" THEN "freed" ELSE "failed"
    /\ UNCHANGED <<job, in, i, k, n, ifs, filled, start, seen, faults>>

-----------------------------------------------------------------------------
(* parse_bos *)

BosHeader ==
    /\ pc = "bos"
    /\ Look(1, IF Size < BosLen THEN 0 ELSE BosLen)
    /\ IF Size < BosLen \/ D(1).type # "bos" \/ D(1).len < BosLen \/ D(1).len > Size
       THEN pc' = "failed" /\ UNCHANGED <<i, n, heap, faults>>
       ELSE \/ Alloc({<<"bos">>}) /\ n' = D(1).num /\ i' = 2 /\ pc' = "capability"
            \/ NoMem /\ pc' = "failed" /\ UNCHANGED <<i, n>>
    /\ UNCHANGED <<job, in, k, ifs, filled, start, wrong>>

\* The capabilities, until one is missing or cut off.
Capability ==
    /\ pc = "capability" /\ filled < n
    /\ IF Left(i) < CapabilityLen \/ D(i).type # "capability" \/ (D(i).len >= CapabilityLen /\ D(i).len > Left(i))
       THEN n' = filled /\ Look(i, IF Left(i) < CapabilityLen THEN 0 ELSE HeaderLen) /\ UNCHANGED <<pc, i, filled, heap, faults>>
       ELSE IF D(i).len < CapabilityLen THEN pc' = "bos_failed" /\ Look(i, HeaderLen) /\ UNCHANGED <<i, n, filled, heap, faults>>
       ELSE \/ /\ Alloc({<<"capability", filled + 1>>}) /\ Look(i, D(i).len)
               /\ filled' = filled + 1 /\ i' = i + 1 /\ UNCHANGED <<pc, n>>
            \/ NoMem /\ pc' = "bos_failed" /\ Look(i, HeaderLen) /\ UNCHANGED <<i, n, filled>>
    /\ UNCHANGED <<job, in, k, ifs, start, wrong>>

\* libusb_free_bos_descriptor frees the pointers it has, NULL ones too.
FreeBos ==
    /\ pc = "bos_failed" \/ (pc = "capability" /\ filled = n)
    /\ Free({<<"bos">>} \cup {<<"capability", c>> : c \in 1..filled})
    /\ pc' = IF pc = "bos_failed" THEN "failed" ELSE "freed"
    /\ UNCHANGED <<job, in, i, k, n, ifs, filled, start, seen, faults>>

-----------------------------------------------------------------------------
\* libusb_get_ss_endpoint_companion_descriptor: the extra descriptors of an endpoint
\* are looked through; a length is looked at when the descriptor is skipped.
FindCompanion ==
    /\ pc = "companion"
    /\ LET Ends(s) == Left(s) < HeaderLen \/ D(s).type = "companion" \/ D(s).len < HeaderLen
           at == CHOOSE s \in 1 .. Len(in.ds) + 1 : Ends(s) /\ \A r \in 1 .. s - 1 : ~Ends(r)
           heads == {0} \cup {Offset(r) + HeaderLen : r \in {q \in 1..at : Left(q) >= HeaderLen}}
       IN /\ i' = at
          /\ IF Left(at) < HeaderLen \/ D(at).type # "companion" \/ D(at).len < CompanionLen \/ D(at).len > Left(at)
             THEN pc' = "failed" /\ seen' = Max(heads) /\ UNCHANGED faults
             ELSE \/ pc' = "found" /\ Look(at, CompanionLen) /\ UNCHANGED faults
                  \/ pc' = "failed" /\ seen' = Max(heads) /\ faults < Faults /\ faults' = faults + 1
    /\ UNCHANGED <<job, in, k, n, ifs, filled, start, heap, wrong>>

-----------------------------------------------------------------------------
Init == \E j \in Jobs : \E inp \in Inputs[j] :
    /\ job = j /\ in = inp /\ pc = j /\ i = 1 /\ k = 1 /\ n = 0 /\ ifs = <<>> /\ filled = 0 /\ start = 0
    /\ heap = (IF j = "config" THEN {<<"config">>} ELSE IF j = "iads" THEN {<<"array">>} ELSE {})
    /\ wrong = {} /\ seen = 0 /\ faults = 0

Next == \/ ConfigHeader \/ Between \/ Altsetting \/ InterfaceExtra \/ Endpoint \/ Alternate \/ LeaveInterface
        \/ FindEndpoint \/ FindAltEndpoint
        \/ ClearInterface \/ ClearConfiguration \/ FreeConfig
        \/ CountIads \/ FillIads \/ FreeIads \/ BosHeader \/ Capability \/ FreeBos \/ FindCompanion

Spec == Init /\ [][Next]_vars

-----------------------------------------------------------------------------
\* Properties.

TypeOK ==
    /\ job \in Jobs /\ i \in 1 .. Len(in.ds) + 1 /\ k \in 1 .. MaxInterfaces + 1 /\ n \in 0 .. MaxInterfaces
    /\ filled \in 0..Len(in.ds) /\ faults \in 0..Faults
    /\ \A x \in DOMAIN ifs : \A a \in DOMAIN ifs[x].alts : ifs[x].alts[a].eps \in 0..MaxEndpoints

\* Whatever a device sends, the parsers look at no byte behind those it sent, and no
\* descriptor they have gone over ends behind them. The first pass over the
\* associations is the exception: with one byte left it looks for a type behind it.
StaysInBuffer ==
    /\ seen <= Size + (IF job = "iads" /\ \E r \in 1 .. Len(in.ds) : Left(r) = 1 THEN 1 ELSE 0)
    /\ job \in {"config", "bos"} => Left(i) >= 0

\* What the caller gets is what the counts say: each interface it may look at has an
\* altsetting, each array of endpoints has as many parsed endpoints as its altsetting
\* says, and all of a BOS's capabilities are there.
CountsAreFilled ==
    /\ pc = "parsed" => \A x \in 1..n : Len(ifs[x].alts) > 0
                     /\ \A a \in DOMAIN ifs[x].alts : ifs[x].alts[a].array => ifs[x].alts[a].got = ifs[x].alts[a].eps
    /\ pc = "capability" => \A c \in 1..filled : <<"capability", c>> \in heap

\* No path through the parsers, with an allocation that fails or without, frees
\* something twice.
FreedOnce == wrong = {}

\* What is left allocated in the end: nothing but the array of altsettings of an
\* interface that turned out not to be there.
NothingElseLeft ==
    pc \in {"freed", "failed"} => heap \subseteq {<<"altsetting", n + 1>>}

\* A configuration as the standard wants it: blocks of altsettings with one interface
\* number each, as many blocks as announced, behind each altsetting its endpoints.
At(t) == {r \in 2 .. Len(in.ds) : D(r).type = t}
Behind(r) == CHOOSE s \in At("interface") : s < r /\ \A q \in At("interface") : q < r => q <= s
Blocks == {r \in At("interface") : (\A q \in At("interface") : q >= r) \/ D(Behind(r)).num # D(r).num}
Standard ==
    /\ in.cut = 0 /\ in.ds[1].type = "config"
    /\ \A r \in 1 .. Len(in.ds) : D(r).len >= (CASE D(r).type \in {"config", "interface"} -> 9 [] D(r).type = "endpoint" -> 7 [] OTHER -> 2)
    /\ At("config") = {} /\ D(1).num = Cardinality(Blocks) /\ D(1).num <= MaxInterfaces
    /\ \A r \in At("endpoint") : \E s \in At("interface") : s < r
    /\ \A s \in At("interface") : D(s).eps <= MaxEndpoints /\ D(s).eps = Cardinality({r \in At("endpoint") : Behind(r) = s})

\* Such a configuration is parsed completely: every interface, altsetting and
\* endpoint of it is found, in its order.
StandardIsParsed ==
    pc = "parsed" /\ Standard =>
      /\ n = Cardinality(Blocks)
      /\ FlattenSeq([x \in 1..n |-> [a \in DOMAIN ifs[x].alts |-> <<ifs[x].alts[a].num, ifs[x].alts[a].got>>]])
           = [j \in 1 .. Cardinality(At("interface")) |->
                LET s == CHOOSE s \in At("interface") : Cardinality({q \in At("interface") : q <= s}) = j
                IN <<D(s).num, D(s).eps>>]

\* libusb.h says that the array of endpoints is as long as bNumEndpoints says, and
\* find_endpoint relies on it.  It is, unless the bytes end within the descriptors
\* behind an interface.
LookupFindsArray ==
    pc = "null pointer" => Short(i)
=============================================================================
