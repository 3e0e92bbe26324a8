---------------------------- MODULE RkFlashProofs ----------------------------
(***************************************************************************)
(* Proofs about RkFlash, for every operation, chunk, sector and device     *)
(* size and any number of calls: wherever an operation stops, the device   *)
(* holds a prefix of it, and `true' means that all of it is there.         *)
(***************************************************************************)
EXTENDS RkFlash, FiniteSetTheorems, TLAPS

USE ChunkAssumption, TotalAssumption, WidthAssumption, OperationsAssumption

-----------------------------------------------------------------------------
\* The calls: what the device may still execute has not been executed, and as long
\* as no call has failed it is the one the loop waits for, if any.
CallInv ==
    /\ started \in Nat /\ executed \subseteq 1..started /\ trusted \in BOOLEAN
    /\ \A c \in executed : \A d \in pending : c < d
    /\ trusted => pending \subseteq (IF busy THEN {started} ELSE {})

\* An operation that has not returned false: cnt sectors from sec on are left, and
\* of a file the bytes of all sectors behind the chunk.  Only the last chunk of a
\* file may have read more than len had left.
Going == pc # "idle" \/ ret = "true"
LoopInv ==
    /\ pc # "idle" => ret = "none"
    /\ pc = "call" => started > 0 /\ n \in 1..MAXSEC /\ n =< cnt
    /\ Going => /\ sec >= op.sec /\ sec + cnt = op.sec + Goal(op)
                /\ op.kind = "write_file" => op.len > 0
                /\ ret = "true" => cnt = 0
    /\ pc = "loop" /\ op.kind = "write_file" /\ cnt > 0 =>
        len = op.len - (sec - op.sec) * BPS /\ ~grown
    /\ pc = "call" /\ op.kind = "write_file" /\ cnt > n =>
        len = op.len - (sec + n - op.sec) * BPS /\ ~grown

\* Call c is the chunk of n sectors from sec on, with the right content.
IsChunk(c) ==
    /\ request[c].sec = sec /\ request[c].n = n /\ request[c].changes = Changes(op)
    /\ sec >= op.sec /\ n \in 1..MAXSEC
    /\ \A s \in sec..sec + n - 1 :
        /\ Changes(op) => request[c].data[s - sec + 1] = Content(op, s - op.sec)
        /\ s \in Sectors => s \in Wanted(op)

\* A chunk command carries as many sectors as it says.
RequestInv == \A c \in DOMAIN request : DOMAIN request[c].data = 1..request[c].n

TypeInv == TypeOK /\ CallInv /\ LoopInv /\ RequestInv

\* No call of a running operation has failed; the chunk of its running call, and of
\* one that failed and may still be executed.
ChunkInv ==
    /\ clean /\ pc # "idle" => trusted
    /\ pc = "call" => IsChunk(started)
    /\ clean /\ pending # {} => pending = {started} /\ IsChunk(started)

\* What the device holds, as long as it obeys and the operation began without an
\* unanswered call: all sectors below sec, those of the chunk once it is executed,
\* and in between a part of the chunk.
Obeys == clean /\ ~refused
DeviceInv ==
    Obeys =>
        /\ \E end \in 0..Total : flash = DoneUpTo(end)
        /\ pending # {} => flash = DoneUpTo(sec)
        /\ pc = "loop" \/ (pc = "idle" /\ ret = "true") =>
            flash = DoneUpTo(sec) /\ sec =< Total /\ pending = {}
        /\ pc = "call" /\ started \in executed =>
            flash = DoneUpTo(sec + n) /\ sec + n =< Total

\* What a read has put in its buffer, and what the device answers to its chunk.
ReadInv ==
    Obeys /\ ~Changes(op) =>
        /\ Going => Len(got) = sec - op.sec /\ \A j \in DOMAIN got : got[j] = base[op.sec + j - 1]
        /\ pc = "call" /\ started \in executed => answer = [j \in 1..n |-> base[sec + j - 1]]

FlashInv == ChunkInv /\ DeviceInv /\ ReadInv

-----------------------------------------------------------------------------
LEMMA ElementType ==
    ASSUME NEW S, NEW q \in Seq(S), NEW i \in DOMAIN q
    PROVE  q[i] \in S
OBVIOUS

LEMMA ConcatElement ==
    ASSUME NEW S, NEW q \in Seq(S), NEW r \in Seq(S)
    PROVE  /\ q \o r \in Seq(S) /\ Len(q \o r) = Len(q) + Len(r)
           /\ DOMAIN (q \o r) = 1..Len(q) + Len(r)
           /\ \A j \in 1..Len(q) + Len(r) :
                (q \o r)[j] = IF j =< Len(q) THEN q[j] ELSE r[j - Len(q)]
OBVIOUS

\* Arithmetic of sectors and bytes.

LEMMA DivMod ==
    ASSUME NEW a \in Nat, NEW b \in Nat \ {0}
    PROVE  a = (a \div b) * b + (a % b) /\ a % b \in 0..b - 1 /\ a \div b \in Nat
OBVIOUS

LEMMA TimesMonotone ==
    ASSUME NEW i \in Nat, NEW j \in Nat, NEW b \in Nat, i =< j
    PROVE  i * b =< j * b
OBVIOUS

LEMMA TimesOver ==
    ASSUME NEW i \in Int, NEW j \in Int, NEW b \in Int
    PROVE  /\ (i + j) * b = i * b + j * b /\ (i - j) * b = i * b - j * b
           /\ i * b \in Int
OBVIOUS

\* A file has as many sectors as begin before its end.
CountOf(bytes) == (bytes \div BPS) + (IF bytes % BPS # 0 THEN 1 ELSE 0)

LEMMA CountIsWhole ==
    ASSUME NEW bytes \in Nat
    PROVE  /\ CountOf(bytes) \in Nat
           /\ \A i \in Nat : i < CountOf(bytes) <=> i * BPS < bytes
<1> DEFINE q == bytes \div BPS
           r == bytes % BPS
<1>1. bytes = q * BPS + r /\ r \in 0..BPS - 1 /\ q \in Nat
  BY DivMod
<1>2. CountOf(bytes) = q + (IF r # 0 THEN 1 ELSE 0)
  BY DEF CountOf
<1> HIDE DEF q, r
<1>3. ASSUME NEW i \in Nat
      PROVE  i < CountOf(bytes) <=> i * BPS < bytes
  <2>1. i * BPS \in Nat /\ q * BPS \in Nat
    BY <1>1
  <2>2. CASE i < q
    <3>1. (i + 1) * BPS =< q * BPS /\ (i + 1) * BPS = i * BPS + BPS
      BY <1>1, <2>2, TimesMonotone, TimesOver
    <3> QED
      BY <1>1, <1>2, <2>1, <2>2, <3>1
  <2>3. CASE i = q
    BY <1>1, <1>2, <2>1, <2>3
  <2>4. CASE i > q
    <3>1. (q + 1) * BPS =< i * BPS /\ (q + 1) * BPS = q * BPS + BPS
      BY <1>1, <2>4, TimesMonotone, TimesOver
    <3> QED
      BY <1>1, <1>2, <2>1, <2>4, <3>1
  <2> QED
    BY <1>1, <2>2, <2>3, <2>4
<1> QED
  BY <1>1, <1>2, <1>3

LEMMA LesserIs ==
    ASSUME NEW a \in Int, NEW b \in Int
    PROVE  /\ Lesser(a, b) \in {a, b} /\ Lesser(a, b) =< a /\ Lesser(a, b) =< b
BY DEF Lesser

\* What is known of an operation.
LEMMA OperationType ==
    ASSUME NEW o \in Operations
    PROVE  /\ o.kind \in Kinds /\ o.sec \in Nat /\ o.sec < Total /\ o.cnt \in Nat /\ o.len \in Nat
           /\ Total - o.sec \in Nat /\ Total - o.sec > 0
BY DEF Sectors

\* The sectors of a file: the count may have lost its high bits, and is then taken
\* for all there is room for only if it is 0.
LEMMA FileSectors ==
    ASSUME NEW o \in Operations, o.kind = "write_file", o.len > 0
    PROVE  /\ Goal(o) \in Nat /\ Goal(o) =< CountOf(o.len) /\ Goal(o) =< Total - o.sec
           /\ CountFits(o) => Goal(o) = Lesser(CountOf(o.len), Total - o.sec)
<1> DEFINE c == CountOf(o.len)
           w == c % Width
<1>1. c \in Nat /\ (\A i \in Nat : i < c <=> i * BPS < o.len) /\ o.len \in Nat
  BY CountIsWhole, OperationType
<1>2. c > 0
  BY <1>1
<1>3. Goal(o) = IF w = 0 THEN Total - o.sec ELSE Lesser(w, Total - o.sec)
  BY DEF Goal, ClipFile, CountOf
<1>4. Width \in Nat \ {0}
  OBVIOUS
<1> HIDE DEF c
<1>5. w \in 0..Width - 1 /\ w =< c /\ (c < Width => w = c) /\ (w = 0 => c >= Width)
  <2> DEFINE q == c \div Width
  <2>1. c = q * Width + w /\ w \in 0..Width - 1 /\ q \in Nat
    BY <1>1, <1>4, DivMod
  <2>2. q * Width \in Nat /\ (q = 0 => q * Width = 0) /\ (q > 0 => q * Width >= Width)
    BY <1>4, <2>1
  <2> QED
    BY <1>1, <1>2, <2>1, <2>2
<1>6. CountFits(o) => c < Width
  <2> SUFFICES ASSUME o.len <= (Width - 1) * BPS PROVE c < Width
    BY DEF CountFits
  <2>1. ~(Width - 1 < c)
    BY <1>1, <1>4
  <2> QED
    BY <1>1, <1>4, <2>1
<1> HIDE DEF w
<1>7. Total - o.sec \in Nat /\ Total - o.sec > 0 /\ Total - o.sec < Width
  BY OperationType
<1>8. Goal(o) \in Nat /\ Goal(o) =< c /\ Goal(o) =< Total - o.sec
  BY <1>1, <1>3, <1>5, <1>7, LesserIs DEF Lesser
<1>9. CountFits(o) => Goal(o) = Lesser(c, Total - o.sec)
  BY <1>1, <1>2, <1>3, <1>5, <1>6
<1> QED
  BY <1>8, <1>9 DEF c

\* The loop's sectors are wanted, and they are all that is wanted.
LEMMA GoalIsWanted ==
    ASSUME NEW o \in Operations, o.kind = "write_file" => o.len > 0
    PROVE  /\ Goal(o) \in Nat
           /\ \A s \in Sectors : s >= o.sec /\ s < o.sec + Goal(o) => s \in Wanted(o)
           /\ CountFits(o) => \A s \in Wanted(o) : s >= o.sec /\ s < o.sec + Goal(o)
<1> USE OperationType
<1>1. CASE o.kind = "write_file"
  <2>1. /\ Goal(o) \in Nat /\ Goal(o) =< CountOf(o.len) /\ Goal(o) =< Total - o.sec
        /\ CountFits(o) => Goal(o) = Lesser(CountOf(o.len), Total - o.sec)
    BY <1>1, FileSectors
  <2>2. CountOf(o.len) \in Nat /\ \A i \in Nat : i < CountOf(o.len) <=> i * BPS < o.len
    BY CountIsWhole
  <2>3. ASSUME NEW s \in Sectors, s >= o.sec
        PROVE  s - o.sec \in Nat /\ (s \in Wanted(o) <=> s - o.sec < CountOf(o.len))
    <3>1. s - o.sec \in Nat /\ s \in Nat
      BY <2>3 DEF Sectors
    <3> QED
      BY <1>1, <2>2, <2>3, <3>1 DEF Wanted
  <2>4. \A s \in Wanted(o) : s \in Sectors /\ s >= o.sec /\ s \in Nat /\ s < Total
    BY DEF Wanted, Sectors
  <2>5. ASSUME NEW s \in Sectors, s >= o.sec, s < o.sec + Goal(o)
        PROVE  s \in Wanted(o)
    BY <2>1, <2>2, <2>3, <2>5 DEF Sectors
  <2>6. ASSUME CountFits(o), NEW s \in Wanted(o)
        PROVE  s >= o.sec /\ s < o.sec + Goal(o)
    BY <2>1, <2>2, <2>3, <2>4, <2>6 DEF Lesser
  <2> QED
    BY <2>1, <2>5, <2>6
<1>2. CASE o.kind # "write_file"
  BY <1>2 DEF Goal, ClipRange, Wanted, Sectors, Kinds
<1> QED
  BY <1>1, <1>2

-----------------------------------------------------------------------------
\* Types, calls and the loop's counters.

LEMMA ContentType ==
    ASSUME NEW i \in Nat, NEW b \in 0..BPS
    PROVE  Blank \in Value /\ Old(i) \in Value /\ Data(i, b) \in Value
BY DEF Value, Blank, Old, Data

LEMMA FilledType ==
    ASSUME NEW r \in Nat, NEW j \in Nat
    PROVE  Filled(r, j) \in 0..BPS
<1>1. j * BPS \in Nat /\ BPS \in Nat
  OBVIOUS
<1> DEFINE m == j * BPS
<1>2. m \in Nat
  BY <1>1
<1> HIDE DEF m
<1>3. Filled(r, j) = IF r =< m THEN 0 ELSE Lesser(BPS, r - m)
  BY DEF Filled, m
<1> QED
  BY <1>1, <1>2, <1>3 DEF Lesser

LEMMA BufferType ==
    ASSUME TypeOK, sec >= op.sec, NEW m \in 1..MAXSEC, NEW r \in Nat
    PROVE  Buffer(m, r) \in Seq(Value) /\ DOMAIN Buffer(m, r) = 1..m
<1>1. op \in Operations /\ sec \in Nat /\ op.sec \in Nat
  BY OperationType DEF TypeOK
<1>2. ASSUME NEW j \in 1..m
      PROVE  Buffer(m, r)[j] \in Value
  <2>1. sec - op.sec + j - 1 \in Nat /\ j - 1 \in Nat
    BY <1>1
  <2>2. Filled(r, j - 1) \in 0..BPS
    <3> DEFINE i == j - 1
    <3>1. i \in Nat
      BY <2>1
    <3> HIDE DEF i
    <3>2. Filled(r, i) \in 0..BPS
      BY <3>1, FilledType
    <3> QED
      BY <3>2 DEF i
  <2>3. BPS \in 0..BPS
    OBVIOUS
  <2> QED
    BY <2>1, <2>2, <2>3, ContentType DEF Buffer
<1>3. DOMAIN Buffer(m, r) = 1..m /\ Buffer(m, r) = [j \in 1..m |-> Buffer(m, r)[j]]
  BY DEF Buffer
<1> QED
  BY <1>2, <1>3

\* Every step is one of RkCall, or leaves the calls alone.
LEMMA CallSteps ==
    ASSUME [Next]_vars
    PROVE  \/ Call!Start /\ pc' = "call"
           \/ (\E c \in pending : Call!Execute(c)) /\ UNCHANGED pc
           \/ Call!Lose /\ UNCHANGED pc
           \/ Call!Succeed /\ pc' # "call"
           \/ Call!Fail /\ pc' # "call"
           \/ Call!Restart /\ pc' # "call"
           \/ UNCHANGED callVars /\ pc # "call" /\ pc' # "call"
           \/ UNCHANGED callVars /\ UNCHANGED pc
<1> USE DEF Return
<1>1. CASE \E o \in Operations : Begin(o)
  BY <1>1 DEF Begin
<1>2. CASE Finish
  BY <1>2 DEF Finish
<1>3. CASE StartChunk
  BY <1>3 DEF StartChunk
<1>4. CASE ShortRead
  BY <1>4 DEF ShortRead
<1>5. CASE ChunkDone
  BY <1>5 DEF ChunkDone
<1>6. CASE ChunkFailed
  BY <1>6 DEF ChunkFailed
<1>7. CASE NewProcess
  BY <1>7 DEF NewProcess
<1>8. CASE \E c \in pending : DeviceExecute(c) \/ DeviceRefuse(c)
  BY <1>8 DEF DeviceExecute, DeviceRefuse, loopVars
<1>9. CASE DevicePowerFails \/ DeviceLoses
  BY <1>9 DEF DevicePowerFails, DeviceLoses, loopVars
<1>10. CASE UNCHANGED vars
  BY <1>10 DEF vars, loopVars
<1> QED
  BY <1>1, <1>2, <1>3, <1>4, <1>5, <1>6, <1>7, <1>8, <1>9, <1>10 DEF Next, LoopStep

LEMMA CallStep ==
    ASSUME TypeInv, [Next]_vars
    PROVE  CallInv' /\ (busy = (pc = "call"))' /\ (pending \subseteq 1..started)'
<1>1. /\ started \in Nat /\ busy = (pc = "call") /\ trusted \in BOOLEAN
      /\ \A c \in executed : c \in Nat /\ c =< started /\ c > 0
      /\ \A d \in pending : d \in Nat /\ d =< started /\ d > 0
      /\ \A c \in executed : \A d \in pending : c < d
      /\ trusted => \A d \in pending : busy /\ d = started
  BY DEF TypeInv, TypeOK, CallInv
<1>2. SUFFICES /\ started' \in Nat /\ (busy = (pc = "call"))' /\ trusted' \in BOOLEAN
               /\ \A c \in executed' : c \in Nat /\ c =< started' /\ c > 0
               /\ \A d \in pending' : d \in Nat /\ d =< started' /\ d > 0
               /\ \A c \in executed' : \A d \in pending' : c < d
               /\ trusted' => \A d \in pending' : busy' /\ d = started'
  BY DEF CallInv
<1>3. CASE Call!Start /\ pc' = "call"
  <2>1. /\ started' = started + 1 /\ busy' = TRUE /\ ~busy /\ executed' = executed
        /\ trusted' = trusted /\ pending' = pending \cup {started + 1}
    BY <1>3 DEF Call!Start
  <2>2. trusted => pending = {}
    BY <1>1, <2>1
  <2>3. \A d \in pending' : d \in pending \/ d = started + 1
    BY <2>1
  <2>4. \A c \in executed' : \A d \in pending' : c < d
    BY <1>1, <2>1, <2>3
  <2>5. \A d \in pending' : d \in Nat /\ d =< started' /\ d > 0
    BY <1>1, <2>1, <2>3
  <2>6. trusted' => \A d \in pending' : busy' /\ d = started'
    BY <2>1, <2>2, <2>3
  <2>7. (busy = (pc = "call"))'
    BY <1>3, <2>1
  <2>9. started' \in Nat /\ trusted' \in BOOLEAN
    BY <1>1, <2>1
  <2>8. \A c \in executed' : c \in Nat /\ c =< started' /\ c > 0
    BY <1>1, <2>1
  <2> QED
    BY <2>4, <2>5, <2>6, <2>7, <2>8, <2>9
<1>4. CASE (\E c \in pending : Call!Execute(c)) /\ UNCHANGED pc
  BY <1>1, <1>4 DEF Call!Execute
<1>5. CASE Call!Lose /\ UNCHANGED pc
  BY <1>1, <1>5 DEF Call!Lose
<1>6. CASE Call!Succeed /\ pc' # "call"
  <2>1. trusted => pending = {}
    BY <1>1, <1>6 DEF Call!Succeed
  <2> QED
    BY <1>1, <1>6, <2>1 DEF Call!Succeed
<1>7. CASE Call!Fail /\ pc' # "call"
  BY <1>1, <1>7 DEF Call!Fail
<1>8. CASE Call!Restart /\ pc' # "call"
  BY <1>1, <1>8 DEF Call!Restart
<1>9. CASE UNCHANGED callVars /\ ((pc' # "call" /\ pc # "call") \/ UNCHANGED pc)
  BY <1>1, <1>9 DEF callVars
<1> QED
  BY <1>3, <1>4, <1>5, <1>6, <1>7, <1>8, <1>9, CallSteps

\* A chunk of a file: unless it is the last one, fread fills it, with what len counts;
\* and every sector of it has the bytes of the file, its last one what is left, or
\* all of a sector if the file has grown.
LEMMA FileChunk ==
    ASSUME TypeInv, pc = "loop", cnt > 0, op.kind = "write_file",
           NEW m, m = Lesser(cnt, MAXSEC), NEW r \in FileReads(m)
    PROVE  /\ r \in Nat
           /\ cnt > m => r =< len /\ len - r = op.len - (sec + m - op.sec) * BPS
           /\ \A j \in 0..m - 1 :
                Filled(r, j) = IF r > len THEN BPS
                               ELSE Lesser(BPS, op.len - (sec - op.sec + j) * BPS)
<1> DEFINE k == sec - op.sec
<1>1. /\ op \in Operations /\ op.len \in Nat /\ op.sec \in Nat /\ sec \in Nat /\ cnt \in Nat /\ len \in Int
      /\ k \in Nat /\ k + cnt = Goal(op) /\ len = op.len - k * BPS /\ op.len > 0
      /\ m \in Nat /\ m > 0 /\ m =< cnt /\ BPS \in Nat /\ BPS > 0
  <2>1. /\ op \in Operations /\ sec \in Nat /\ cnt \in Nat /\ len \in Int
        /\ op.len \in Nat /\ op.sec \in Nat
    BY OperationType DEF TypeInv, TypeOK
  <2>2. sec >= op.sec /\ sec + cnt = op.sec + Goal(op) /\ op.len > 0
    BY DEF TypeInv, LoopInv, Going
  <2>3. m \in Nat /\ m > 0 /\ m =< cnt
    BY <2>1 DEF Lesser
  <2>4. Goal(op) \in Nat
    BY <2>1, <2>2, FileSectors
  <2>5. k \in Nat /\ k + cnt = Goal(op)
    BY <2>1, <2>2, <2>4
  <2>6. len = op.len - k * BPS
    BY DEF TypeInv, LoopInv
  <2> HIDE DEF k
  <2> QED
    BY <2>1, <2>2, <2>3, <2>5, <2>6
<1>2. /\ Goal(op) =< CountOf(op.len) /\ CountOf(op.len) \in Nat
      /\ \A i \in Nat : i < CountOf(op.len) <=> i * BPS < op.len
  BY <1>1, CountIsWhole, FileSectors
<1>3. (k + m) * BPS = k * BPS + m * BPS /\ k * BPS \in Nat /\ m * BPS \in Nat
  BY <1>1, TimesOver
<1>7. k * BPS < op.len /\ len > 0
  <2>1. k < CountOf(op.len)
    BY <1>1, <1>2
  <2>2. k * BPS < op.len
    BY <1>1, <1>2, <2>1
  <2> HIDE DEF k
  <2> QED
    BY <1>1, <1>3, <2>2
<1>4. r \in {m * BPS, len} /\ r =< m * BPS /\ r \in Nat
  BY <1>1, <1>3, <1>7 DEF FileReads
<1>5. ASSUME cnt > m PROVE r =< len /\ len - r = op.len - (sec + m - op.sec) * BPS
  <2>1. sec + m - op.sec = k + m
    BY <1>1
  <2>2. k + m < CountOf(op.len)
    BY <1>1, <1>2, <1>5
  <2>3. (k + m) * BPS < op.len
    BY <1>1, <1>2, <2>2
  <2>4. r = m * BPS
    BY <1>1, <1>3, <1>4, <2>3
  <2> HIDE DEF k
  <2> QED
    BY <1>1, <1>3, <2>1, <2>3, <2>4
<1>6. ASSUME NEW j \in 0..m - 1
      PROVE  Filled(r, j) = IF r > len THEN BPS
                            ELSE Lesser(BPS, op.len - (sec - op.sec + j) * BPS)
  <2> DEFINE K == k * BPS
             J == j * BPS
             N == m * BPS
  <2>1. (k + j) * BPS = K + J /\ K \in Nat /\ J \in Nat /\ N \in Nat
    BY <1>1, TimesOver
  <2>2. k + j < CountOf(op.len) /\ k + j \in Nat
    BY <1>1, <1>2
  <2>3. K + J < op.len
    BY <1>2, <2>1, <2>2
  <2>4. (j + 1) * BPS =< N /\ (j + 1) * BPS = J + BPS
    BY <1>1, TimesMonotone, TimesOver
  <2>5. len = op.len - K /\ r \in {N, len} /\ r =< N
    BY <1>1, <1>4
  <2>6. Filled(r, j) = IF r =< J THEN 0 ELSE Lesser(BPS, r - J)
    BY DEF Filled
  <2> HIDE DEF K, J, N, k
  <2>7. Filled(r, j) = IF r > len THEN BPS ELSE Lesser(BPS, op.len - (K + J))
    BY <1>1, <1>4, <2>1, <2>3, <2>4, <2>5, <2>6 DEF Lesser
  <2> QED
    BY <2>1, <2>7 DEF k
<1> QED
  BY <1>4, <1>5, <1>6

\* The sectors of a file in front of the loop's position are whole.
LEMMA EarlierSectors ==
    ASSUME TypeInv, pc = "loop", cnt > 0, op.kind = "write_file",
           NEW i \in Nat, i < sec - op.sec
    PROVE  Lesser(BPS, op.len - i * BPS) = BPS
<1> DEFINE k == sec - op.sec
<1>1. /\ op \in Operations /\ op.len \in Nat /\ op.len > 0 /\ BPS \in Nat
      /\ k \in Nat /\ k + cnt = Goal(op) /\ cnt \in Nat /\ i < k
  <2>1. /\ op \in Operations /\ sec \in Nat /\ cnt \in Nat /\ op.len \in Nat /\ op.sec \in Nat
    BY OperationType DEF TypeInv, TypeOK
  <2>2. sec >= op.sec /\ sec + cnt = op.sec + Goal(op) /\ op.len > 0
    BY DEF TypeInv, LoopInv, Going
  <2>3. Goal(op) \in Nat
    BY <2>1, <2>2, FileSectors
  <2> QED
    BY <2>1, <2>2, <2>3
<1> HIDE DEF k
<1>2. k * BPS < op.len
  <2>1. /\ Goal(op) =< CountOf(op.len) /\ CountOf(op.len) \in Nat
        /\ \A x \in Nat : x < CountOf(op.len) <=> x * BPS < op.len
    BY <1>1, CountIsWhole, FileSectors
  <2>2. k < CountOf(op.len)
    BY <1>1, <2>1
  <2> QED
    BY <1>1, <2>1, <2>2
<1>3. (i + 1) * BPS =< k * BPS /\ (i + 1) * BPS = i * BPS + BPS /\ i * BPS \in Nat /\ k * BPS \in Nat
  BY <1>1, TimesMonotone, TimesOver
<1> QED
  BY <1>1, <1>2, <1>3 DEF Lesser

\* What the loop's body prepares is a chunk of the operation.
LEMMA ChunkStarts ==
    ASSUME TypeInv, StartChunk
    PROVE  /\ IsChunk(started)' /\ n' \in 1..MAXSEC /\ n' =< cnt
           /\ len' \in Int /\ grown' \in BOOLEAN
           /\ op.kind = "write_file" /\ cnt > n' =>
                len' = op.len - (sec + n' - op.sec) * BPS /\ ~grown'
           /\ request' \in Seq(Request)
           /\ Len(request') = started' /\ RequestInv'
<1>1. /\ op \in Operations /\ op.len \in Nat /\ op.sec \in Nat /\ sec \in Nat /\ cnt \in Nat /\ len \in Int
      /\ cnt > 0 /\ sec >= op.sec /\ sec + cnt = op.sec + Goal(op)
      /\ op.kind = "write_file" => op.len > 0
      /\ op' = op /\ sec' = sec /\ pc = "loop"
      /\ started' = started + 1 /\ started \in Nat /\ Len(request) = started
      /\ request \in Seq(Request)
  BY OperationType DEF TypeInv, TypeOK, LoopInv, CallInv, Going, StartChunk, Call!Start
<1>2. n' = Lesser(cnt, MAXSEC) /\ n' \in 1..MAXSEC /\ n' =< cnt
  BY <1>1 DEF StartChunk, Lesser
<1>3. PICK r \in FileReads(n') :
        /\ len' = len - r /\ grown' = (r > len)
        /\ request' = Append(request, [changes |-> Changes(op), sec |-> sec, n |-> n',
                                       data |-> Buffer(n', r)])
  BY DEF StartChunk
<1>4. /\ r \in Nat /\ len' \in Int /\ grown' \in BOOLEAN
      /\ op.kind = "write_file" /\ cnt > n' =>
            len' = op.len - (sec + n' - op.sec) * BPS /\ ~grown'
  <2>1. CASE op.kind = "write_file"
    <3>1. /\ r \in Nat
          /\ cnt > n' => r =< len /\ len - r = op.len - (sec + n' - op.sec) * BPS
      BY <1>1, <1>2, <1>3, <2>1, FileChunk
    <3>2. len' = len - r /\ grown' = (r > len)
      BY <1>3
    <3>3. grown' \in BOOLEAN
      BY <3>2
    <3>4. cnt > n' => ~grown'
      <4>1. cnt > n' => ~(r > len)
        BY <1>1, <3>1
      <4> QED
        BY <3>2, <4>1, Zenon
    <3> QED
      BY <1>1, <3>1, <3>2, <3>3, <3>4
  <2>2. CASE op.kind # "write_file"
    BY <1>1, <1>3, <2>2 DEF FileReads
  <2> QED
    BY <2>1, <2>2
<1>5. Buffer(n', r) \in Seq(Value)
  BY <1>1, <1>2, <1>4, BufferType DEF TypeInv
<1> DEFINE q == [changes |-> Changes(op), sec |-> sec, n |-> n', data |-> Buffer(n', r)]
<1>6. q \in Request
  BY <1>1, <1>2, <1>5 DEF Changes, Request
<1>7. /\ request' \in Seq(Request)
      /\ Len(request') = started' /\ request'[started'] = q
      /\ \A c \in DOMAIN request' : c # started' => c \in DOMAIN request /\ request'[c] = request[c]
  <2> HIDE DEF q
  <2>1. request' = Append(request, q)
    BY <1>3 DEF q
  <2> QED
    BY <1>1, <1>6, <2>1
<1>10. RequestInv'
  <2>1. DOMAIN q.data = 1..q.n
    BY <1>1, <1>2, <1>4, BufferType DEF TypeInv
  <2> HIDE DEF q
  <2> QED
    BY <1>7, <2>1 DEF TypeInv, RequestInv
<1>8. ASSUME NEW s \in sec..sec + n' - 1
      PROVE  /\ Changes(op) => Buffer(n', r)[s - sec + 1] = Content(op, s - op.sec)'
             /\ s \in Sectors => s \in Wanted(op)
  <2> DEFINE j == s - sec
  <2>1. s \in Nat /\ j \in 0..n' - 1 /\ j + 1 \in 1..n' /\ s >= op.sec /\ s < op.sec + Goal(op)
        /\ sec - op.sec + j = s - op.sec
    BY <1>1, <1>2
  <2>2. s \in Sectors => s \in Wanted(op)
    BY <1>1, <2>1, GoalIsWanted
  <2>3. ASSUME Changes(op) PROVE Buffer(n', r)[j + 1] = Content(op, s - op.sec)'
    <3>1. CASE op.kind \in {"erase", "erase_ff"}
      BY <1>1, <2>1, <3>1 DEF Buffer, Content
    <3>2. CASE op.kind = "write_file"
      <4>1. Filled(r, j) = IF r > len THEN BPS ELSE Lesser(BPS, op.len - (s - op.sec) * BPS)
        <5>1. Filled(r, j) = IF r > len THEN BPS
                             ELSE Lesser(BPS, op.len - (sec - op.sec + j) * BPS)
          BY <1>1, <1>2, <2>1, <3>2, FileChunk
        <5> QED
          BY <2>1, <5>1
      <4>2. sec - op.sec + (j + 1) - 1 = s - op.sec /\ (j + 1) - 1 = j
        BY <1>1, <2>1
      <4>3. Buffer(n', r)[j + 1] = Data(s - op.sec, Filled(r, j))
        BY <2>1, <3>2, <4>2 DEF Buffer
      <4> QED
        BY <1>1, <1>3, <3>2, <4>1, <4>3 DEF Content
    <3>3. CASE op.kind = "write"
      <4>1. sec - op.sec + (j + 1) - 1 = s - op.sec
        BY <1>1, <2>1
      <4> QED
        BY <1>1, <2>1, <3>3, <4>1 DEF Buffer, Content
    <3> QED
      BY <1>1, <2>3, <3>1, <3>2, <3>3, OperationType DEF Changes, Kinds
  <2> QED
    BY <2>2, <2>3
<1>9. IsChunk(started)'
  BY <1>1, <1>2, <1>7, <1>8 DEF IsChunk, Changes, Wanted
<1> QED
  BY <1>2, <1>4, <1>7, <1>9, <1>10

LEMMA TypeInit == Init => TypeInv
<1> SUFFICES ASSUME Init PROVE TypeInv
  OBVIOUS
<1>1. \A t \in Sectors : Old(t) \in Value
  BY DEF Sectors, Value, Old
<1>2. << >> \in Seq(Value) /\ << >> \in Seq(Request)
      /\ Len(<< >>) = 0
  OBVIOUS
<1>3. TypeOK
  <2>1. flash \in [Sectors -> Value] /\ base \in [Sectors -> Value]
    BY <1>1 DEF Init
  <2>2. got \in Seq(Value) /\ answer \in Seq(Value) /\ request \in Seq(Request) /\ Len(request) = started
    BY <1>2 DEF Init, Call!Init
  <2>3. busy = (pc = "call")
    BY DEF Init, Call!Init
  <2>4. 0 \in 0..MAXSEC /\ n = 0
    BY DEF Init
  <2>5. clean \in BOOLEAN /\ refused \in BOOLEAN /\ grown \in BOOLEAN
    BY DEF Init
  <2> QED
    BY <2>1, <2>2, <2>3, <2>4, <2>5 DEF Init, Call!Init, TypeOK
<1>4. CallInv
  BY DEF Init, Call!Init, CallInv
<1>5. LoopInv
  BY DEF Init, LoopInv, Going
<1>6. RequestInv
  BY DEF Init, RequestInv
<1> QED
  BY <1>3, <1>4, <1>5, <1>6 DEF TypeInv

\* What is written to the device are values.
LEMMA WrittenType ==
    ASSUME TypeInv, NEW c \in DOMAIN request, NEW m \in 0..request[c].n
    PROVE  Written(request[c], m) \in [Sectors -> Value]
<1>1. request[c].sec \in Nat /\ request[c].data \in Seq(Value) /\ request[c].n \in Nat
      /\ DOMAIN request[c].data = 1..request[c].n
  <2>1. request[c] \in Request
    BY ElementType DEF TypeInv, TypeOK
  <2> QED
    BY <2>1 DEF Request, TypeInv, RequestInv
<1>2. ASSUME NEW t \in Sectors, t \in request[c].sec .. request[c].sec + m - 1
      PROVE  request[c].data[t - request[c].sec + 1] \in Value
  <2>1. t - request[c].sec + 1 \in 1..request[c].n
    BY <1>1, <1>2
  <2> QED
    BY <1>1, <2>1, ElementType
<1> QED
  BY <1>2 DEF Written, TypeInv, TypeOK

LEMMA TypeStep == TypeInv /\ [Next]_vars => TypeInv'
<1> SUFFICES ASSUME TypeInv, [Next]_vars PROVE TypeInv'
  OBVIOUS
<1>1. CallInv' /\ (busy = (pc = "call"))' /\ (pending \subseteq 1..started)'
  BY CallStep
<1>2. /\ op \in Operations /\ op.sec \in Nat /\ op.len \in Nat /\ sec \in Nat /\ cnt \in Nat
      /\ len \in Int /\ n \in 0..MAXSEC /\ started \in Nat
  BY OperationType DEF TypeInv, TypeOK, CallInv
<1>3. ASSUME NEW o \in Operations, Begin(o) PROVE TypeInv'
  <2>1. Goal(o) \in Nat /\ o.sec \in Nat /\ o.len \in Nat
    <3>1. o.kind # "write_file" => Goal(o) \in Nat
      BY GoalIsWanted
    <3>2. o.kind = "write_file" => Goal(o) \in Nat
      BY OperationType DEF Goal, ClipFile, Lesser
    <3> QED
      BY <3>1, <3>2, OperationType
  <2>2. TypeOK'
    <3>1. /\ op' = o /\ sec' = o.sec /\ cnt' = Goal(o) /\ len' = o.len /\ got' = << >> /\ base' = flash
          /\ clean' = trusted /\ refused' = FALSE /\ grown' = FALSE
          /\ pc' \in {"idle", "loop"} /\ ret' \in {"none", "false"}
          /\ UNCHANGED <<n, request, flash, answer, started>>
      BY <1>3 DEF Begin, Return, callVars, flashVars
    <3>2. got' \in Seq(Value)
      BY <3>1
    <3>3. clean' \in BOOLEAN /\ refused' \in BOOLEAN /\ grown' \in BOOLEAN
      BY <3>1 DEF TypeInv, CallInv
    <3> QED
      BY <1>1, <1>2, <2>1, <3>1, <3>2, <3>3 DEF TypeInv, TypeOK, CallInv
  <2>3. LoopInv'
    BY <1>2, <1>3, <2>1 DEF Begin, Return, LoopInv, Going
  <2>4. RequestInv'
    BY <1>3 DEF Begin, TypeInv, RequestInv
  <2> QED
    BY <1>1, <2>2, <2>3, <2>4 DEF TypeInv
<1>4. CASE Finish
  BY <1>1, <1>2, <1>4 DEF Finish, Return, TypeInv, TypeOK, LoopInv, Going, RequestInv, CallInv, callVars, flashVars, history
<1>5. CASE StartChunk
  <2>1. /\ IsChunk(started)' /\ n' \in 1..MAXSEC /\ n' =< cnt
        /\ len' \in Int /\ grown' \in BOOLEAN
        /\ op.kind = "write_file" /\ cnt > n' =>
            len' = op.len - (sec + n' - op.sec) * BPS /\ ~grown'
        /\ request' \in Seq(Request) /\ Len(request') = started' /\ RequestInv'
    BY <1>5, ChunkStarts
  <2>2. TypeOK'
    BY <1>1, <1>2, <1>5, <2>1 DEF StartChunk, TypeInv, TypeOK, flashVars, history
  <2>3. LoopInv'
    BY <1>2, <1>5, <2>1 DEF StartChunk, TypeInv, LoopInv, Going, Call!Start
  <2> QED
    BY <1>1, <2>1, <2>2, <2>3 DEF TypeInv
<1>6. CASE ShortRead
  BY <1>1, <1>2, <1>6 DEF ShortRead, Return, TypeInv, TypeOK, LoopInv, Going, RequestInv, CallInv, callVars, flashVars, history
<1>7. CASE ChunkDone
  <2>1. n \in 1..MAXSEC /\ n =< cnt /\ sec' = sec + n /\ cnt' = cnt - n /\ pc = "call"
        /\ UNCHANGED <<op, len, n, request, flash, answer, base, clean, refused, grown, started>>
    BY <1>7 DEF ChunkDone, TypeInv, LoopInv, flashVars, history, Call!Succeed
  <2>2. pc' \in {"idle", "loop"} /\ ret' \in {"none", "true", "false"} /\ (pc' = "idle" => ret' = "false")
        /\ (pc' # "idle" => ret' = ret)
    BY <1>7 DEF ChunkDone, Return, TypeInv, TypeOK
  <2>3. got' \in Seq(Value)
    <3>1. [j \in 1..n |-> Blank] \in Seq(Value)
      BY <2>1, ContentType
    <3>2. got \in Seq(Value) /\ answer \in Seq(Value)
      BY DEF TypeInv, TypeOK
    <3>3. CASE got' = got
      BY <3>2, <3>3
    <3>4. ASSUME NEW data \in {answer, [j \in 1..n |-> Blank]}, got' = got \o data
          PROVE  got' \in Seq(Value)
      <4>1. data \in Seq(Value)
        BY <3>1, <3>2
      <4> QED
        BY <3>2, <3>4, <4>1
    <3> QED
      BY <1>7, <3>3, <3>4 DEF ChunkDone
  <2>4. TypeOK'
    BY <1>1, <1>2, <2>1, <2>2, <2>3 DEF TypeInv, TypeOK
  <2>5. LoopInv'
    BY <1>2, <2>1, <2>2 DEF TypeInv, TypeOK, LoopInv, Going
  <2> QED
    BY <1>1, <2>1, <2>4, <2>5 DEF TypeInv, RequestInv
<1>8. CASE ChunkFailed
  BY <1>1, <1>2, <1>8 DEF ChunkFailed, Return, Call!Fail, TypeInv, TypeOK, LoopInv, Going, RequestInv, flashVars, history
<1>9. CASE NewProcess
  BY <1>1, <1>2, <1>9 DEF NewProcess, Call!Restart, TypeInv, TypeOK, LoopInv, Going, RequestInv, flashVars, history
<1>10. ASSUME NEW c \in pending, DeviceExecute(c) PROVE TypeInv'
  <2>1. c \in DOMAIN request /\ request[c] \in Request /\ request[c].n \in Nat
    <3>1. c \in DOMAIN request
      BY <1>2 DEF TypeInv, TypeOK
    <3>2. request[c] \in Request
      BY <3>1, ElementType DEF TypeInv, TypeOK
    <3> QED
      BY <3>1, <3>2 DEF Request
  <2>2. flash' \in [Sectors -> Value] /\ answer' \in Seq(Value)
    <3>1. CASE request[c].changes
      <4>1. request[c].n \in 0..request[c].n
        BY <2>1
      <4>2. Written(request[c], request[c].n) \in [Sectors -> Value]
        BY <2>1, <4>1, WrittenType
      <4> QED
        BY <1>10, <3>1, <4>2 DEF DeviceExecute
    <3>2. CASE ~request[c].changes
      <4>1. request[c].sec \in Nat /\ request[c].n \in Nat /\ request[c].sec + request[c].n =< Total
        BY <1>10, <2>1 DEF DeviceExecute, Request
      <4>2. \A j \in 1..request[c].n : request[c].sec + j - 1 \in Sectors
        BY <4>1 DEF Sectors
      <4>3. flash' = flash /\ answer' = [j \in 1..request[c].n |-> flash[request[c].sec + j - 1]]
        BY <1>10, <3>2 DEF DeviceExecute
      <4>4. flash \in [Sectors -> Value]
        BY DEF TypeInv, TypeOK
      <4> QED
        BY <2>1, <4>2, <4>3, <4>4
    <3> QED
      BY <3>1, <3>2
  <2>3. UNCHANGED <<pc, op, sec, cnt, len, n, ret, got, request, base, clean, refused, grown, started, busy>>
    BY <1>10 DEF DeviceExecute, Call!Execute, loopVars, history
  <2>4. TypeOK'
    BY <1>1, <2>2, <2>3 DEF TypeInv, TypeOK
  <2> QED
    BY <1>1, <2>3, <2>4 DEF TypeInv, LoopInv, Going, RequestInv
<1>11. ASSUME NEW c \in pending, DeviceRefuse(c) PROVE TypeInv'
  <2>1. c \in DOMAIN request /\ request[c] \in Request /\ request[c].n \in Nat
    <3>1. c \in DOMAIN request
      BY <1>2 DEF TypeInv, TypeOK
    <3>2. request[c] \in Request
      BY <3>1, ElementType DEF TypeInv, TypeOK
    <3> QED
      BY <3>1, <3>2 DEF Request
  <2>2. answer' \in Seq(Value)
    BY <1>11, <2>1, ContentType DEF DeviceRefuse
  <2>3. UNCHANGED <<pc, op, sec, cnt, len, n, ret, got, request, flash, base, clean, grown, started, busy>> /\ refused' = TRUE
    BY <1>11 DEF DeviceRefuse, Call!Execute, loopVars
  <2>4. TypeOK'
    BY <1>1, <2>2, <2>3 DEF TypeInv, TypeOK
  <2> QED
    BY <1>1, <2>3, <2>4 DEF TypeInv, LoopInv, Going, RequestInv
<1>12. CASE DevicePowerFails
  <2>1. flash' \in [Sectors -> Value]
    <3>1. ASSUME NEW c \in pending, NEW m \in 0..request[c].n, flash' = Written(request[c], m)
          PROVE  flash' \in [Sectors -> Value]
      <4>1. c \in DOMAIN request
        BY <1>2 DEF TypeInv, TypeOK
      <4> QED
        BY <3>1, <4>1, WrittenType
    <3> QED
      BY <1>12, <3>1 DEF DevicePowerFails, TypeInv, TypeOK
  <2>2. UNCHANGED <<pc, op, sec, cnt, len, n, ret, got, request, answer, base, clean, refused, grown, started, busy>>
    BY <1>12 DEF DevicePowerFails, Call!Lose, loopVars, history
  <2>3. TypeOK'
    BY <1>1, <2>1, <2>2 DEF TypeInv, TypeOK
  <2> QED
    BY <1>1, <2>2, <2>3 DEF TypeInv, LoopInv, Going, RequestInv
<1>13. CASE DeviceLoses
  <2>1. UNCHANGED <<pc, op, sec, cnt, len, n, ret, got, request, flash, answer, base, clean, refused, grown, started, busy>>
    BY <1>13 DEF DeviceLoses, Call!Lose, loopVars, flashVars, history
  <2>2. TypeOK'
    BY <1>1, <2>1 DEF TypeInv, TypeOK
  <2> QED
    BY <1>1, <2>1, <2>2 DEF TypeInv, LoopInv, Going, RequestInv
<1>14. CASE UNCHANGED vars
  <2>1. UNCHANGED <<pc, op, sec, cnt, len, n, ret, got, request, flash, answer, base, clean, refused, grown, started, busy>>
    BY <1>14 DEF vars, callVars, loopVars, flashVars, history
  <2>2. TypeOK'
    BY <1>1, <2>1 DEF TypeInv, TypeOK
  <2> QED
    BY <1>1, <2>1, <2>2 DEF TypeInv, LoopInv, Going, RequestInv
<1> QED
  BY <1>3, <1>4, <1>5, <1>6, <1>7, <1>8, <1>9, <1>10, <1>11, <1>12, <1>13, <1>14 DEF Next, LoopStep

\* The loops keep their types (flash_erase_lba ... flash_write_lba_from_file).
THEOREM TypeCorrect == Spec => []TypeOK
<1>1. TypeInv => TypeOK
  BY DEF TypeInv
<1> QED
  BY <1>1, TypeInit, TypeStep, PTL DEF Spec

-----------------------------------------------------------------------------
\* The device holds a prefix.

LEMMA ChunkStep ==
    ASSUME TypeInv, TypeInv', ChunkInv, [Next]_vars
    PROVE  ChunkInv'
<1> USE DEF ChunkInv
<1>1. /\ trusted => pending \subseteq (IF pc = "call" THEN {started} ELSE {})
      /\ trusted' => pending' \subseteq (IF pc' = "call" THEN {started'} ELSE {})
      /\ started \in Nat
  BY DEF TypeInv, TypeOK, CallInv
<1>2. ASSUME NEW o \in Operations, Begin(o) PROVE ChunkInv'
  BY <1>1, <1>2 DEF Begin, Return, callVars
<1>3. CASE StartChunk
  <2>1. IsChunk(started)'
    BY <1>3, ChunkStarts
  <2> QED
    BY <1>1, <1>3, <2>1 DEF StartChunk, Call!Start, history
<1>4. CASE ChunkDone
  BY <1>1, <1>4 DEF ChunkDone, Call!Succeed, Return, history
<1>5. ASSUME UNCHANGED <<op, sec, n, request, started, clean, grown>>, pending' \subseteq pending,
             pc' = "call" => pc = "call", clean /\ pc' # "idle" => pc # "idle" /\ trusted' = trusted
      PROVE  ChunkInv'
  <2>1. \A c : IsChunk(c)' <=> IsChunk(c)
    BY <1>5 DEF IsChunk, Changes, Content, Wanted
  <2> QED
    BY <1>5, <2>1
<1>6. CASE Finish
  BY <1>5, <1>6 DEF Finish, Return, callVars, history
<1>7. CASE ShortRead
  BY <1>5, <1>7 DEF ShortRead, Return, callVars, history
<1>8. CASE ChunkFailed
  BY <1>5, <1>8 DEF ChunkFailed, Call!Fail, Return, history
<1>9. CASE NewProcess
  BY <1>5, <1>9 DEF NewProcess, Call!Restart, history
<1>10. CASE \E c \in pending : DeviceExecute(c) \/ DeviceRefuse(c)
  BY <1>5, <1>10 DEF DeviceExecute, DeviceRefuse, Call!Execute, loopVars, history
<1>11. CASE DevicePowerFails \/ DeviceLoses
  BY <1>5, <1>11 DEF DevicePowerFails, DeviceLoses, Call!Lose, loopVars, history
<1>12. CASE UNCHANGED vars
  BY <1>5, <1>12 DEF vars, callVars, loopVars, history
<1> QED
  BY <1>2, <1>3, <1>4, <1>6, <1>7, <1>8, <1>9, <1>10, <1>11, <1>12 DEF Next, LoopStep

\* A read leaves the device as it is.
LEMMA ReadChangesNothing ==
    ASSUME TypeOK, ~Changes(op), NEW end
    PROVE  DoneUpTo(end) = base
BY DEF DoneUpTo, TypeOK

\* The first m sectors of a chunk go on where the sectors below it end.
LEMMA ChunkGoesOn ==
    ASSUME TypeOK, NEW c \in DOMAIN request, IsChunk(c), Changes(op), flash = DoneUpTo(sec),
           NEW m \in 0..n
    PROVE  Written(request[c], m) = DoneUpTo(sec + m)
<1>1. sec \in Nat /\ request[c].sec = sec /\ n \in Nat /\ m \in Nat
  BY DEF TypeOK, IsChunk
<1>2. ASSUME NEW s \in Sectors
      PROVE  (IF s \in sec .. sec + m - 1 THEN request[c].data[s - sec + 1] ELSE flash[s])
             = (IF s \in Wanted(op) /\ s < sec + m THEN Content(op, s - op.sec) ELSE base[s])
  <2>1. s \in Nat
    BY DEF Sectors
  <2>2. CASE s < sec
    <3>1. flash[s] = IF s \in Wanted(op) THEN Content(op, s - op.sec) ELSE base[s]
      BY <2>2 DEF DoneUpTo
    <3> QED
      BY <1>1, <2>1, <2>2, <3>1
  <2>3. CASE s \in sec .. sec + m - 1
    <3>1. s \in sec .. sec + n - 1 /\ s < sec + m
      BY <1>1, <2>3
    <3>2. s \in Wanted(op) /\ request[c].data[s - sec + 1] = Content(op, s - op.sec)
      BY <3>1 DEF IsChunk
    <3> QED
      BY <2>3, <3>1, <3>2
  <2>4. CASE s >= sec + m
    <3>1. ~(s < sec) /\ ~(s < sec + m) /\ s \notin sec .. sec + m - 1
      BY <1>1, <2>1, <2>4
    <3>2. flash[s] = base[s]
      BY <3>1 DEF DoneUpTo
    <3> QED
      BY <3>1, <3>2
  <2> QED
    BY <1>1, <2>1, <2>2, <2>3, <2>4
<1> QED
  BY <1>1, <1>2 DEF Written, DoneUpTo

LEMMA DeviceStep ==
    ASSUME TypeInv, TypeInv', ChunkInv, ChunkInv', DeviceInv, [Next]_vars
    PROVE  DeviceInv'
<1> SUFFICES ASSUME Obeys'
             PROVE  /\ \E end \in 0..Total : flash' = DoneUpTo(end)'
                    /\ pending' # {} => flash' = DoneUpTo(sec)'
                    /\ pc' = "loop" \/ (pc' = "idle" /\ ret' = "true") =>
                        flash' = DoneUpTo(sec)' /\ sec' =< Total /\ pending' = {}
                    /\ pc' = "call" /\ started' \in executed' =>
                        flash' = DoneUpTo(sec + n)' /\ sec' + n' =< Total
  BY DEF DeviceInv
<1>1. /\ trusted => pending \subseteq (IF pc = "call" THEN {started} ELSE {})
      /\ trusted' => pending' \subseteq (IF pc' = "call" THEN {started'} ELSE {})
      /\ started \in Nat /\ executed \subseteq 1..started
      /\ \A c \in executed : \A d \in pending : c < d
      /\ sec \in Nat /\ n \in Nat /\ pending \subseteq 1..started /\ DOMAIN request = 1..started
      /\ busy = (pc = "call") /\ \A c \in executed : c \in Nat
  <2>1. DOMAIN request = 1..started /\ busy = (pc = "call") /\ busy' = (pc' = "call")
        /\ sec \in Nat /\ n \in Nat /\ pending \subseteq 1..started
    BY DEF TypeInv, TypeOK
  <2>2. /\ trusted => pending \subseteq (IF busy THEN {started} ELSE {})
        /\ trusted' => pending' \subseteq (IF busy' THEN {started'} ELSE {})
        /\ started \in Nat /\ executed \subseteq 1..started
        /\ \A c \in executed : \A d \in pending : c < d
    BY DEF TypeInv, CallInv
  <2>3. \A c \in executed : c \in Nat
    BY <2>2
  <2>4. /\ trusted => pending \subseteq (IF pc = "call" THEN {started} ELSE {})
        /\ trusted' => pending' \subseteq (IF pc' = "call" THEN {started'} ELSE {})
    BY <2>1, <2>2
  <2> QED
    BY <2>1, <2>2, <2>3, <2>4
<1>2. /\ clean /\ pc # "idle" => trusted
      /\ clean /\ pending # {} => pending = {started} /\ IsChunk(started)
      /\ clean' /\ pc' # "idle" => trusted'
  BY DEF ChunkInv
<1>3. ASSUME UNCHANGED <<op, base, grown>>
      PROVE  \A end : DoneUpTo(end)' = DoneUpTo(end)
  BY <1>3 DEF DoneUpTo, Changes, Content, Wanted
<1>4. ASSUME NEW o \in Operations, Begin(o) PROVE DeviceInv'
  <2>1. pending' = {} /\ flash' = base' /\ sec' = o.sec /\ op' = o /\ pc' # "call"
        /\ ~(pc' = "idle" /\ ret' = "true")
    BY <1>1, <1>4 DEF Begin, Return, callVars, flashVars, Obeys
  <2>2. o.sec \in Nat /\ o.sec =< Total
    BY OperationType
  <2>3. DoneUpTo(o.sec)' = base'
    <3>1. \A s \in Wanted(o) : s >= o.sec /\ s \in Nat
      BY DEF Wanted, Sectors
    <3>2. \A s \in Wanted(o) : ~(s < o.sec)
      BY <2>2, <3>1
    <3>3. base' \in [Sectors -> Value]
      BY DEF TypeInv, TypeOK
    <3> QED
      BY <2>1, <3>2, <3>3 DEF DoneUpTo
  <2>4. DoneUpTo(sec)' = base'
    BY <2>1, <2>3 DEF DoneUpTo
  <2>5. \E end \in 0..Total : flash' = DoneUpTo(end)'
    BY <2>1, <2>2, <2>3
  <2> QED
    BY <2>1, <2>2, <2>4, <2>5 DEF DeviceInv
<1>5. CASE Finish
  BY <1>1, <1>2, <1>3, <1>5 DEF Finish, Return, DeviceInv, Obeys, callVars, flashVars, history
<1>6. CASE StartChunk
  <2>1. /\ Obeys /\ UNCHANGED <<op, base, sec, flash, executed>> /\ pc = "loop" /\ pc' = "call"
        /\ started' = started + 1
    BY <1>6 DEF StartChunk, Call!Start, Obeys, flashVars, history
  <2>2. started' \notin executed'
    BY <1>1, <2>1
  <2>3. flash = DoneUpTo(sec) /\ sec =< Total
    BY <2>1 DEF DeviceInv
  <2>4. ASSUME NEW s \in Wanted(op), s < sec
        PROVE  Content(op, s - op.sec)' = Content(op, s - op.sec)
    <3>1. s - op.sec \in Nat /\ s - op.sec < sec - op.sec
      <4>1. s \in Nat /\ s >= op.sec
        BY DEF Wanted, Sectors
      <4>2. op.sec \in Nat
        BY OperationType DEF TypeInv, TypeOK
      <4> QED
        BY <1>1, <2>4, <4>1, <4>2
    <3>2. CASE op.kind = "write_file"
      <4>1. Lesser(BPS, op.len - (s - op.sec) * BPS) = BPS
        BY <1>6, <3>1, <3>2, EarlierSectors DEF StartChunk
      <4> QED
        BY <2>1, <3>2, <4>1 DEF Content
    <3>3. CASE op.kind # "write_file"
      BY <2>1, <3>3 DEF Content
    <3> QED
      BY <3>2, <3>3
  <2>5. Changes(op)' = Changes(op) /\ Wanted(op)' = Wanted(op)
    BY <2>1 DEF Changes, Wanted
  <2>6. DoneUpTo(sec)' = DoneUpTo(sec)
    BY <2>1, <2>4, <2>5 DEF DoneUpTo
  <2>7. \E end \in 0..Total : flash' = DoneUpTo(end)'
    BY <1>1, <2>1, <2>3, <2>6 DEF DoneUpTo
  <2> QED
    BY <2>1, <2>2, <2>3, <2>6, <2>7
<1>7. CASE ShortRead
  BY <1>1, <1>2, <1>3, <1>7 DEF ShortRead, Return, DeviceInv, Obeys, callVars, flashVars, history
<1>8. CASE ChunkDone
  <2>1. /\ Obeys /\ UNCHANGED <<op, base, grown, flash, executed, started, trusted, n, pending>> /\ pc = "call"
        /\ pc' # "call" /\ sec' = sec + n /\ (trusted => started \in executed)
    BY <1>8 DEF ChunkDone, Call!Succeed, Obeys, Return, flashVars, history
  <2>2. trusted /\ started \in executed
    BY <1>2, <2>1 DEF Obeys
  <2>3. flash = DoneUpTo(sec + n) /\ sec + n =< Total
    BY <2>1, <2>2 DEF DeviceInv
  <2>4. DoneUpTo(sec)' = DoneUpTo(sec + n)
    BY <2>1 DEF DoneUpTo, Changes, Content, Wanted
  <2>5. pending' = {}
    BY <1>1, <2>1, <2>2
  <2>6. \E end \in 0..Total : flash' = DoneUpTo(end)'
    BY <1>3, <2>1 DEF DeviceInv
  <2> QED
    BY <1>1, <2>1, <2>3, <2>4, <2>5, <2>6 DEF DeviceInv
<1>9. CASE ChunkFailed
  <2>1. /\ Obeys /\ UNCHANGED <<op, base, grown, flash, sec>> /\ pending' \subseteq pending
        /\ pc' = "idle" /\ ret' = "false"
    BY <1>9 DEF ChunkFailed, Call!Fail, Return, Obeys, flashVars, history
  <2> QED
    BY <1>3, <2>1 DEF DeviceInv
<1>10. CASE NewProcess
  <2>1. /\ Obeys /\ UNCHANGED <<op, base, grown, flash, sec>> /\ pending' \subseteq pending
        /\ pc' = "idle" /\ ret' = "none"
    BY <1>10 DEF NewProcess, Call!Restart, Obeys, flashVars, history
  <2> QED
    BY <1>3, <2>1 DEF DeviceInv
<1>11. ASSUME NEW c \in pending, DeviceExecute(c) PROVE DeviceInv'
  <2>1. /\ Obeys /\ UNCHANGED <<op, base, grown, sec, n, pc, ret, started>> /\ pending' = {t \in pending : t > c}
    BY <1>11 DEF DeviceExecute, Call!Execute, Obeys, loopVars, history
  <2>2. pending = {started} /\ c = started /\ IsChunk(started) /\ c \in DOMAIN request
    BY <1>1, <1>2, <2>1 DEF Obeys
  <2>3. pending' = {} /\ flash = DoneUpTo(sec) /\ request[c].changes = Changes(op)
        /\ sec + n =< Total /\ request[c].n = n
    <3>1. request[c].sec = sec /\ request[c].n = n /\ request[c].changes = Changes(op)
      BY <2>2 DEF IsChunk
    <3>2. sec + n =< Total
      BY <1>11, <3>1 DEF DeviceExecute
    <3> QED
      BY <1>1, <2>1, <2>2, <3>1, <3>2 DEF DeviceInv
  <2>4. flash' = DoneUpTo(sec + n)
    <3>1. CASE Changes(op)
      <4>1. Written(request[c], n) = DoneUpTo(sec + n)
        BY <1>1, <2>2, <2>3, <3>1, ChunkGoesOn DEF TypeInv
      <4> QED
        BY <1>11, <2>3, <3>1, <4>1 DEF DeviceExecute
    <3>2. CASE ~Changes(op)
      BY <1>11, <2>3, <3>2, ReadChangesNothing DEF DeviceExecute, TypeInv
    <3> QED
      BY <3>1, <3>2
  <2>5. ~(pc = "loop" \/ (pc = "idle" /\ ret = "true"))
    BY <2>1, <2>2 DEF DeviceInv
  <2>6. DoneUpTo(sec + n)' = DoneUpTo(sec + n)
    BY <1>3, <2>1 DEF DoneUpTo
  <2>7. \E end \in 0..Total : flash' = DoneUpTo(end)'
    <3>1. sec + n \in 0..Total
      BY <1>1, <2>3
    <3> QED
      BY <1>3, <2>1, <2>4, <3>1
  <2> QED
    BY <2>1, <2>3, <2>4, <2>5, <2>6, <2>7 DEF DeviceInv
<1>12. ASSUME NEW c \in pending, DeviceRefuse(c) PROVE DeviceInv'
  BY <1>12 DEF DeviceRefuse, Obeys
<1>13. CASE DevicePowerFails
  <2>1. Obeys /\ UNCHANGED <<op, base, grown, sec, n, pc, ret, started, executed>> /\ pending' = {}
    BY <1>13 DEF DevicePowerFails, Call!Lose, Obeys, loopVars, history
  <2>2. CASE flash' = flash
    BY <1>3, <2>1, <2>2 DEF DeviceInv, DoneUpTo
  <2>3. ASSUME NEW c \in pending, NEW m \in 0..request[c].n, request[c].changes,
               request[c].sec + request[c].n =< Total, flash' = Written(request[c], m)
        PROVE  DeviceInv'
    <3>1. pending = {started} /\ c = started /\ IsChunk(started) /\ c \in DOMAIN request
      BY <1>1, <1>2, <2>1, <2>3 DEF Obeys
    <3>2. flash = DoneUpTo(sec) /\ Changes(op) /\ sec + n =< Total /\ m \in 0..n
      BY <2>1, <2>3, <3>1 DEF IsChunk, DeviceInv
    <3>3. flash' = DoneUpTo(sec + m)
      BY <2>3, <3>1, <3>2, ChunkGoesOn DEF TypeInv
    <3>4. sec + m \in 0..Total
      BY <1>1, <3>2
    <3>5. started \notin executed
      BY <1>1, <3>1
    <3>6. ~(pc = "loop" \/ (pc = "idle" /\ ret = "true"))
      BY <2>1, <3>1 DEF DeviceInv
    <3>7. \E end \in 0..Total : flash' = DoneUpTo(end)'
      BY <1>3, <2>1, <3>3, <3>4
    <3> QED
      BY <2>1, <3>5, <3>6, <3>7 DEF DeviceInv
  <2> QED
    BY <1>13, <2>2, <2>3 DEF DevicePowerFails, DeviceInv
<1>14. CASE DeviceLoses \/ UNCHANGED vars
  <2>1. /\ Obeys /\ UNCHANGED <<op, base, grown, flash, sec, n, pc, ret, started, executed>>
        /\ pending' \subseteq pending
    <3>1. CASE DeviceLoses
      BY <3>1 DEF DeviceLoses, Call!Lose, Obeys, loopVars, flashVars, history
    <3>2. CASE UNCHANGED vars
      BY <3>2 DEF Obeys, vars, callVars, loopVars, flashVars, history
    <3> QED
      BY <1>14, <3>1, <3>2
  <2>2. DoneUpTo(sec + n)' = DoneUpTo(sec + n)
    BY <1>3, <2>1 DEF DoneUpTo
  <2> QED
    BY <1>3, <2>1, <2>2 DEF DeviceInv
<1> QED
  BY <1>4, <1>5, <1>6, <1>7, <1>8, <1>9, <1>10, <1>11, <1>12, <1>13, <1>14 DEF Next, LoopStep, DeviceInv

LEMMA ReadStep ==
    ASSUME TypeInv, TypeInv', ChunkInv, DeviceInv, ReadInv, [Next]_vars
    PROVE  ReadInv'
<1> SUFFICES ASSUME Obeys', ~Changes(op')
             PROVE  /\ Going' => Len(got') = sec' - op'.sec /\ \A j \in DOMAIN got' : got'[j] = base'[op'.sec + j - 1]
                    /\ pc' = "call" /\ started' \in executed' =>
                        answer' = [j \in 1..n' |-> base'[sec' + j - 1]]
  BY DEF ReadInv, Changes
<1>1. /\ started \in Nat /\ executed \subseteq 1..started /\ got \in Seq(Value)
      /\ sec \in Nat /\ n \in Nat /\ op.sec \in Nat
  BY OperationType DEF TypeInv, TypeOK, CallInv
<1>2. ASSUME UNCHANGED <<op, base, sec, n, got, answer, started, executed, clean, refused>>,
             Going' => Going, pc' = "call" => pc = "call"
      PROVE  ReadInv'
  BY <1>2 DEF ReadInv, Obeys, Changes
<1>3. ASSUME NEW o \in Operations, Begin(o) PROVE ReadInv'
  <2>1. got' = << >> /\ sec' = o.sec /\ op' = o /\ pc' # "call" /\ o.sec \in Nat
    BY <1>3, OperationType DEF Begin, Return
  <2>2. Len(got') = 0 /\ DOMAIN got' = {}
    BY <2>1
  <2> QED
    BY <2>1, <2>2 DEF ReadInv
<1>4. CASE Finish
  BY <1>2, <1>4 DEF Finish, Return, Going, callVars, flashVars, history, ReadInv
<1>5. CASE StartChunk
  <2>1. /\ UNCHANGED <<op, base, sec, got, executed, clean, refused>> /\ pc = "loop"
        /\ started' = started + 1
    BY <1>5 DEF StartChunk, Call!Start, history
  <2>2. started' \notin executed'
    BY <1>1, <2>1
  <2> QED
    BY <2>1, <2>2 DEF ReadInv, Obeys, Going, Changes
<1>6. CASE ShortRead
  BY <1>6 DEF ShortRead, Return, Going
<1>7. CASE ChunkDone
  <2>1. /\ UNCHANGED <<op, base, executed, started, n, clean, refused>> /\ pc = "call"
        /\ pc' # "call" /\ sec' = sec + n /\ (trusted => started \in executed)
        /\ (pc' = "idle" => ret' = "false")
        /\ got' \in {got \o data : data \in {answer} \cup (IF trusted THEN {} ELSE {[j \in 1..n |-> Blank]})}
    BY <1>7 DEF ChunkDone, Call!Succeed, Return, history, TypeInv, TypeOK, Changes
  <2>2. trusted /\ Obeys /\ ~Changes(op)
    BY <2>1 DEF ChunkInv, Obeys, Changes
  <2>3. got' = got \o answer
    BY <2>1, <2>2
  <2>4. answer = [j \in 1..n |-> base[sec + j - 1]]
    BY <2>1, <2>2 DEF ReadInv
  <2>5. Len(got) = sec - op.sec /\ \A j \in DOMAIN got : got[j] = base[op.sec + j - 1]
    BY <2>1, <2>2 DEF ReadInv, Going
  <2>6. /\ answer \in Seq(Value) /\ Len(answer) = n
        /\ \A j \in 1..n : answer[j] = base[sec + j - 1]
    <3>1. answer \in Seq(Value)
      BY DEF TypeInv, TypeOK
    <3> QED
      BY <1>1, <2>4, <3>1
  <2>7. /\ Len(got') = Len(got) + n /\ DOMAIN got' = 1..Len(got) + n /\ Len(got) \in Nat
        /\ DOMAIN got = 1..Len(got)
        /\ \A j \in 1..Len(got) + n : got'[j] = IF j =< Len(got) THEN got[j] ELSE answer[j - Len(got)]
    <3>1. got \in Seq(Value) /\ answer \in Seq(Value)
      BY DEF TypeInv, TypeOK
    <3>2. /\ Len(got \o answer) = Len(got) + Len(answer)
          /\ \A j \in 1..Len(got) + Len(answer) :
                (got \o answer)[j] = IF j =< Len(got) THEN got[j] ELSE answer[j - Len(got)]
      BY <3>1, ConcatElement
    <3>3. DOMAIN got = 1..Len(got) /\ Len(got) \in Nat /\ DOMAIN (got \o answer) = 1..Len(got \o answer)
      BY <3>1
    <3> QED
      BY <2>3, <2>6, <3>2, <3>3
  <2>8. Len(got') = sec' - op.sec
    BY <1>1, <2>1, <2>5, <2>7
  <2>9. ASSUME NEW j \in DOMAIN got'
        PROVE  got'[j] = base[op.sec + j - 1]
    <3>1. j \in Nat /\ j > 0 /\ j =< Len(got) + n /\ j \in 1..Len(got) + n
      BY <1>1, <2>7, <2>9
    <3>2. CASE j =< Len(got)
      BY <2>5, <2>7, <3>1, <3>2
    <3>3. CASE j > Len(got)
      <4> DEFINE i == j - Len(got)
      <4>1. i \in 1..n /\ sec + i - 1 = op.sec + j - 1
        BY <1>1, <2>5, <2>7, <3>1, <3>3
      <4>2. got'[j] = answer[i]
        BY <2>7, <3>1, <3>3
      <4> QED
        BY <2>6, <4>1, <4>2
    <3> QED
      BY <2>7, <3>1, <3>2, <3>3
  <2> QED
    BY <2>1, <2>8, <2>9
<1>8. CASE ChunkFailed
  BY <1>8 DEF ChunkFailed, Return, Going
<1>9. CASE NewProcess
  BY <1>9 DEF NewProcess, Going
<1>10. ASSUME NEW c \in pending, DeviceExecute(c) PROVE ReadInv'
  <2>1. UNCHANGED <<op, base, sec, n, pc, ret, got, started, clean, refused>> /\ Obeys /\ ~Changes(op)
    BY <1>10 DEF DeviceExecute, Call!Execute, Obeys, loopVars, history, Changes
  <2>2. c = started /\ IsChunk(started) /\ flash = DoneUpTo(sec)
    BY <2>1 DEF ChunkInv, Obeys, DeviceInv
  <2>3. request[c].sec = sec /\ request[c].n = n /\ ~request[c].changes
    BY <2>1, <2>2 DEF IsChunk
  <2>4. flash = base
    BY <2>1, <2>2, ReadChangesNothing DEF TypeInv
  <2>5. answer' = [j \in 1..n |-> base[sec + j - 1]]
    BY <1>10, <2>3, <2>4 DEF DeviceExecute
  <2> QED
    BY <2>1, <2>5 DEF ReadInv, Going, Obeys
<1>11. ASSUME NEW c \in pending, DeviceRefuse(c) PROVE ReadInv'
  BY <1>11 DEF DeviceRefuse, Obeys
<1>12. CASE DevicePowerFails
  BY <1>2, <1>12 DEF DevicePowerFails, Call!Lose, Going, loopVars, history, ReadInv
<1>13. CASE DeviceLoses
  BY <1>2, <1>13 DEF DeviceLoses, Call!Lose, Going, loopVars, flashVars, history, ReadInv
<1>14. CASE UNCHANGED vars
  BY <1>2, <1>14 DEF vars, callVars, loopVars, flashVars, Going, history, ReadInv
<1> QED
  BY <1>3, <1>4, <1>5, <1>6, <1>7, <1>8, <1>9, <1>10, <1>11, <1>12, <1>13, <1>14 DEF Next, LoopStep, ReadInv

-----------------------------------------------------------------------------
Inv == TypeInv /\ FlashInv

LEMMA FlashInit == Init => Inv
<1> SUFFICES ASSUME Init PROVE Inv
  OBVIOUS
<1>1. TypeInv
  BY TypeInit
<1> QED
  BY <1>1 DEF Init, Call!Init, Inv, FlashInv, ChunkInv, DeviceInv, ReadInv, Obeys

LEMMA FlashStep == Inv /\ [Next]_vars => Inv'
<1> SUFFICES ASSUME Inv, [Next]_vars PROVE Inv'
  OBVIOUS
<1>1. TypeInv'
  BY TypeStep DEF Inv
<1>2. ChunkInv'
  BY <1>1, ChunkStep DEF Inv, FlashInv
<1>3. DeviceInv'
  BY <1>1, <1>2, DeviceStep DEF Inv, FlashInv
<1>4. ReadInv'
  BY <1>1, ReadStep DEF Inv, FlashInv
<1> QED
  BY <1>1, <1>2, <1>3, <1>4 DEF Inv, FlashInv

LEMMA FlashInvariant == Spec => []Inv
BY FlashInit, FlashStep, PTL DEF Spec

\* Wherever an operation on a range of sectors stops, by a failed chunk, a late one,
\* a power failure in the middle of one or the death of the process, the device holds
\* a prefix of it: no hole, and nothing outside (flash_erase_lba ...
\* flash_write_lba_from_file_progress).
THEOREM StopsAtAPrefix == Spec => []AlwaysAPrefix
<1>1. Inv => AlwaysAPrefix
  BY DEF Inv, FlashInv, DeviceInv, Obeys, AlwaysAPrefix
<1> QED
  BY <1>1, FlashInvariant, PTL

\* An operation that returns true has written all it was to write, or read all it
\* was to read (the same functions; files of 2 TiB and more excepted).
THEOREM TrueMeansDone == Spec => []DoneMeansAll
<1>1. ASSUME Inv PROVE DoneMeansAll
  <2> SUFFICES ASSUME ret = "true", clean, ~refused, CountFits(op)
               PROVE  /\ flash = DoneUpTo(Total)
                      /\ ~Changes(op) => /\ Len(got) = Cardinality(Wanted(op))
                                         /\ \A j \in DOMAIN got : got[j] = base[op.sec + j - 1]
    BY DEF DoneMeansAll
  <2>1. op \in Operations /\ sec \in Nat /\ cnt \in Nat /\ op.sec \in Nat
    BY <1>1, OperationType DEF Inv, TypeInv, TypeOK
  <2>2. sec = op.sec + Goal(op) /\ (op.kind = "write_file" => op.len > 0) /\ Goal(op) \in Nat
    <3>1. sec + cnt = op.sec + Goal(op) /\ cnt = 0 /\ (op.kind = "write_file" => op.len > 0)
      BY <1>1 DEF Inv, TypeInv, LoopInv, Going
    <3>2. Goal(op) \in Nat
      BY <2>1, <3>1, GoalIsWanted
    <3> QED
      BY <2>1, <3>1, <3>2
  <2>3. flash = DoneUpTo(sec) /\ sec =< Total
    <3>1. pc = "idle"
      BY <1>1 DEF Inv, TypeInv, LoopInv
    <3> QED
      BY <1>1, <3>1 DEF Inv, FlashInv, DeviceInv, Obeys
  <2>4. /\ \A s \in Sectors : s >= op.sec /\ s < sec => s \in Wanted(op)
        /\ \A s \in Wanted(op) : s >= op.sec /\ s < sec /\ s < Total /\ s \in Nat
    BY <2>1, <2>2, GoalIsWanted DEF Wanted, Sectors
  <2>5. flash = DoneUpTo(Total)
    BY <2>3, <2>4 DEF DoneUpTo
  <2>6. Wanted(op) = op.sec .. sec - 1
    <3>1. Wanted(op) \subseteq op.sec .. sec - 1
      BY <2>1, <2>4
    <3>2. ASSUME NEW s \in op.sec .. sec - 1 PROVE s \in Wanted(op)
      BY <2>1, <2>3, <2>4, <3>2 DEF Sectors
    <3> QED
      BY <3>1, <3>2
  <2>7. Cardinality(Wanted(op)) = sec - op.sec
    <3>1. sec - 1 \in Int /\ op.sec \in Int /\ op.sec =< sec
      BY <2>1, <2>2
    <3>2. Cardinality(op.sec .. sec - 1) = IF op.sec > sec - 1 THEN 0 ELSE sec - 1 - op.sec + 1
      BY <3>1, FS_Interval
    <3> QED
      BY <2>1, <2>6, <3>1, <3>2
  <2>8. ~Changes(op) => Len(got) = sec - op.sec /\ \A j \in DOMAIN got : got[j] = base[op.sec + j - 1]
    BY <1>1 DEF Inv, FlashInv, ReadInv, Obeys, Going
  <2> QED
    BY <2>5, <2>7, <2>8
<1> QED
  BY <1>1, FlashInvariant, PTL
=============================================================================
