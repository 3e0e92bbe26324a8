--------------------------- MODULE RkUploadProofs ---------------------------
(***************************************************************************)
(* Proofs about RkUpload, for all command lines and images of all lengths. *)
(***************************************************************************)
EXTENDS RkUpload, TLAPS

\* The frame of an image of any length: its CRC begins at no multiple of a transfer
\* less one byte, and it fills its last transfer exactly when it is terminated.
LEMMA FrameArithmetic ==
    ASSUME NEW len \in Nat
    PROVE  /\ Framed(len) \in Nat /\ Framed(len) >= 2 /\ Framed(len) >= len + 2
           /\ (Framed(len) - 1) % Block # 0
           /\ Pend(len) <=> Framed(len) % Block = 0
BY DEF Framed, Padded, Pend, Block

\* Going on by whole transfers stays at a multiple of a transfer, by less does not.
LEMMA WholeTransfers ==
    ASSUME NEW a \in Nat, a % Block = 0, NEW n \in 1..Block
    PROVE  (a + n) % Block = 0 <=> n = Block
BY DEF Block

\* A command line is a sequence of uploads, also before the first one.
LEMMA JobType ==
    ASSUME TypeOK
    PROVE  job \in Seq(Upload) /\ k \in Nat /\ Len(job) \in Nat /\ k =< Len(job)
<1>1. job \in Seq(Upload)
  <2>1. << >> \in Seq(Upload)
    OBVIOUS
  <2> QED
    BY <2>1, JobsAssumption DEF TypeOK
<1>2. Len(job) \in Nat /\ k \in 0..Len(job)
  BY <1>1 DEF TypeOK
<1> QED
  BY <1>1, <1>2

\* The upload being done is one of the command line.
LEMMA UploadType ==
    ASSUME TypeOK, k > 0
    PROVE  /\ k \in DOMAIN job /\ job[k] \in Upload /\ job[k].len \in Nat /\ job[k].code \in Codes
           /\ job \in Seq(Upload) /\ k \in Nat
<1>1. job \in Seq(Upload)
  BY JobType
<1>2. k \in 0..Len(job)
  BY DEF TypeOK
<1>3. k \in DOMAIN job
  BY <1>1, <1>2
<1>4. job[k] \in Upload
  BY <1>1, <1>3
<1> QED
  BY <1>1, <1>2, <1>3, <1>4 DEF Upload

\* A transfer carries something, and only the last one of an image is short.
LEMMA RestType ==
    ASSUME TypeOK, pc = "send"
    PROVE  /\ Rest \in 1..Block /\ total + Rest =< Framed(job[k].len)
           /\ total + Rest < Framed(job[k].len) => Rest = Block
           /\ total + Rest = Framed(job[k].len) => (Rest = Block <=> Pend(job[k].len))
           /\ Transfer(total, Rest) \in Sent
           /\ Rest \in Nat /\ total + Rest \in Nat /\ Framed(job[k].len) \in Nat
<1>1. job[k].len \in Nat /\ job[k].code \in Codes /\ k \in Nat /\ k > 0
  BY UploadType DEF TypeOK
<1>2. /\ total \in Nat /\ total % Block = 0 /\ total < Framed(job[k].len) /\ session \in Nat
  BY DEF TypeOK
<1>3. Framed(job[k].len) \in Nat /\ (Pend(job[k].len) <=> Framed(job[k].len) % Block = 0)
  BY <1>1, FrameArithmetic
<1>4. Rest \in 1..Block /\ total + Rest =< Framed(job[k].len)
      /\ (total + Rest < Framed(job[k].len) => Rest = Block)
  <2> DEFINE f == Framed(job[k].len)
  <2>1. f \in Nat /\ total \in Nat /\ total < f
    BY <1>2, <1>3
  <2>2. Rest = Lesser(f - total, Block)
    BY DEF Rest
  <2> HIDE DEF f
  <2>3. Rest \in 1..Block /\ total + Rest =< f /\ (total + Rest < f => Rest = Block)
    BY <2>1, <2>2 DEF Lesser, Block
  <2> QED
    BY <2>3 DEF f
<1>5. total + Rest = Framed(job[k].len) => (Rest = Block <=> Framed(job[k].len) % Block = 0)
  BY <1>2, <1>4, WholeTransfers
<1>6. Transfer(total, Rest) \in Sent
  BY <1>1, <1>2, <1>3, <1>4 DEF Transfer, Sent
<1>7. Rest \in Nat /\ total + Rest \in Nat
  BY <1>2, <1>4
<1> QED
  BY <1>3, <1>4, <1>5, <1>6, <1>7

\* The terminating transfer of one byte.
LEMMA LastTransferType ==
    ASSUME TypeOK, pc = "term"
    PROVE  Transfer(total, 1) \in Sent
<1>1. job[k].len \in Nat /\ job[k].code \in Codes /\ k \in Nat
  BY UploadType DEF TypeOK
<1>2. Framed(job[k].len) \in Nat
  BY <1>1, FrameArithmetic
<1>3. total \in Nat /\ session \in Nat
  BY DEF TypeOK
<1> QED
  BY <1>1, <1>2, <1>3 DEF Transfer, Sent, Block

\* What the ROM holds keeps its type.
LEMMA ReceiveType ==
    ASSUME TypeOK, NEW b \in Sent, Receive(b)
    PROVE  /\ blocks' \in Seq(Sent) /\ rom' \in BOOLEAN
           /\ ran' \in Seq(Nat) /\ rejected' \in Nat
<1>1. blocks \in Seq(Sent) /\ rom \in BOOLEAN /\ rejected \in Nat /\ ran \in Seq(Nat)
  BY DEF TypeOK
<1>2. Append(blocks, b) \in Seq(Sent) /\ << >> \in Seq(Sent)
  BY <1>1
<1>3. b.k \in Nat
  BY DEF Sent
<1>4. Append(ran, b.k) \in Seq(Nat)
  BY <1>1, <1>3
<1>5. (b.code = "sram") \in BOOLEAN
  OBVIOUS
<1>6. CASE b.n = Block
  BY <1>1, <1>2, <1>6 DEF Receive
<1>7. CASE b.n # Block /\ Whole(Append(blocks, b))
  BY <1>1, <1>2, <1>4, <1>5, <1>7 DEF Receive
<1>8. CASE b.n # Block /\ ~Whole(Append(blocks, b))
  BY <1>1, <1>2, <1>8 DEF Receive
<1> QED
  BY <1>6, <1>7, <1>8

\* Initially there is nothing.
LEMMA TypeInit == Init => TypeOK
<1>1. << >> \in Seq(Sent) /\ << >> \in Seq(Nat) /\ 0 \in 0..Len(<< >>) /\ 0 \in 0..MaxSessions
  BY BoundAssumption
<1> SUFFICES ASSUME Init PROVE TypeOK
  OBVIOUS
<1>2. pc = "idle" /\ job = << >> /\ k = 0 /\ session = 0 /\ blocks = << >> /\ ran = << >>
  BY DEF Init
<1>3. k \in 0..Len(job) /\ session \in 0..MaxSessions /\ blocks \in Seq(Sent) /\ ran \in Seq(Nat)
  BY <1>1, <1>2
<1> QED
  BY <1>2, <1>3 DEF Init, TypeOK

\* The part of TypeOK that speaks of the upload being done.
UploadOK ==
    /\ pc \in {"send", "term"} => k > 0
    /\ pc = "send" => total < Framed(job[k].len) /\ total % Block = 0
    /\ pc = "term" => total = Framed(job[k].len) /\ total % Block = 0

\* A transfer that succeeds goes on, or to the terminating one, or to the next upload.
LEMMA SendMoves ==
    ASSUME TypeOK, SendBlock
    PROVE  total' \in Nat /\ pc' \in {"next", "send", "term"} /\ UploadOK'
<1>1. /\ pc = "send" /\ total' = total + Rest /\ UNCHANGED <<job, k>>
      /\ pc' = CASE total' < Framed(job[k].len) -> "send"
                 [] total' = Framed(job[k].len) /\ Pend(job[k].len) -> "term"
                 [] OTHER -> "next"
  BY DEF SendBlock
<1>2. /\ Rest \in 1..Block /\ (total + Rest < Framed(job[k].len) => Rest = Block)
      /\ total + Rest = Framed(job[k].len) => (Rest = Block <=> Pend(job[k].len))
  BY <1>1, RestType
<1>3. total \in Nat /\ total % Block = 0 /\ k > 0
  BY <1>1 DEF TypeOK
<1>4. total' \in Nat
  BY <1>1, <1>2, <1>3
<1>5. Rest = Block => total' % Block = 0
  BY <1>1, <1>2, <1>3, WholeTransfers
<1>6. CASE total' < Framed(job[k].len)
  BY <1>1, <1>2, <1>3, <1>4, <1>5, <1>6 DEF UploadOK
<1>7. CASE total' = Framed(job[k].len) /\ Pend(job[k].len)
  <2>1. pc' = "term"
    <3>1. Framed(job[k].len) \in Nat
      BY <1>4, <1>7
    <3>2. ~(total' < Framed(job[k].len))
      BY <1>7, <3>1
    <3> QED
      BY <1>1, <1>7, <3>2
  <2> QED
    BY <1>1, <1>2, <1>3, <1>4, <1>5, <1>7, <2>1 DEF UploadOK
<1>8. CASE ~(total' < Framed(job[k].len)) /\ ~(total' = Framed(job[k].len) /\ Pend(job[k].len))
  BY <1>1, <1>4, <1>8 DEF UploadOK
<1> QED
  BY <1>6, <1>7, <1>8

\* Every action keeps the types.
LEMMA TypeStep == TypeOK /\ [Next]_vars => TypeOK'
<1> SUFFICES ASSUME TypeOK, [Next]_vars PROVE TypeOK'
  OBVIOUS
<1> USE DEF romVars, history
<1>1. ASSUME NEW j \in Jobs, NewProcess(j) PROVE TypeOK'
  <2>1. Len(j) \in Nat /\ 0 \in 0..Len(j)
    BY JobsAssumption
  <2>2. session + 1 \in 0..MaxSessions
    BY <1>1, BoundAssumption DEF NewProcess, TypeOK
  <2>3. << >> \in Seq(Nat)
    OBVIOUS
  <2> QED
    BY <1>1, <2>1, <2>2, <2>3 DEF NewProcess, TypeOK
<1>2. CASE Finish \/ NotStarted
  BY <1>2 DEF Finish, NotStarted, Return, TypeOK
<1>3. CASE Frame
  <2>1. /\ pc' = "send" /\ k' = k + 1 /\ total' = 0 /\ k < Len(job)
        /\ UNCHANGED <<job, ret, gone, romVars, history>>
    BY <1>3 DEF Frame
  <2>2. job \in Seq(Upload) /\ k \in Nat /\ Len(job) \in Nat
    BY JobType
  <2>3. k' \in 0..Len(job) /\ k' > 0 /\ k' \in DOMAIN job /\ job[k'] \in Upload
    BY <2>1, <2>2
  <2>4. job[k'].len \in Nat
    BY <2>3 DEF Upload
  <2>5. 0 < Framed(job[k'].len)
    BY <2>4, FrameArithmetic
  <2>6. 0 % Block = 0
    BY DEF Block
  <2> QED
    BY <2>1, <2>3, <2>5, <2>6 DEF TypeOK
<1>4. CASE NoMemory
  <2>1. job \in Seq(Upload) /\ k \in Nat /\ Len(job) \in Nat /\ k < Len(job)
    BY <1>4, JobType DEF NoMemory
  <2>2. k + 1 \in 0..Len(job)
    BY <2>1
  <2> QED
    BY <1>4, <2>2 DEF NoMemory, TypeOK
<1>5. CASE SendBlock
  <2>1. total' \in Nat /\ pc' \in {"next", "send", "term"} /\ UploadOK'
    BY <1>5, SendMoves
  <2>2. /\ blocks' \in Seq(Sent) /\ rom' \in BOOLEAN
        /\ ran' \in Seq(Nat) /\ rejected' \in Nat
    BY <1>5, RestType, ReceiveType DEF SendBlock
  <2>3. UNCHANGED <<job, k, ret, gone, history>>
    BY <1>5 DEF SendBlock
  <2> QED
    BY <2>1, <2>2, <2>3 DEF TypeOK, UploadOK
<1>6. CASE SendFails
  <2>1. /\ blocks' \in Seq(Sent) /\ rom' \in BOOLEAN
        /\ ran' \in Seq(Nat) /\ rejected' \in Nat
    BY <1>6, RestType, ReceiveType DEF SendFails, TypeOK
  <2>2. /\ pc' \in {"idle", "next"} /\ ret' \in {ret, "false"} /\ clean' \in BOOLEAN
        /\ broken' \in Nat /\ UNCHANGED <<job, k, total, gone, session, lost>>
    BY <1>6 DEF SendFails, GiveUp, Return, TypeOK
  <2> QED
    BY <2>1, <2>2 DEF TypeOK
<1>7. CASE Terminate
  <2>1. /\ blocks' \in Seq(Sent) /\ rom' \in BOOLEAN
        /\ ran' \in Seq(Nat) /\ rejected' \in Nat
    BY <1>7, LastTransferType, ReceiveType DEF Terminate, TypeOK
  <2>2. /\ pc' = "next" /\ clean' \in BOOLEAN /\ lost' \in BOOLEAN /\ broken' \in Nat
        /\ UNCHANGED <<job, k, total, ret, gone, session>>
    <3>1. clean \in BOOLEAN /\ lost \in BOOLEAN /\ broken \in Nat /\ broken + 1 \in Nat
      BY DEF TypeOK
    <3>2. CASE UNCHANGED <<clean, lost, broken>>
      BY <1>7, <3>1, <3>2 DEF Terminate
    <3>3. CASE clean' = FALSE /\ lost' = TRUE /\ broken' = broken + 1
      BY <1>7, <3>1, <3>3 DEF Terminate
    <3> QED
      BY <1>7, <3>2, <3>3 DEF Terminate
  <2> QED
    BY <2>1, <2>2 DEF TypeOK
<1>8. CASE Killed
  BY <1>8 DEF Killed, TypeOK
<1>9. CASE PowerCycle
  <2>1. << >> \in Seq(Sent) /\ << >> \in Seq(Nat)
    OBVIOUS
  <2> QED
    BY <1>9, <2>1 DEF PowerCycle, TypeOK
<1>10. CASE UNCHANGED vars
  BY <1>10 DEF vars, hostVars, TypeOK
<1> QED
  BY <1>1, <1>2, <1>3, <1>4, <1>5, <1>6, <1>7, <1>8, <1>9, <1>10 DEF Next

\* Every state has its types; no transfer is empty or longer than the ROM takes.
THEOREM TypeCorrect == Spec => []TypeOK
BY TypeInit, TypeStep, PTL DEF Spec

-----------------------------------------------------------------------------
\* What the ROM holds are whole transfers, each at a multiple of a transfer of an
\* image that was framed as the code does.
FullTransfers ==
    \A i \in DOMAIN blocks :
        /\ blocks[i].from % Block = 0 /\ blocks[i].n = Block
        /\ \E len \in Nat : blocks[i].framed = Framed(len)

\* A transfer of an upload lies at a multiple.
LEMMA FullStep ==
    ASSUME TypeOK, FullTransfers, [Next]_vars
    PROVE  FullTransfers'
<1>1. CASE UNCHANGED blocks
  BY <1>1 DEF FullTransfers
<1>2. CASE blocks' = << >>
  BY <1>2 DEF FullTransfers
<1>3. ASSUME NEW n \in {Rest, 1}, pc \in {"send", "term"}, blocks' = Append(blocks, Transfer(total, n)),
             n = Block
      PROVE  FullTransfers'
  <2>1. total % Block = 0 /\ job[k].len \in Nat /\ blocks \in Seq(Sent)
    BY <1>3, UploadType DEF TypeOK
  <2>2. /\ Transfer(total, n).from = total /\ Transfer(total, n).n = Block
        /\ Transfer(total, n).framed = Framed(job[k].len)
    BY <1>3 DEF Transfer
  <2>3. \A i \in DOMAIN blocks' : \/ i \in DOMAIN blocks /\ blocks'[i] = blocks[i]
                                  \/ blocks'[i] = Transfer(total, n)
    BY <1>3, <2>1
  <2> QED
    BY <2>1, <2>2, <2>3 DEF FullTransfers
<1>4. CASE SendBlock \/ SendFails
  BY <1>1, <1>2, <1>3, <1>4 DEF SendBlock, SendFails, Receive, Transfer, romVars
<1>5. CASE Terminate
  BY <1>1, <1>2, <1>3, <1>5 DEF Terminate, Receive, Transfer, romVars
<1> QED
  BY <1>1, <1>2, <1>4, <1>5 DEF Next, NewProcess, Finish, Frame, NoMemory, NotStarted, Killed,
     PowerCycle, vars, romVars

\* For images of every length the two bytes of the CRC travel in one transfer
\* (rk_usb.cpp 179-185: the padding and the order of the two tests).
THEOREM CrcIsNotSplit == Spec => []CrcInOneTransfer
<1>1. Init => FullTransfers
  BY DEF Init, FullTransfers
<1>2. TypeOK /\ FullTransfers => CrcInOneTransfer
  <2> SUFFICES ASSUME TypeOK, FullTransfers, NEW i \in DOMAIN blocks
               PROVE  blocks[i].from + blocks[i].n # blocks[i].framed - 1
    BY DEF CrcInOneTransfer
  <2>1. PICK len \in Nat : blocks[i].framed = Framed(len)
    BY DEF FullTransfers
  <2>2. blocks[i] \in Sent
    BY DEF TypeOK
  <2>3. blocks[i].from \in Nat /\ blocks[i].from % Block = 0 /\ blocks[i].n = Block
    BY <2>2 DEF Sent, FullTransfers
  <2>4. (blocks[i].from + blocks[i].n) % Block = 0
    <3>1. Block \in 1..Block
      BY DEF Block
    <3> QED
      BY <2>3, <3>1, WholeTransfers
  <2> QED
    BY <2>1, <2>4, FrameArithmetic
<1> QED
  BY TypeInit, TypeStep, FullStep, <1>1, <1>2, PTL DEF Spec

-----------------------------------------------------------------------------
\* The transfers bs are those of the upload being done, from its first byte to byte t.
SentUpTo(bs, t) ==
    /\ \A i \in DOMAIN bs :
        /\ bs[i].session = session /\ bs[i].k = k /\ bs[i].framed = Framed(job[k].len)
        /\ bs[i].from = IF i = 1 THEN 0 ELSE bs[i - 1].from + bs[i - 1].n
    /\ IF bs = << >> THEN t = 0 ELSE bs[Len(bs)].from + bs[Len(bs)].n = t

\* As long as every broken upload has spoiled one, the ROM holds nothing of others.
SpoilInv ==
    /\ SpoilsOne
    /\ gone => blocks = << >>
    /\ pc \in {"send", "term"} /\ ~gone /\ rejected = broken => SentUpTo(blocks, total)
    /\ pc \in {"idle", "next"} /\ rejected = broken => blocks = << >>

\* The transfer that follows prolongs what was sent of the upload.
LEMMA SentGoesOn ==
    ASSUME TypeOK, SentUpTo(blocks, total), NEW n
    PROVE  SentUpTo(Append(blocks, Transfer(total, n)), total + n)
<1> DEFINE b  == Transfer(total, n)
           bs == Append(blocks, b)
<1>1. /\ b.session = session /\ b.k = k /\ b.framed = Framed(job[k].len)
      /\ b.from = total /\ b.n = n
  BY DEF Transfer
<1>2. blocks \in Seq(Sent)
  BY DEF TypeOK
<1> HIDE DEF b
<1>3. /\ DOMAIN blocks = 1..Len(blocks) /\ Len(blocks) \in Nat /\ DOMAIN bs = 1..Len(blocks) + 1
      /\ Len(bs) = Len(blocks) + 1 /\ bs # << >>
      /\ \A i \in DOMAIN blocks : bs[i] = blocks[i]
      /\ bs[Len(blocks) + 1] = b
  BY <1>2
<1> HIDE DEF bs
<1>4. ASSUME NEW i \in DOMAIN bs
      PROVE  /\ bs[i].session = session /\ bs[i].k = k /\ bs[i].framed = Framed(job[k].len)
             /\ bs[i].from = IF i = 1 THEN 0 ELSE bs[i - 1].from + bs[i - 1].n
  <2>1. CASE i \in DOMAIN blocks
    <3>1. bs[i] = blocks[i] /\ (i # 1 => i - 1 \in DOMAIN blocks /\ bs[i - 1] = blocks[i - 1])
      BY <1>3, <2>1
    <3> QED
      BY <2>1, <3>1 DEF SentUpTo
  <2>2. CASE i \notin DOMAIN blocks
    <3>1. i = Len(blocks) + 1 /\ bs[i] = b
      BY <1>3, <1>4, <2>2
    <3>2. CASE blocks = << >>
      BY <1>1, <1>2, <3>1, <3>2 DEF SentUpTo
    <3>3. CASE blocks # << >>
      <4>1. i # 1 /\ i - 1 = Len(blocks) /\ Len(blocks) \in DOMAIN blocks
        BY <1>2, <1>3, <3>1, <3>3
      <4>2. bs[i - 1] = blocks[Len(blocks)] /\ blocks[Len(blocks)].from + blocks[Len(blocks)].n = total
        BY <1>3, <3>3, <4>1 DEF SentUpTo
      <4> QED
        BY <1>1, <3>1, <4>1, <4>2
    <3> QED
      BY <3>2, <3>3
  <2> QED
    BY <2>1, <2>2
<1>5. bs[Len(bs)].from + bs[Len(bs)].n = total + n
  BY <1>1, <1>3
<1>6. SentUpTo(bs, total + n)
  BY <1>3, <1>4, <1>5 DEF SentUpTo
<1> QED
  BY <1>6 DEF bs, b

\* What the ROM does with the transfer that follows: it rejects an image only when an
\* earlier upload has broken off and not spoiled one yet.
LEMMA ReceiveSpoils ==
    ASSUME TypeOK, SpoilInv, ~gone, pc \in {"send", "term"},
           NEW n \in Nat, n # Block => total + n >= Framed(job[k].len),
           Receive(Transfer(total, n))
    PROVE  /\ rejected' =< broken /\ (rejected = broken => rejected' = broken)
           /\ n # Block => blocks' = << >>
           /\ n = Block /\ rejected' = broken => SentUpTo(blocks', total + n)
<1> DEFINE b  == Transfer(total, n)
           bs == Append(blocks, b)
<1>1. rejected \in Nat /\ broken \in Nat /\ rejected =< broken
  BY DEF TypeOK, SpoilInv, SpoilsOne
<1>2. b.n = n
  BY DEF Transfer
<1>3. rejected = broken => SentUpTo(bs, total + n)
  BY SentGoesOn DEF SpoilInv
<1>4. bs # << >> /\ 1 \in DOMAIN bs /\ Len(bs) \in DOMAIN bs
  <2>1. blocks \in Seq(Sent)
    BY DEF TypeOK
  <2> QED
    BY <2>1
<1>5. n # Block /\ rejected = broken => Whole(bs)
  <2> SUFFICES ASSUME n # Block, rejected = broken PROVE Whole(bs)
    OBVIOUS
  <2> HIDE DEF bs
  <2>1. bs[Len(bs)].from + bs[Len(bs)].n >= bs[1].framed
    BY <1>3, <1>4 DEF SentUpTo
  <2>2. \A i \in DOMAIN bs :
            /\ bs[i].session = bs[1].session /\ bs[i].k = bs[1].k
            /\ bs[i].from = IF i = 1 THEN 0 ELSE bs[i - 1].from + bs[i - 1].n
    BY <1>3, <1>4 DEF SentUpTo
  <2> QED
    BY <2>1, <2>2 DEF Whole
<1>6. CASE n = Block
  <2>1. blocks' = bs /\ rejected' = rejected
    BY <1>2, <1>6 DEF Receive
  <2>2. rejected = broken => SentUpTo(blocks', total + n)
    BY <1>3, <2>1
  <2> HIDE DEF bs
  <2> QED
    BY <1>1, <1>6, <2>1, <2>2
<1>7. CASE n # Block
  <2>1. blocks' = << >> /\ (Whole(bs) => rejected' = rejected) /\ (~Whole(bs) => rejected' = rejected + 1)
    BY <1>2, <1>7 DEF Receive
  <2> HIDE DEF bs
  <2> QED
    BY <1>1, <1>5, <1>7, <2>1
<1> QED
  BY <1>6, <1>7

\* Every action keeps it.
LEMMA SpoilStep ==
    ASSUME TypeOK, SpoilInv, [Next]_vars
    PROVE  SpoilInv'
<1>1. rejected \in Nat /\ broken \in Nat /\ rejected =< broken
  BY DEF TypeOK, SpoilInv, SpoilsOne
<1> USE DEF romVars, history
<1>2. ASSUME NEW j \in Jobs, NewProcess(j) PROVE SpoilInv'
  BY <1>2 DEF NewProcess, SpoilInv, SpoilsOne
<1>3. CASE Finish \/ NotStarted \/ NoMemory
  BY <1>3 DEF Finish, NotStarted, NoMemory, Return, SpoilInv, SpoilsOne
<1>4. CASE Frame
  <2>1. pc = "next" /\ pc' = "send" /\ total' = 0 /\ UNCHANGED <<gone, blocks, rejected, broken>>
    BY <1>4 DEF Frame
  <2>2. blocks = << >> => SentUpTo(blocks, total)'
    BY <2>1 DEF SentUpTo
  <2> QED
    BY <2>1, <2>2 DEF SpoilInv, SpoilsOne
<1>5. CASE SendBlock
  <2>1. /\ pc = "send" /\ ~gone /\ Receive(Transfer(total, Rest)) /\ total' = total + Rest
        /\ UNCHANGED <<gone, job, k, session, broken>>
        /\ pc' = CASE total' < Framed(job[k].len) -> "send"
                   [] total' = Framed(job[k].len) /\ Pend(job[k].len) -> "term"
                   [] OTHER -> "next"
    BY <1>5 DEF SendBlock, Reachable
  <2>2. /\ Rest \in 1..Block /\ total + Rest =< Framed(job[k].len)
        /\ total + Rest < Framed(job[k].len) => Rest = Block
        /\ total + Rest = Framed(job[k].len) => (Rest = Block <=> Pend(job[k].len))
    BY <2>1, RestType
  <2>3. Rest \in Nat /\ total + Rest \in Nat /\ Framed(job[k].len) \in Nat
    BY <2>1, RestType
  <2>4. Rest # Block => total + Rest >= Framed(job[k].len)
    BY <2>2, <2>3
  <2>5. /\ rejected' =< broken /\ (Rest # Block => blocks' = << >>)
        /\ Rest = Block /\ rejected' = broken => SentUpTo(blocks', total + Rest)
    BY <2>1, <2>3, <2>4, ReceiveSpoils
  <2>6. CASE Rest = Block
    <3>1. pc' \in {"send", "term"}
      BY <2>1, <2>2, <2>3, <2>6
    <3>2. rejected' = broken => SentUpTo(blocks, total)'
      BY <2>1, <2>5, <2>6 DEF SentUpTo
    <3> QED
      BY <2>1, <2>5, <3>1, <3>2 DEF SpoilInv, SpoilsOne
  <2>7. CASE Rest # Block
    <3>1. pc' = "next"
      BY <2>1, <2>2, <2>3, <2>7
    <3> QED
      BY <2>1, <2>5, <2>7, <3>1 DEF SpoilInv, SpoilsOne
  <2> QED
    BY <2>6, <2>7
<1>6. ASSUME broken' = broken + 1, rejected' =< broken, UNCHANGED gone, gone => blocks' = << >>
      PROVE  SpoilInv'
  <2>1. rejected' # broken' /\ rejected' =< broken'
    <3>1. rejected' = rejected \/ rejected' = rejected + 1
      BY DEF Next, NewProcess, Finish, Frame, NoMemory, NotStarted, SendBlock, SendFails, Terminate,
             Receive, Killed, PowerCycle, vars
    <3> QED
      BY <1>1, <1>6, <3>1
  <2> QED
    BY <1>6, <2>1 DEF SpoilInv, SpoilsOne
<1>7. CASE SendFails
  <2>1. broken' = broken + 1 /\ UNCHANGED gone /\ pc = "send"
    BY <1>7 DEF SendFails, GiveUp
  <2>2. CASE UNCHANGED romVars
    BY <1>1, <1>6, <2>1, <2>2 DEF SpoilInv
  <2>3. CASE Reachable /\ Receive(Transfer(total, Rest))
    <3>1. /\ Rest \in 1..Block /\ total + Rest =< Framed(job[k].len)
          /\ total + Rest < Framed(job[k].len) => Rest = Block
      BY <2>1, RestType
    <3>2. Rest \in Nat /\ total + Rest \in Nat /\ Framed(job[k].len) \in Nat
      BY <2>1, RestType
    <3>3. Rest # Block => total + Rest >= Framed(job[k].len)
      BY <3>1, <3>2
    <3>4. rejected' =< broken
      BY <2>1, <2>3, <3>2, <3>3, ReceiveSpoils DEF Reachable
    <3> QED
      BY <1>6, <2>1, <2>3, <3>4 DEF Reachable
  <2> QED
    BY <1>7, <2>2, <2>3 DEF SendFails
<1>8. CASE Terminate
  <2>1. pc = "term" /\ pc' = "next" /\ UNCHANGED gone
    BY <1>8 DEF Terminate
  <2>2. CASE UNCHANGED romVars /\ broken' = broken + 1
    BY <1>1, <1>6, <2>1, <2>2 DEF SpoilInv
  <2>3. CASE Reachable /\ Receive(Transfer(total, 1)) /\ UNCHANGED broken
    <3>1. 1 # Block /\ total + 1 >= Framed(job[k].len)
      BY <2>1, UploadType, FrameArithmetic DEF TypeOK, Block
    <3>2. rejected' =< broken /\ blocks' = << >>
      BY <2>1, <2>3, <3>1, ReceiveSpoils DEF Reachable
    <3> QED
      BY <2>1, <2>3, <3>2 DEF SpoilInv, SpoilsOne
  <2> QED
    BY <1>8, <2>2, <2>3 DEF Terminate
<1>9. CASE Killed
  <2>1. /\ pc' = "idle" /\ UNCHANGED <<gone, blocks, rejected>>
        /\ broken' = IF pc \in {"send", "term"} THEN broken + 1 ELSE broken
    BY <1>9 DEF Killed
  <2>2. CASE pc \in {"send", "term"}
    BY <1>1, <1>6, <2>1, <2>2 DEF SpoilInv
  <2>3. CASE pc \notin {"send", "term"}
    BY <2>1, <2>3 DEF SpoilInv, SpoilsOne, TypeOK
  <2> QED
    BY <2>2, <2>3
<1>10. CASE PowerCycle
  BY <1>10 DEF PowerCycle, SpoilInv, SpoilsOne
<1>11. CASE UNCHANGED vars
  BY <1>11 DEF vars, hostVars, SpoilInv, SpoilsOne, SentUpTo
<1> QED
  BY <1>2, <1>3, <1>4, <1>5, <1>7, <1>8, <1>9, <1>10, <1>11 DEF Next

\* For all command lines, in any number of processes: an upload that breaks off
\* spoils at most one later upload.
THEOREM SpoilsAtMostOne == Spec => []SpoilsOne
<1>1. Init => SpoilInv
  BY DEF Init, SpoilInv, SpoilsOne
<1>2. SpoilInv => SpoilsOne
  BY DEF SpoilInv
<1> QED
  BY TypeInit, TypeStep, SpoilStep, <1>1, <1>2, PTL DEF Spec

-----------------------------------------------------------------------------
\* As long as nothing was skipped or lost, the images the ROM has run are the uploads
\* of the command line in order, and what it holds is the one being done.
OrderInv ==
    clean =>
        /\ ~gone
        /\ ran = [i \in 1..Len(ran) |-> i] /\ Len(ran) =< Len(job)
        /\ pc = "next" => Len(ran) = k /\ blocks = << >>
        /\ pc \in {"send", "term"} => Len(ran) = k - 1 /\ SentUpTo(blocks, total)
        /\ ret = "true" => pc = "idle" /\ Len(ran) = Len(job)

\* A command has no result before it returns.
NoResultYet == pc # "idle" => ret = "none"

\* One more image in the sequence of those that were run.
LEMMA RunsNext ==
    ASSUME NEW q \in Seq(Nat), q = [i \in 1..Len(q) |-> i]
    PROVE  LET r == Append(q, Len(q) + 1)
           IN  r \in Seq(Nat) /\ Len(r) = Len(q) + 1 /\ r = [i \in 1..Len(r) |-> i]
<1> DEFINE r == Append(q, Len(q) + 1)
<1>1. Len(q) \in Nat /\ DOMAIN q = 1..Len(q)
  OBVIOUS
<1>2. r \in Seq(Nat) /\ Len(r) = Len(q) + 1 /\ DOMAIN r = 1..Len(q) + 1 /\ r = [i \in DOMAIN r |-> r[i]]
  BY <1>1
<1>3. \A i \in 1..Len(q) + 1 : r[i] = IF i =< Len(q) THEN q[i] ELSE Len(q) + 1
  BY <1>1
<1>4. \A i \in 1..Len(q) : q[i] = i
  <2>1. q = [i \in 1..Len(q) |-> i]
    OBVIOUS
  <2> DEFINE f == [i \in 1..Len(q) |-> i]
  <2>2. \A i \in 1..Len(q) : f[i] = i
    OBVIOUS
  <2> HIDE DEF f
  <2> QED
    BY <2>1, <2>2 DEF f
<1> HIDE DEF r
<1>5. \A i \in DOMAIN r : r[i] = i
  BY <1>1, <1>2, <1>3, <1>4
<1>6. r = [i \in 1..Len(r) |-> i]
  BY <1>2, <1>5
<1> QED
  BY <1>2, <1>6 DEF r

\* What the ROM does with a transfer of an upload, everything before it having arrived:
\* a full transfer is held, a shorter one completes the image and it is run.
LEMMA ReceiveRuns ==
    ASSUME TypeOK, OrderInv, clean, pc \in {"send", "term"},
           NEW n \in Nat, n # Block => total + n >= Framed(job[k].len),
           Receive(Transfer(total, n))
    PROVE  /\ n = Block => SentUpTo(blocks', total + n) /\ UNCHANGED ran
           /\ n # Block => /\ blocks' = << >> /\ Len(ran') = k
                           /\ ran' = [i \in 1..Len(ran') |-> i]
<1> DEFINE b  == Transfer(total, n)
           bs == Append(blocks, b)
<1>1. /\ Len(ran) = k - 1 /\ ran = [i \in 1..Len(ran) |-> i] /\ SentUpTo(blocks, total)
      /\ k \in Nat /\ k > 0 /\ ran \in Seq(Nat) /\ blocks \in Seq(Sent)
  BY JobType DEF OrderInv, TypeOK
<1>2. b.n = n /\ b.k = k
  BY DEF Transfer
<1>3. SentUpTo(bs, total + n)
  BY <1>1, SentGoesOn
<1>4. bs # << >> /\ 1 \in DOMAIN bs /\ Len(bs) \in DOMAIN bs
  BY <1>1
<1>5. n # Block => Whole(bs)
  <2> SUFFICES ASSUME n # Block PROVE Whole(bs)
    OBVIOUS
  <2> HIDE DEF bs
  <2>1. bs[Len(bs)].from + bs[Len(bs)].n >= bs[1].framed
    BY <1>3, <1>4 DEF SentUpTo
  <2>2. \A i \in DOMAIN bs :
            /\ bs[i].session = bs[1].session /\ bs[i].k = bs[1].k
            /\ bs[i].from = IF i = 1 THEN 0 ELSE bs[i - 1].from + bs[i - 1].n
    BY <1>3, <1>4 DEF SentUpTo
  <2> QED
    BY <2>1, <2>2 DEF Whole
<1>6. CASE n = Block
  <2>1. blocks' = bs /\ UNCHANGED ran
    BY <1>2, <1>6 DEF Receive
  <2> QED
    BY <1>3, <1>6, <2>1
<1>7. CASE n # Block
  <2>1. blocks' = << >> /\ ran' = Append(ran, k)
    BY <1>2, <1>5, <1>7 DEF Receive
  <2>2. Len(ran) + 1 = k
    BY <1>1
  <2>3. Len(Append(ran, k)) = k /\ Append(ran, k) = [i \in 1..Len(Append(ran, k)) |-> i]
    BY <1>1, <2>2, RunsNext
  <2> QED
    BY <1>7, <2>1, <2>3
<1> QED
  BY <1>6, <1>7

\* Every action keeps the order.
LEMMA OrderStep ==
    ASSUME TypeOK, NoResultYet, OrderInv, [Next]_vars
    PROVE  NoResultYet' /\ OrderInv'
<1> USE DEF romVars, history
<1>1. NoResultYet'
  BY DEF NoResultYet, Next, NewProcess, Finish, Frame, NoMemory, NotStarted, SendBlock, SendFails, GiveUp,
         Terminate, Killed, PowerCycle, Return, vars, hostVars
<1> SUFFICES OrderInv'
  BY <1>1
<1>2. ASSUME clean' = FALSE PROVE OrderInv'
  BY <1>2 DEF OrderInv
<1>3. k \in Nat /\ Len(job) \in Nat /\ k =< Len(job) /\ clean \in BOOLEAN
  BY JobType DEF TypeOK
<1>4. ASSUME NEW j \in Jobs, NewProcess(j) PROVE OrderInv'
  <2>1. /\ pc' = "next" /\ job' = j /\ k' = 0 /\ ret' = "none" /\ gone' = FALSE /\ ran' = << >>
        /\ blocks' = blocks
    BY <1>4 DEF NewProcess
  <2>4. clean' => blocks' = << >>
    <3>1. clean' = (blocks = << >>) /\ blocks' = blocks
      BY <1>4 DEF NewProcess
    <3> QED
      BY <3>1, Zenon
  <2>2. Len(<< >>) = 0 /\ << >> = [i \in 1..0 |-> i] /\ Len(j) \in Nat
    BY JobsAssumption
  <2>3. ran' = [i \in 1..Len(ran') |-> i] /\ Len(ran') = 0
    BY <2>1, <2>2
  <2> QED
    BY <2>1, <2>2, <2>3, <2>4 DEF OrderInv
<1>5. CASE Finish
  BY <1>3, <1>5 DEF Finish, Return, OrderInv
<1>6. CASE NotStarted
  BY <1>6 DEF NotStarted, Return, OrderInv
<1>7. CASE Frame
  <2>1. pc = "next" /\ pc' = "send" /\ k' = k + 1 /\ total' = 0 /\ UNCHANGED <<job, ret, gone, romVars, history>>
    BY <1>7 DEF Frame
  <2>2. blocks = << >> => SentUpTo(blocks, total)'
    BY <2>1 DEF SentUpTo
  <2>3. ran' = ran /\ blocks' = blocks /\ clean' = clean /\ gone' = gone /\ ret' = ret /\ job' = job
    BY <2>1
  <2>4. k' - 1 = k
    BY <1>3, <2>1
  <2>5. clean => ret # "true" /\ blocks = << >> /\ Len(ran) = k' - 1
    BY <2>1, <2>4 DEF OrderInv
  <2> QED
    BY <2>1, <2>2, <2>3, <2>5 DEF OrderInv
<1>8. CASE NoMemory
  BY <1>2, <1>8 DEF NoMemory
<1>9. ASSUME clean, pc = "send", Receive(Transfer(total, Rest))
      PROVE  /\ Rest = Block => SentUpTo(blocks', total + Rest) /\ UNCHANGED ran
             /\ Rest # Block => /\ blocks' = << >> /\ Len(ran') = k
                                /\ ran' = [i \in 1..Len(ran') |-> i]
  <2>1. /\ total + Rest =< Framed(job[k].len) /\ (total + Rest < Framed(job[k].len) => Rest = Block)
        /\ Rest \in Nat /\ total + Rest \in Nat /\ Framed(job[k].len) \in Nat
    BY <1>9, RestType
  <2>2. Rest # Block => total + Rest >= Framed(job[k].len)
    BY <2>1
  <2> QED
    BY <1>9, <2>1, <2>2, ReceiveRuns
<1>10. CASE SendBlock
  <2> SUFFICES ASSUME clean PROVE OrderInv'
    BY <1>3, <1>10 DEF SendBlock, OrderInv
  <2>1. /\ pc = "send" /\ Receive(Transfer(total, Rest)) /\ total' = total + Rest
        /\ UNCHANGED <<gone, job, k, session, ret, clean>>
        /\ pc' = CASE total' < Framed(job[k].len) -> "send"
                   [] total' = Framed(job[k].len) /\ Pend(job[k].len) -> "term"
                   [] OTHER -> "next"
    BY <1>10 DEF SendBlock
  <2>2. /\ Rest \in 1..Block /\ total + Rest =< Framed(job[k].len)
        /\ total + Rest < Framed(job[k].len) => Rest = Block
        /\ total + Rest = Framed(job[k].len) => (Rest = Block <=> Pend(job[k].len))
        /\ total + Rest \in Nat /\ Framed(job[k].len) \in Nat
    BY <2>1, RestType
  <2>3. ret = "none" /\ ~gone /\ Len(ran) = k - 1 /\ ran = [i \in 1..Len(ran) |-> i] /\ Len(ran) =< Len(job)
    BY <2>1 DEF NoResultYet, OrderInv
  <2>4. CASE Rest = Block
    <3>1. pc' \in {"send", "term"}
      BY <2>1, <2>2, <2>4
    <3>2. SentUpTo(blocks, total)' /\ ran' = ran
      BY <1>9, <2>1, <2>4 DEF SentUpTo
    <3> QED
      BY <2>1, <2>3, <3>1, <3>2 DEF OrderInv
  <2>5. CASE Rest # Block
    <3>1. pc' = "next"
      BY <2>1, <2>2, <2>5
    <3>2. blocks' = << >> /\ Len(ran') = k /\ ran' = [i \in 1..Len(ran') |-> i]
      BY <1>9, <2>1, <2>5
    <3> QED
      BY <1>3, <2>1, <2>3, <3>1, <3>2 DEF OrderInv
  <2> QED
    BY <2>4, <2>5
<1>11. CASE SendFails
  <2> SUFFICES ASSUME clean, job[k].must PROVE OrderInv'
    BY <1>2, <1>3, <1>11 DEF SendFails, GiveUp
  <2>1. pc = "send" /\ pc' = "idle" /\ ret' = "false" /\ UNCHANGED <<job, k, gone>>
    BY <1>11 DEF SendFails, GiveUp, Return
  <2>2. ~gone /\ Len(ran) = k - 1 /\ ran = [i \in 1..Len(ran) |-> i] /\ Len(ran) =< Len(job)
    BY <2>1 DEF OrderInv
  <2>3. ran' = [i \in 1..Len(ran') |-> i] /\ Len(ran') =< Len(job)
    <3>1. CASE UNCHANGED romVars
      BY <2>2, <3>1
    <3>2. CASE Receive(Transfer(total, Rest))
      BY <1>3, <1>9, <2>1, <2>2, <3>2
    <3> QED
      BY <1>11, <3>1, <3>2 DEF SendFails
  <2> QED
    BY <2>1, <2>2, <2>3 DEF OrderInv
<1>12. CASE Terminate
  <2>1. /\ pc = "term" /\ pc' = "next" /\ UNCHANGED <<job, k, total, ret, gone, session>>
        /\ \/ Receive(Transfer(total, 1)) /\ clean' = clean
           \/ clean' = FALSE
    BY <1>12 DEF Terminate
  <2>2. CASE Receive(Transfer(total, 1)) /\ clean' = clean /\ clean
    <3>1. 1 # Block /\ total + 1 >= Framed(job[k].len)
      <4>1. job[k].len \in Nat /\ total = Framed(job[k].len)
        BY <2>1, UploadType DEF TypeOK
      <4> QED
        BY <4>1, FrameArithmetic DEF Block
    <3>2. blocks' = << >> /\ Len(ran') = k /\ ran' = [i \in 1..Len(ran') |-> i]
      BY <2>1, <2>2, <3>1, ReceiveRuns
    <3>3. ret = "none" /\ ~gone
      BY <2>1, <2>2 DEF NoResultYet, OrderInv
    <3> QED
      BY <1>3, <2>1, <3>2, <3>3 DEF OrderInv
  <2> QED
    BY <1>2, <1>3, <2>1, <2>2
<1>13. CASE Killed
  BY <1>13 DEF Killed, OrderInv
<1>14. CASE PowerCycle
  BY <1>2, <1>14 DEF PowerCycle
<1>15. CASE UNCHANGED vars
  BY <1>15 DEF vars, hostVars, OrderInv, SentUpTo
<1> QED
  BY <1>4, <1>5, <1>6, <1>7, <1>8, <1>10, <1>11, <1>12, <1>13, <1>14, <1>15 DEF Next

\* It holds at the beginning.
LEMMA OrderInit == Init => NoResultYet /\ OrderInv
BY DEF Init, NoResultYet, OrderInv

\* For all command lines: one that returns true has made the ROM run all of its
\* images, once each and in order, unless memory ran out, the ROM held the rest of
\* another upload, or the terminating transfer failed (rk_usb.cpp 170-226).
THEOREM AllAreRun == Spec => []AllRan
<1>1. OrderInv => AllRan
  BY DEF OrderInv, AllRan
<1> QED
  BY TypeInit, TypeStep, OrderInit, OrderStep, <1>1, PTL DEF Spec

-----------------------------------------------------------------------------
\* The entries of a loader file, of every code a file may hold.
Entries == Seq([code : Codes \cup {"loader"}, len : Nat])

\* The command lines are those of main.cpp.
CommandLinesOnly ==
    \A j \in Jobs :
        \/ \E sram, dram \in Nat : j = Maskrom(sram, dram)
        \/ \E payload \in Nat : j = Exec(payload)
        \/ \E entries \in Entries : j = Download(entries)
        \/ \E payload, addr, len \in Nat : j = Write(payload, addr, len)

\* The uploads of j that carry a piece of a file carry one after the other.
InPlace(j) ==
    \A i \in DOMAIN j : j[i].n > 0 =>
        /\ j[i].at - j[i].from = j[1].at
        /\ j[i].from = IF i = 1 THEN 0 ELSE j[i - 1].from + j[i - 1].n

\* The pieces of a file: each begins where the one before it ends.
LEMMA WriteInPlace ==
    ASSUME NEW payload \in Nat, NEW addr \in Nat, NEW len \in Nat
    PROVE  InPlace(Write(payload, addr, len))
<1> DEFINE j == Write(payload, addr, len)
           count == (len + Piece - 1) \div Piece
<1>1. /\ DOMAIN j = 1..count
      /\ \A i \in 1..count : /\ j[i].from = (i - 1) * Piece
                             /\ j[i].n = Lesser(Piece, len - (i - 1) * Piece)
                             /\ j[i].at = addr + (i - 1) * Piece
  BY DEF Write
<1>2. count \in Nat /\ \A i \in 1..count : (i - 1) * Piece < len
  BY DEF Piece
<1> HIDE DEF j, count
<1>3. ASSUME NEW i \in 1..count
      PROVE  /\ j[i].at - j[i].from = j[1].at
             /\ j[i].from = IF i = 1 THEN 0 ELSE j[i - 1].from + j[i - 1].n
  <2>1. j[i].from = (i - 1) * Piece /\ j[i].at = addr + (i - 1) * Piece /\ (i - 1) * Piece < len
    BY <1>1, <1>2
  <2>2. j[1].at = addr
    BY <1>1, <1>2 DEF Piece
  <2>3. ASSUME i # 1 PROVE j[i].from = j[i - 1].from + j[i - 1].n
    <3>1. i - 1 \in 1..count
      BY <1>2, <2>3
    <3>2. j[i - 1].from = (i - 2) * Piece /\ j[i - 1].n = Lesser(Piece, len - (i - 2) * Piece)
      BY <1>1, <3>1
    <3> QED
      BY <1>2, <2>1, <3>2 DEF Lesser, Piece
  <2> QED
    BY <1>2, <2>1, <2>2, <2>3 DEF Piece
<1>4. InPlace(j)
  BY <1>1, <1>3 DEF InPlace
<1> QED
  BY <1>4 DEF j

\* The other command lines write no file.
LEMMA CommandsInPlace ==
    ASSUME CommandLinesOnly
    PROVE  \A j \in Jobs : InPlace(j)
<1> SUFFICES ASSUME NEW j \in Jobs PROVE InPlace(j)
  OBVIOUS
<1>1. ASSUME NEW sram \in Nat, NEW dram \in Nat, j = Maskrom(sram, dram) PROVE InPlace(j)
  BY <1>1 DEF Maskrom, Image, InPlace
<1>2. ASSUME NEW payload \in Nat, j = Exec(payload) PROVE InPlace(j)
  BY <1>2 DEF Exec, Image, InPlace
<1>3. ASSUME NEW entries \in Entries, j = Download(entries) PROVE InPlace(j)
  <2>1. \A p \in DOMAIN j : j[p].n = 0
    BY <1>3 DEF Download, Image
  <2> QED
    BY <2>1 DEF InPlace
<1>4. ASSUME NEW payload \in Nat, NEW addr \in Nat, NEW len \in Nat, j = Write(payload, addr, len)
      PROVE  InPlace(j)
  BY <1>4, WriteInPlace
<1> QED
  BY <1>1, <1>2, <1>3, <1>4 DEF CommandLinesOnly

\* For all files, addresses and payloads: while nothing is skipped or lost, what was
\* written to memory is the beginning of the file, in place and without a gap
\* (rk_usb.cpp 334-349, 435-450 and 477-515), wherever the command stopped.
THEOREM NoGapIsWritten == CommandLinesOnly /\ Spec => []WrittenInPlace
<1>1. TypeOK /\ OrderInv /\ CommandLinesOnly => WrittenInPlace
  <2> SUFFICES ASSUME TypeOK, OrderInv, CommandLinesOnly, clean
               PROVE  LET pieces == [i \in DOMAIN ran |-> job[ran[i]]]
                      IN  \A i \in DOMAIN pieces : pieces[i].n > 0 =>
                            /\ pieces[i].at - pieces[i].from = job[1].at
                            /\ pieces[i].from = IF i = 1 THEN 0 ELSE pieces[i - 1].from + pieces[i - 1].n
    BY DEF WrittenInPlace
  <2>1. job \in Seq(Upload) /\ Len(job) \in Nat /\ ran \in Seq(Nat)
    BY JobType DEF TypeOK
  <2>2. Len(ran) \in Nat /\ DOMAIN ran = 1..Len(ran) /\ Len(ran) =< Len(job)
        /\ \A i \in 1..Len(ran) : ran[i] = i
    <3>1. ran = [i \in 1..Len(ran) |-> i] /\ Len(ran) =< Len(job)
      BY DEF OrderInv
    <3> QED
      BY <2>1, <3>1
  <2>3. InPlace(job)
    <3>1. CASE job = << >>
      BY <3>1 DEF InPlace
    <3> QED
      BY <3>1, CommandsInPlace DEF TypeOK
  <2>4. \A i \in 1..Len(ran) : i \in DOMAIN job /\ (i # 1 => i - 1 \in 1..Len(ran))
    BY <2>1, <2>2
  <2> DEFINE pieces == [i \in DOMAIN ran |-> job[ran[i]]]
  <2>5. DOMAIN pieces = 1..Len(ran) /\ \A i \in 1..Len(ran) : pieces[i] = job[i]
    BY <2>2
  <2> HIDE DEF pieces
  <2>6. \A i \in DOMAIN pieces : pieces[i].n > 0 =>
            /\ pieces[i].at - pieces[i].from = job[1].at
            /\ pieces[i].from = IF i = 1 THEN 0 ELSE pieces[i - 1].from + pieces[i - 1].n
    BY <2>3, <2>4, <2>5 DEF InPlace
  <2> QED
    BY <2>6 DEF pieces
<1>2. CommandLinesOnly /\ [Next]_vars => CommandLinesOnly'
  BY DEF CommandLinesOnly
<1> QED
  BY TypeInit, TypeStep, OrderInit, OrderStep, <1>1, <1>2, PTL DEF Spec
=============================================================================
