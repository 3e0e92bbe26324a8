--------------------------- MODULE RkCommandProofs ---------------------------
(***************************************************************************)
(* Proofs about RkCommand, for every set of commands, every packet size,   *)
(* every buffering of the device and any number of transactions: types,    *)
(* the order of execution, and that the two sides stay in step while no    *)
(* command has failed, with what follows from that.                        *)
(***************************************************************************)
EXTENDS RkCommand, FiniteSetTheorems, TLAPS

-----------------------------------------------------------------------------
\* --- types and the order of execution ------------------------------------------

\* What TypeOK needs to be inductive: the phase fits the command, a request is
\* a single packet, and the device never has more data left than the command.
PhaseOK ==
    /\ pc = "send_req" => left = RequestLen
    /\ pc = "send_data" => cmd.dir = "out"
    /\ pc = "recv_data" => cmd.dir = "in"
    /\ dleft =< dreq.cmd.len

TypeInv == TypeOK /\ PhaseOK

USE CommandsAssumption, MPSAssumption, CapAssumption, BoundAssumption

\* The three operations on a FIFO, element by element.
LEMMA SeqElement ==
    ASSUME NEW S, NEW q \in Seq(S)
    PROVE  /\ DOMAIN q = 1..Len(q) /\ Len(q) \in Nat
           /\ \A i \in DOMAIN q : q[i] \in S /\ i \in Nat
OBVIOUS

LEMMA TailElement ==
    ASSUME NEW S, NEW q \in Seq(S), q # << >>
    PROVE  /\ Tail(q) \in Seq(S) /\ Head(q) \in S /\ Head(q) = q[1] /\ 1 \in DOMAIN q
           /\ Len(Tail(q)) = Len(q) - 1
           /\ \A i \in DOMAIN Tail(q) : i \in Nat /\ i + 1 \in DOMAIN q /\ Tail(q)[i] = q[i + 1]
OBVIOUS

LEMMA AppendElement ==
    ASSUME NEW S, NEW q \in Seq(S), NEW e \in S
    PROVE  /\ Append(q, e) \in Seq(S) /\ Len(Append(q, e)) = Len(q) + 1
           /\ DOMAIN Append(q, e) = 1..Len(q) + 1
           /\ \A i \in DOMAIN q : Append(q, e)[i] = q[i]
           /\ Append(q, e)[Len(q) + 1] = e
OBVIOUS

\* A packet is never longer than the bytes it is cut from, and never empty.
LEMMA LeastIsLeast ==
    ASSUME NEW a \in Nat, NEW b \in Nat \ {0}
    PROVE  /\ Least(a, b) \in Nat /\ Least(a, b) =< a /\ Least(a, b) =< b
           /\ a > 0 => Least(a, b) > 0
BY DEF Least

\* The parts of a data packet are in range.
LEMMA DataPacketType ==
    ASSUME NEW s \in Nat, NEW t \in Nat, NEW c \in Commands,
           NEW rest \in Nat, rest =< c.len
    PROVE  /\ DataPacket(s, t, c, rest) \in Packet
           /\ DataPacket(s, t, c, rest).size =< rest
           /\ rest > 0 => DataPacket(s, t, c, rest).size > 0
<1>1. MPS \in Nat \ {0}
  BY DEF RequestLen
<1>2. c.len \in Nat
  BY DEF IsCommand
<1>3. Least(rest, MPS) \in Nat /\ Least(rest, MPS) =< rest /\ (rest > 0 => Least(rest, MPS) > 0)
  BY <1>1, LeastIsLeast
<1> QED
  BY <1>2, <1>3 DEF DataPacket, Packet

\* The length of the phase that follows is never zero: no loop starts empty.
LEMMA NextPhaseType ==
    ASSUME TypeInv, Busy, NextPhase
    PROVE  /\ pc' \in {"send_data", "recv_data", "recv_res"}
           /\ left' \in Nat
           /\ pc' = "send_data" => cmd.dir = "out" /\ left' = cmd.len /\ cmd.len > 0
           /\ pc' = "recv_data" => cmd.dir = "in" /\ left' = cmd.len /\ cmd.len > 0
           /\ pc' = "recv_res" => left' = ResponseLen
BY DEF TypeInv, TypeOK, PhaseOK, NextPhase, After, LengthOf, ResponseLen, IsCommand, Directions

\* The same in the terms of TypeOK.
LEMMA NextPhaseMoves ==
    ASSUME TypeInv, Busy, NextPhase, UNCHANGED cmd
    PROVE  /\ pc' \in {"send_data", "recv_data", "recv_res"}
           /\ pc' = "send_data" => cmd.dir = "out"
           /\ pc' = "recv_data" => cmd.dir = "in"
           /\ left' \in Nat /\ left' \in 1..LengthOf(pc)'
           /\ ret' \in {"none", "true", "false"} /\ fails' \in Nat
<1>1. ret' \in {"none", "true", "false"} /\ fails' \in Nat
  BY DEF NextPhase, TypeInv, TypeOK
<1>2. /\ pc' \in {"send_data", "recv_data", "recv_res"} /\ left' \in Nat
      /\ pc' = "send_data" => cmd.dir = "out" /\ left' = cmd.len /\ cmd.len > 0
      /\ pc' = "recv_data" => cmd.dir = "in" /\ left' = cmd.len /\ cmd.len > 0
      /\ pc' = "recv_res" => left' = ResponseLen
  BY NextPhaseType
<1> QED
  BY <1>1, <1>2 DEF LengthOf, ResponseLen

\* A loop that goes on has less to move than before, and something.
LEMMA LoopGoesOn ==
    ASSUME TypeInv, Busy, pc # "send_req", UNCHANGED <<pc, cmd, ret, fails>>, left' \in 1..left
    PROVE  /\ pc' \in {"send_data", "recv_data", "recv_res"}
           /\ pc' = "send_data" => cmd.dir = "out"
           /\ pc' = "recv_data" => cmd.dir = "in"
           /\ left' \in Nat /\ left' \in 1..LengthOf(pc)'
           /\ ret' \in {"none", "true", "false"} /\ fails' \in Nat
<1>1. LengthOf(pc)' = LengthOf(pc) /\ LengthOf(pc) \in Nat /\ left \in 1..LengthOf(pc)
  BY DEF TypeInv, TypeOK, Busy, LengthOf, ResponseLen, RequestLen, IsCommand
<1> QED
  BY <1>1 DEF TypeInv, TypeOK, PhaseOK, Busy

\* The initial states have the types.
LEMMA TypeInit == Init => TypeInv
<1> SUFFICES ASSUME Init PROVE TypeInv
  OBVIOUS
<1>1. dreq \in Packet /\ dreq.cmd = cmd /\ cmd.len \in Nat
  BY DEF Init, ReqPacket, Packet, RequestLen, IsCommand
<1>2. PhaseOK
  BY <1>1 DEF Init, PhaseOK
<1>3. outp \in Seq(Packet) /\ inp \in Seq(Packet) /\ Len(outp) =< OutCap /\ Len(inp) =< InCap
  BY DEF Init
<1>4. log \in Seq(LogEntry)
  BY DEF Init
<1> QED
  BY <1>1, <1>2, <1>3, <1>4 DEF Init, TypeInv, TypeOK, Busy

\* The packet that usb_bulk_send moves: typed, not empty, within what is left.
NextPacket == IF pc = "send_req" THEN ReqPacket ELSE DataPacket(serial, tag, cmd, left)

LEMMA SentPacketType ==
    ASSUME TypeInv, SendPacket
    PROVE  /\ NextPacket \in Packet /\ NextPacket.size =< left /\ NextPacket.size \in Nat \ {0}
           /\ pc = "send_req" => NextPacket.size = left
           /\ Busy
<1> DEFINE p == NextPacket
<1> USE DEF TypeInv, NextPacket
<1>1. CASE pc = "send_req"
  BY <1>1 DEF TypeOK, PhaseOK, ReqPacket, Packet, RequestLen, Busy
<1>2. CASE pc = "send_data"
  <2>1. left \in 1..cmd.len /\ cmd \in Commands /\ serial \in Nat /\ tag \in Nat /\ cmd.len \in Nat
    BY <1>2 DEF TypeOK, Busy, LengthOf, IsCommand
  <2>2. left =< cmd.len /\ left > 0 /\ left \in Nat
    BY <2>1
  <2>3. p = DataPacket(serial, tag, cmd, left)
    BY <1>2
  <2>4. p \in Packet /\ p.size =< left /\ p.size > 0
    BY <2>1, <2>2, <2>3, DataPacketType
  <2>5. p.size \in Nat
    BY <2>4 DEF Packet
  <2> QED
    BY <1>2, <2>4, <2>5 DEF Busy
<1> QED
  BY <1>1, <1>2 DEF SendPacket

\* A step of the device: only what it changes has to be looked at.
LEMMA DeviceStepType ==
    ASSUME TypeInv, UNCHANGED hostVars,
           outp' \in Seq(Packet), Len(outp') =< OutCap,
           inp' \in Seq(Packet), Len(inp') =< InCap,
           dphase' \in {"cmd", "recv", "exec", "send", "status"},
           dreq' \in Packet, dleft' \in Nat, dleft' =< dreq'.cmd.len,
           dbuf' \in SUBSET Placed, log' \in Seq(LogEntry)
    PROVE  TypeInv'
BY DEF TypeInv, TypeOK, PhaseOK, hostVars, Busy, LengthOf

\* A step of the host: the same, for its own part.
LEMMA HostStepType ==
    ASSUME TypeInv, UNCHANGED <<cmd, serial, tag, gone, deviceVars>>,
           outp' \in Seq(Packet), Len(outp') =< OutCap,
           inp' \in Seq(Packet), Len(inp') =< InCap,
           buf' \in SUBSET Placed, res' \in SUBSET Placed,
           pc' \in {"idle", "send_data", "recv_data", "recv_res"},
           pc' = "send_data" => cmd.dir = "out", pc' = "recv_data" => cmd.dir = "in",
           left' \in Nat, pc' # "idle" => left' \in 1..LengthOf(pc)',
           ret' \in {"none", "true", "false"}, fails' \in Nat
    PROVE  TypeInv'
BY DEF TypeInv, TypeOK, PhaseOK, deviceVars, Busy

\* Every action keeps the types.  Those of the variables that it leaves alone need
\* no proof; those it changes are shown one by one.
LEMMA TypeStep == TypeInv /\ [Next]_vars => TypeInv'
<1> SUFFICES ASSUME TypeInv, [Next]_vars PROVE TypeInv'
  OBVIOUS
<1> USE DEF TypeInv
<1>1. ASSUME NEW c \in Commands, Issue(c) PROVE TypeInv'
  BY <1>1 DEF Issue, TypeOK, PhaseOK, deviceVars, Busy, LengthOf, RequestLen
<1>2. CASE SendPacket
  <2> DEFINE p == NextPacket
  <2>1. p \in Packet /\ p.size =< left /\ (pc = "send_req" => p.size = left) /\ p.size \in Nat \ {0} /\ Busy
    BY <1>2, SentPacketType
  <2>2. outp' = Append(outp, p) /\ Len(outp) < OutCap
    BY <1>2 DEF SendPacket, NextPacket
  <2>3. outp' \in Seq(Packet) /\ Len(outp') =< OutCap
    BY <2>1, <2>2 DEF TypeOK
  <2>4. UNCHANGED <<cmd, serial, tag, buf, res, gone, inp, deviceVars>>
    BY <1>2 DEF SendPacket
  <2>5. inp' \in Seq(Packet) /\ Len(inp') =< InCap /\ buf' \in SUBSET Placed /\ res' \in SUBSET Placed
    BY <2>4 DEF TypeOK
  <2>6. CASE left = p.size
    <3>1. NextPhase
      BY <1>2, <2>6 DEF SendPacket, NextPacket
    <3> QED
      BY <2>1, <2>3, <2>4, <2>5, <3>1, NextPhaseMoves, HostStepType
  <2>7. CASE left # p.size
    <3>1. left' = left - p.size /\ UNCHANGED <<pc, ret, fails>> /\ pc = "send_data"
      BY <1>2, <2>1, <2>7 DEF SendPacket, NextPacket
    <3> HIDE DEF p
    <3>2. left' \in 1..left
      BY <2>1, <2>7, <3>1 DEF TypeOK
    <3> QED
      BY <2>1, <2>3, <2>4, <2>5, <3>1, <3>2, LoopGoesOn, HostStepType
  <2> QED
    BY <2>6, <2>7
<1>3. CASE RecvPacket
  <2> DEFINE at == LengthOf(pc) - left
  <2>1. inp # << >> /\ Head(inp) \in Packet /\ Tail(inp) \in Seq(Packet) /\ Len(Tail(inp)) =< InCap
    BY <1>3 DEF RecvPacket, TypeOK
  <2>2. at \in Nat /\ Busy /\ pc # "send_req"
    BY <1>3 DEF RecvPacket, TypeOK, Busy, LengthOf, ResponseLen, IsCommand
  <2>3. {[at |-> at, pkt |-> Head(inp)]} \in SUBSET Placed
    BY <2>1, <2>2 DEF Placed
  <2>4. buf' \in SUBSET Placed /\ res' \in SUBSET Placed /\ inp' \in Seq(Packet) /\ Len(inp') =< InCap
    BY <1>3, <2>1, <2>3 DEF RecvPacket, TypeOK
  <2>5. UNCHANGED <<cmd, serial, tag, gone, outp, deviceVars>>
    BY <1>3 DEF RecvPacket
  <2>6. outp' \in Seq(Packet) /\ Len(outp') =< OutCap
    BY <2>5 DEF TypeOK
  <2>7. Head(inp).size \in Nat /\ Head(inp).size =< left
    BY <1>3, <2>1 DEF RecvPacket, Packet
  <2>8. CASE left > Head(inp).size /\ left' = left - Head(inp).size /\ UNCHANGED <<pc, ret, fails>>
    <3>1. left' \in 1..left
      BY <2>7, <2>8 DEF TypeOK
    <3> QED
      BY <2>2, <2>4, <2>5, <2>6, <2>8, <3>1, LoopGoesOn, HostStepType
  <2>9. CASE left = Head(inp).size /\ pc = "recv_data" /\ NextPhase
    BY <2>2, <2>4, <2>5, <2>6, <2>9, NextPhaseMoves, HostStepType
  <2>10. CASE Return("true") \/ Return("false")
    <3>1. pc' = "idle" /\ left' = 0 /\ ret' \in {"true", "false"} /\ fails' \in Nat
      BY <2>10 DEF Return, TypeOK
    <3> QED
      BY <2>4, <2>5, <2>6, <3>1, HostStepType
  <2> QED
    BY <1>3, <2>8, <2>9, <2>10 DEF RecvPacket
<1>4. CASE RecvOverflow
  <2>1. Tail(inp) \in Seq(Packet) /\ Len(Tail(inp)) =< InCap
    BY <1>4 DEF RecvOverflow, TypeOK
  <2> QED
    BY <1>4, <2>1 DEF RecvOverflow, Return, TypeOK, PhaseOK, deviceVars, Busy
<1>5. CASE TransferError
  BY <1>5 DEF TransferError, Return, TypeOK, PhaseOK, deviceVars, Busy
<1>6. CASE FlushDevice /\ UNCHANGED <<cmd, serial, tag, buf, res>>
           /\ gone' \in BOOLEAN /\ fails' \in Nat
           /\ \/ pc' = "idle" /\ ret' = "false" /\ left' = 0
              \/ UNCHANGED <<pc, ret, left>>
  <2>1. dreq.cmd.len \in Nat
    BY DEF TypeOK, Packet, IsCommand
  <2>2. outp' \in Seq(Packet) /\ inp' \in Seq(Packet) /\ Len(outp') =< OutCap /\ Len(inp') =< InCap
    BY <1>6 DEF FlushDevice
  <2>3. PhaseOK'
    BY <1>6, <2>1 DEF FlushDevice, PhaseOK
  <2> QED
    BY <1>6, <2>2, <2>3 DEF FlushDevice, TypeOK, Busy, LengthOf
<1>7. CASE BusReset
  BY <1>6, <1>7 DEF BusReset, TypeOK, PhaseOK, deviceVars, Busy
<1>8. CASE NewProcess
  <2>1. /\ pc' = "idle" /\ ret' = "none" /\ left' = 0 /\ tag' = 0 /\ gone' = FALSE
        /\ UNCHANGED <<cmd, serial, buf, res, outp, inp, dphase, dreq, dleft, dbuf, log>>
    BY <1>8 DEF NewProcess, deviceVars
  <2>2. fails' \in Nat
    BY <1>8 DEF NewProcess, TypeOK
  <2> QED
    BY <2>1, <2>2 DEF TypeOK, PhaseOK, Busy
<1>9. CASE DeviceTakeRequest
  <2>1. Head(outp) \in Packet /\ Tail(outp) \in Seq(Packet) /\ Len(Tail(outp)) =< OutCap
    BY <1>9 DEF DeviceTakeRequest, TypeOK
  <2>2. outp' \in Seq(Packet) /\ Len(outp') =< OutCap /\ UNCHANGED <<hostVars, inp, log>>
    BY <1>9, <2>1 DEF DeviceTakeRequest
  <2>3. inp' \in Seq(Packet) /\ Len(inp') =< InCap /\ log' \in Seq(LogEntry)
    BY <2>2 DEF TypeOK
  <2>4. Head(outp).cmd.len \in Nat
    BY <2>1 DEF Packet, IsCommand
  <2>5. /\ dphase' \in {"cmd", "recv", "exec"} /\ dbuf' \in SUBSET Placed
        /\ dreq' \in Packet /\ dleft' \in Nat /\ dleft' =< dreq'.cmd.len
    BY <1>9, <2>1, <2>4 DEF DeviceTakeRequest, TypeOK, PhaseOK
  <2> QED
    BY <2>2, <2>3, <2>5, DeviceStepType
<1>10. CASE DeviceTakeData
  <2>1. Head(outp) \in Packet /\ Tail(outp) \in Seq(Packet) /\ Len(Tail(outp)) =< OutCap
    BY <1>10 DEF DeviceTakeData, TypeOK
  <2>2. dreq.cmd.len \in Nat /\ dleft \in Nat /\ dleft =< dreq.cmd.len /\ Head(outp).size \in Nat
    BY <2>1 DEF TypeOK, PhaseOK, Packet, IsCommand
  <2>3. dleft' \in Nat /\ dleft' =< dreq.cmd.len
    BY <1>10, <2>2 DEF DeviceTakeData, Least
  <2>4. dbuf' \in SUBSET Placed
    BY <1>10, <2>1, <2>2 DEF DeviceTakeData, TypeOK, Placed
  <2>5. /\ outp' \in Seq(Packet) /\ Len(outp') =< OutCap /\ dphase' \in {"exec", "recv"}
        /\ UNCHANGED <<hostVars, inp, dreq, log>>
    BY <1>10, <2>1 DEF DeviceTakeData
  <2>6. inp' \in Seq(Packet) /\ Len(inp') =< InCap /\ log' \in Seq(LogEntry) /\ dreq' \in Packet
    BY <2>5 DEF TypeOK
  <2> QED
    BY <2>3, <2>4, <2>5, <2>6, DeviceStepType
<1>11. CASE DeviceExecute
  <2>1. [from |-> dreq.from, cmd |-> dreq.cmd, data |-> dbuf] \in LogEntry
    BY DEF TypeOK, Packet, LogEntry
  <2>2. log' \in Seq(LogEntry) /\ dphase' \in {"send", "status"}
    BY <1>11, <2>1 DEF DeviceExecute, TypeOK
  <2>3. UNCHANGED <<hostVars, outp, inp, dreq, dleft, dbuf>>
    BY <1>11 DEF DeviceExecute
  <2>4. /\ outp' \in Seq(Packet) /\ Len(outp') =< OutCap /\ inp' \in Seq(Packet) /\ Len(inp') =< InCap
        /\ dreq' \in Packet /\ dleft' \in Nat /\ dleft' =< dreq'.cmd.len /\ dbuf' \in SUBSET Placed
    BY <2>3 DEF TypeOK, PhaseOK
  <2> QED
    BY <2>2, <2>3, <2>4, DeviceStepType
<1>12. CASE DeviceSendData
  <2> DEFINE p == DataPacket(dreq.from, dreq.tag, dreq.cmd, dleft)
  <2>1. dreq.from \in Nat /\ dreq.tag \in Nat /\ dreq.cmd \in Commands /\ dleft \in Nat
        /\ dleft =< dreq.cmd.len /\ dreq.cmd.len \in Nat
    BY DEF TypeOK, PhaseOK, Packet, IsCommand
  <2>2. p \in Packet /\ p.size =< dleft /\ p.size \in Nat
    BY <2>1, DataPacketType DEF Packet
  <2>3. /\ inp' = Append(inp, p) /\ Len(inp) < InCap /\ dleft' = dleft - p.size
        /\ dphase' \in {"status", "send"} /\ UNCHANGED <<hostVars, outp, dreq, dbuf, log>>
    BY <1>12 DEF DeviceSendData
  <2> HIDE DEF p
  <2>4. /\ inp' \in Seq(Packet) /\ Len(inp') =< InCap
        /\ dleft' \in Nat /\ dleft' =< dreq.cmd.len
    <3>1. dleft' \in Nat /\ dleft' =< dreq.cmd.len
      BY <2>1, <2>2, <2>3
    <3>2. inp \in Seq(Packet) /\ InCap \in Nat
      BY DEF TypeOK
    <3> QED
      BY <2>2, <2>3, <3>1, <3>2
  <2>5. /\ outp' \in Seq(Packet) /\ Len(outp') =< OutCap /\ log' \in Seq(LogEntry)
        /\ dreq' \in Packet /\ dbuf' \in SUBSET Placed
    BY <2>3 DEF TypeOK
  <2> QED
    BY <2>3, <2>4, <2>5, DeviceStepType
<1>13. CASE DeviceSendResponse
  <2>1. ResPacket \in Packet
    BY DEF TypeOK, ResPacket, Packet, ResponseLen
  <2>2. /\ inp' = Append(inp, ResPacket) /\ Len(inp) < InCap /\ dphase' = "cmd"
        /\ UNCHANGED <<hostVars, outp, dreq, dleft, dbuf, log>>
    BY <1>13 DEF DeviceSendResponse
  <2>3. inp' \in Seq(Packet) /\ Len(inp') =< InCap
    BY <2>1, <2>2 DEF TypeOK
  <2>4. /\ outp' \in Seq(Packet) /\ Len(outp') =< OutCap /\ log' \in Seq(LogEntry)
        /\ dreq' \in Packet /\ dleft' \in Nat /\ dleft' =< dreq'.cmd.len /\ dbuf' \in SUBSET Placed
    BY <2>2 DEF TypeOK, PhaseOK
  <2> QED
    BY <2>2, <2>3, <2>4, DeviceStepType
<1>14. CASE DeviceRestart
  BY <1>6, <1>14 DEF DeviceRestart, TypeOK
<1>15. CASE UNCHANGED vars
  BY <1>15 DEF vars, hostVars, deviceVars, TypeOK, PhaseOK, Busy, LengthOf
<1> QED
  BY <1>1, <1>2, <1>3, <1>4, <1>5, <1>7, <1>8, <1>9, <1>10, <1>11, <1>12, <1>13, <1>14, <1>15
     DEF Next, HostStep, DeviceStep

\* Every state of every behaviour is well typed: no loop of usb_bulk_send or
\* usb_bulk_recv ever runs with a length below zero, and no endpoint overfills.
THEOREM TypeCorrect == Spec => []TypeOK
<1>1. TypeInv => TypeOK
  BY DEF TypeInv
<1> QED
  BY TypeInit, TypeStep, <1>1, PTL DEF Spec

-----------------------------------------------------------------------------
\* Why requests are executed in order, and once.  Along the way from the host to
\* the log (send_req, the OUT endpoint, the device's request, the log) serial
\* numbers only go down, and a request that moves on leaves its place.

Sent == IF pc = "send_req" THEN serial - 1 ELSE serial

Serving == dphase \in {"recv", "exec"}

OrderInv ==
    /\ pc = "send_req" => serial > 0
    /\ \A i \in DOMAIN outp : outp[i].kind = "req" => outp[i].from =< Sent
    /\ \A i, j \in DOMAIN outp :
            i < j /\ outp[i].kind = "req" /\ outp[j].kind = "req" => outp[i].from < outp[j].from
    /\ Serving => /\ dreq.from =< Sent
                  /\ \A i \in DOMAIN outp : outp[i].kind = "req" => dreq.from < outp[i].from
                  /\ \A k \in DOMAIN log : log[k].from < dreq.from
    /\ \A k \in DOMAIN log : log[k].from =< Sent
    /\ \A k \in DOMAIN log : \A i \in DOMAIN outp :
            outp[i].kind = "req" => log[k].from < outp[i].from
    /\ ExecutedInOrder

\* A step that neither sends a request, nor takes one, nor executes one.
LEMMA OrderKept ==
    ASSUME TypeInv, OrderInv, Sent' \in Int, Sent' >= Sent,
           pc' = "send_req" => serial' > 0,
           UNCHANGED log, Serving' => (Serving /\ UNCHANGED dreq),
           UNCHANGED outp \/ outp' = << >> \/ (outp # << >> /\ outp' = Tail(outp))
    PROVE  OrderInv'
<1>1. /\ outp \in Seq(Packet) /\ Sent \in Int /\ Sent' \in Int
      /\ dreq.from \in Nat /\ \A i \in DOMAIN outp : outp[i].from \in Nat
  <2>1. outp \in Seq(Packet) /\ Sent \in Int /\ dreq.from \in Nat
    BY DEF TypeInv, TypeOK, Sent, Packet
  <2>2. \A i \in DOMAIN outp : outp[i] \in Packet
    BY <2>1, SeqElement
  <2> QED
    BY <2>1, <2>2 DEF Packet
<1>2. /\ \A i \in DOMAIN outp' : \E j \in DOMAIN outp : outp'[i] = outp[j]
      /\ \A i, k \in DOMAIN outp' : i < k =>
          \E j, l \in DOMAIN outp : j < l /\ outp'[i] = outp[j] /\ outp'[k] = outp[l]
  <2>1. CASE UNCHANGED outp
    BY <2>1
  <2>2. CASE outp' = << >>
    BY <2>2
  <2>3. CASE outp # << >> /\ outp' = Tail(outp)
    <3>1. \A i \in DOMAIN outp' : i \in Nat /\ i + 1 \in DOMAIN outp /\ outp'[i] = outp[i + 1]
      BY <1>1, <2>3, TailElement
    <3>2. \A i, k \in DOMAIN outp' : i < k => i + 1 < k + 1
      BY <3>1
    <3> QED
      BY <3>1, <3>2
  <2> QED
    BY <2>1, <2>2, <2>3
<1>3. \A k \in DOMAIN log : log[k].from \in Nat
  <2>1. \A k \in DOMAIN log : log[k] \in LogEntry
    BY SeqElement DEF TypeInv, TypeOK
  <2> QED
    BY <2>1 DEF LogEntry
<1>4. /\ \A i \in DOMAIN outp' : outp'[i].kind = "req" => outp'[i].from =< Sent'
      /\ \A i, j \in DOMAIN outp' :
            i < j /\ outp'[i].kind = "req" /\ outp'[j].kind = "req" => outp'[i].from < outp'[j].from
  <2>1. ASSUME NEW i \in DOMAIN outp', outp'[i].kind = "req" PROVE outp'[i].from =< Sent'
    <3>1. PICK j \in DOMAIN outp : outp'[i] = outp[j]
      BY <1>2
    <3>2. outp[j].from =< Sent /\ outp[j].from \in Nat
      BY <1>1, <2>1, <3>1 DEF OrderInv
    <3> QED
      BY <1>1, <3>1, <3>2
  <2> QED
    BY <1>2, <2>1 DEF OrderInv
<1>5. Serving' => /\ dreq'.from =< Sent'
                  /\ \A i \in DOMAIN outp' : outp'[i].kind = "req" => dreq'.from < outp'[i].from
                  /\ \A k \in DOMAIN log' : log'[k].from < dreq'.from
  BY <1>1, <1>2 DEF OrderInv
<1>6. /\ \A k \in DOMAIN log' : log'[k].from =< Sent'
      /\ \A k \in DOMAIN log' : \A i \in DOMAIN outp' :
            outp'[i].kind = "req" => log'[k].from < outp'[i].from
  BY <1>1, <1>2, <1>3 DEF OrderInv
<1> QED
  BY <1>4, <1>5, <1>6 DEF OrderInv, ExecutedInOrder

\* What the order needs to know of the types.
LEMMA OrderTypes ==
    ASSUME TypeInv
    PROVE  /\ outp \in Seq(Packet) /\ serial \in Nat /\ dreq.from \in Nat
           /\ \A i \in DOMAIN outp : outp[i] \in Packet /\ outp[i].from \in Nat
           /\ \A k \in DOMAIN log : log[k].from \in Nat
           /\ Sent \in Int /\ Sent =< serial
<1>1. outp \in Seq(Packet) /\ serial \in Nat /\ dreq.from \in Nat
  BY DEF TypeInv, TypeOK, Packet
<1>2. \A i \in DOMAIN outp : outp[i] \in Packet
  BY <1>1, SeqElement
<1>3. \A k \in DOMAIN log : log[k] \in LogEntry
  BY SeqElement DEF TypeInv, TypeOK
<1>4. \A i \in DOMAIN outp : outp[i].from \in Nat
  BY <1>2 DEF Packet
<1>5. \A k \in DOMAIN log : log[k].from \in Nat
  BY <1>3 DEF LogEntry
<1>6. Sent \in Int /\ Sent =< serial
  BY <1>1 DEF Sent
<1> QED
  BY <1>1, <1>2, <1>4, <1>5, <1>6

\* Nothing has been sent, nothing executed.
LEMMA OrderInit == Init => OrderInv
BY DEF Init, OrderInv, ExecutedInOrder, Sent, Serving

\* The request leaves the host with the highest number so far, behind the others.
LEMMA OrderSend ==
    ASSUME TypeInv, OrderInv, SendPacket
    PROVE  OrderInv'
<1> DEFINE p == NextPacket
<1>1. /\ outp' = Append(outp, p) /\ UNCHANGED <<serial, dphase, dreq, log>>
      /\ p.from = serial /\ (p.kind = "req" <=> pc = "send_req")
  BY DEF SendPacket, deviceVars, ReqPacket, DataPacket, NextPacket
<1>2. pc' # "send_req" /\ Sent' = serial
  <2>1. CASE left = p.size
    BY <2>1, NextPhaseType DEF SendPacket, Busy, Sent, NextPacket
  <2>2. CASE left # p.size
    <3>1. pc = "send_data" /\ pc' = pc
      BY <2>2 DEF SendPacket, TypeInv, PhaseOK, ReqPacket, NextPacket
    <3> QED
      BY <1>1, <3>1 DEF Sent
  <2> QED
    BY <2>1, <2>2
<1>12. p \in Packet
  BY SentPacketType
<1> HIDE DEF p
<1>3. /\ DOMAIN outp = 1..Len(outp) /\ Len(outp) \in Nat /\ DOMAIN outp' = 1..(Len(outp) + 1)
      /\ \A i \in DOMAIN outp : outp'[i] = outp[i]
      /\ outp'[Len(outp) + 1] = p
  BY <1>1, <1>12, OrderTypes, SeqElement, AppendElement
<1>4. \A i \in DOMAIN outp' :
          \/ i \in DOMAIN outp /\ outp'[i] = outp[i]
          \/ i = Len(outp) + 1 /\ outp'[i] = p
  BY <1>3
<1>5. pc = "send_req" => Sent < serial
  BY OrderTypes DEF Sent
<1>6. \A i \in DOMAIN outp' : outp'[i].kind = "req" => outp'[i].from =< Sent'
  BY <1>1, <1>2, <1>4, OrderTypes DEF OrderInv
<1>7. \A i, j \in DOMAIN outp' :
          i < j /\ outp'[i].kind = "req" /\ outp'[j].kind = "req" => outp'[i].from < outp'[j].from
  <2> SUFFICES ASSUME NEW i \in DOMAIN outp', NEW j \in DOMAIN outp', i < j,
                      outp'[i].kind = "req", outp'[j].kind = "req"
               PROVE  outp'[i].from < outp'[j].from
    OBVIOUS
  <2>1. i \in DOMAIN outp /\ outp'[i] = outp[i]
    BY <1>3
  <2>2. CASE j \in DOMAIN outp /\ outp'[j] = outp[j]
    BY <2>1, <2>2 DEF OrderInv
  <2>3. CASE outp'[j] = p
    BY <2>1, <2>3, <1>1, <1>5, OrderTypes DEF OrderInv
  <2> QED
    BY <1>4, <2>2, <2>3
<1>8. Serving => \A i \in DOMAIN outp' : outp'[i].kind = "req" => dreq.from < outp'[i].from
  BY <1>1, <1>4, <1>5, OrderTypes DEF OrderInv
<1>9. \A k \in DOMAIN log : \A i \in DOMAIN outp' :
          outp'[i].kind = "req" => log[k].from < outp'[i].from
  BY <1>1, <1>4, <1>5, OrderTypes DEF OrderInv
<1>10. Serving' = Serving /\ log' = log /\ dreq' = dreq
  BY <1>1 DEF Serving
<1>11. (Serving => dreq.from =< Sent') /\ \A k \in DOMAIN log : log[k].from =< Sent'
  BY <1>2, OrderTypes DEF OrderInv
<1> QED
  BY <1>2, <1>6, <1>7, <1>8, <1>9, <1>10, <1>11 DEF OrderInv, ExecutedInOrder

\* The device takes the oldest request; dropped data packets are OrderKept.
LEMMA OrderTake ==
    ASSUME TypeInv, OrderInv, DeviceTakeRequest
    PROVE  OrderInv'
<1>1. /\ outp # << >> /\ outp' = Tail(outp) /\ dphase = "cmd"
      /\ UNCHANGED <<pc, serial, log>> /\ Sent' = Sent
  BY DEF DeviceTakeRequest, hostVars, Sent
<1>2. /\ Head(outp) = outp[1] /\ 1 \in DOMAIN outp
      /\ \A i \in DOMAIN outp' : i \in Nat /\ i + 1 \in DOMAIN outp /\ outp'[i] = outp[i + 1] /\ 1 < i + 1
  <2>1. \A i \in DOMAIN outp' : i >= 1
    BY <1>1, OrderTypes, SeqElement, TailElement
  <2> QED
    BY <1>1, <2>1, OrderTypes, TailElement
<1>3. CASE Head(outp).kind = "req"
  <2>1. dreq' = outp[1] /\ outp[1].kind = "req"
    BY <1>2, <1>3 DEF DeviceTakeRequest
  <2>2. /\ dreq'.from =< Sent'
        /\ \A i \in DOMAIN outp' : outp'[i].kind = "req" => dreq'.from < outp'[i].from
        /\ \A k \in DOMAIN log' : log'[k].from < dreq'.from
    BY <1>1, <1>2, <2>1 DEF OrderInv
  <2>3. \A i, j \in DOMAIN outp' : i < j => i + 1 < j + 1
    BY <1>2
  <2>4. \A i, j \in DOMAIN outp' :
          i < j /\ outp'[i].kind = "req" /\ outp'[j].kind = "req" => outp'[i].from < outp'[j].from
    BY <1>2, <2>3 DEF OrderInv
  <2> QED
    BY <1>1, <1>2, <2>2, <2>4 DEF OrderInv, ExecutedInOrder
<1>4. CASE Head(outp).kind # "req"
  <2>1. UNCHANGED <<dphase, dreq>>
    BY <1>4 DEF DeviceTakeRequest
  <2>2. /\ Sent' \in Int /\ Sent' >= Sent /\ (pc' = "send_req" => serial' > 0)
        /\ UNCHANGED log /\ (Serving' => (Serving /\ UNCHANGED dreq))
        /\ (UNCHANGED outp \/ outp' = << >> \/ (outp # << >> /\ outp' = Tail(outp)))
    BY <1>1, <2>1, OrderTypes DEF OrderInv, Serving
  <2> QED
    BY <2>2, OrderKept
<1> QED
  BY <1>3, <1>4

\* What the device executes is younger than all it has executed.
LEMMA OrderExecute ==
    ASSUME TypeInv, OrderInv, DeviceExecute
    PROVE  OrderInv'
<1> DEFINE e == [from |-> dreq.from, cmd |-> dreq.cmd, data |-> dbuf]
<1>1. /\ log' = Append(log, e) /\ Serving /\ ~Serving' /\ e.from = dreq.from
      /\ UNCHANGED <<pc, serial, outp>> /\ Sent' = Sent
  BY DEF DeviceExecute, Serving, Sent, hostVars
<1> HIDE DEF e
<1>2. /\ DOMAIN log' = 1..(Len(log) + 1) /\ DOMAIN log = 1..Len(log) /\ Len(log) \in Nat
      /\ \A k \in DOMAIN log : log'[k] = log[k]
      /\ log'[Len(log) + 1] = e
  BY <1>1, SeqElement DEF TypeInv, TypeOK
<1>3. \A k \in DOMAIN log' : \/ k \in DOMAIN log /\ log'[k] = log[k]
                             \/ k = Len(log) + 1 /\ log'[k] = e
  BY <1>2
<1>4. \A k \in DOMAIN log' : log'[k].from =< Sent'
  BY <1>1, <1>3 DEF OrderInv
<1>5. \A k \in DOMAIN log' : \A i \in DOMAIN outp : outp[i].kind = "req" => log'[k].from < outp[i].from
  BY <1>1, <1>3 DEF OrderInv
<1>6. ExecutedInOrder'
  <2> SUFFICES ASSUME NEW i \in DOMAIN log', NEW j \in DOMAIN log', i < j
               PROVE  log'[i].from < log'[j].from
    BY DEF ExecutedInOrder
  <2>1. i \in DOMAIN log /\ log'[i] = log[i]
    BY <1>2
  <2> QED
    BY <1>1, <1>3, <2>1 DEF OrderInv, ExecutedInOrder
<1> QED
  BY <1>1, <1>4, <1>5, <1>6 DEF OrderInv

\* Every action keeps the order.
LEMMA OrderStep == TypeInv /\ TypeInv' /\ OrderInv /\ [Next]_vars => OrderInv'
<1> SUFFICES ASSUME TypeInv, TypeInv', OrderInv, [Next]_vars PROVE OrderInv'
  OBVIOUS
<1>1. ASSUME /\ serial' = serial \/ (serial' = serial + 1 /\ pc = "idle")
             /\ pc' = "send_req" => pc = "send_req" \/ serial' = serial + 1
             /\ log' = log
             /\ Serving' => Serving /\ dreq' = dreq
             /\ outp' = outp \/ outp' = << >> \/ (outp # << >> /\ outp' = Tail(outp))
      PROVE  OrderInv'
  <2>1. Sent' \in Int /\ Sent' >= Sent /\ (pc' = "send_req" => serial' > 0)
    BY <1>1, OrderTypes DEF Sent, OrderInv
  <2>2. /\ UNCHANGED log /\ (Serving' => (Serving /\ UNCHANGED dreq))
        /\ UNCHANGED outp \/ outp' = << >> \/ (outp # << >> /\ outp' = Tail(outp))
    BY <1>1
  <2> QED
    BY <2>1, <2>2, OrderKept
<1>2. ASSUME NEW c \in Commands, Issue(c) PROVE OrderInv'
  BY <1>1, <1>2 DEF Issue, deviceVars, Serving
<1>3. CASE SendPacket
  BY <1>3, OrderSend
<1>4. CASE RecvPacket
  <2>1. pc' # "send_req"
    BY <1>4, NextPhaseType DEF RecvPacket, Return, Busy
  <2> QED
    BY <1>1, <1>4, <2>1 DEF RecvPacket, deviceVars, Serving
<1>5. CASE RecvOverflow
  BY <1>1, <1>5 DEF RecvOverflow, Return, deviceVars, Serving
<1>6. CASE TransferError
  BY <1>1, <1>6 DEF TransferError, Return, deviceVars, Serving
<1>7. CASE BusReset
  BY <1>1, <1>7 DEF BusReset, FlushDevice, deviceVars, Serving
<1>8. CASE NewProcess
  BY <1>1, <1>8 DEF NewProcess, deviceVars, Serving
<1>9. CASE DeviceTakeRequest
  BY <1>9, OrderTake
<1>10. CASE DeviceTakeData
  BY <1>1, <1>10 DEF DeviceTakeData, hostVars, Serving
<1>11. CASE DeviceExecute
  BY <1>11, OrderExecute
<1>12. CASE DeviceSendData
  BY <1>1, <1>12 DEF DeviceSendData, hostVars, Serving
<1>13. CASE DeviceSendResponse
  BY <1>1, <1>13 DEF DeviceSendResponse, hostVars, Serving
<1>14. CASE DeviceRestart
  BY <1>1, <1>14 DEF DeviceRestart, FlushDevice, Serving
<1>15. CASE UNCHANGED vars
  BY <1>1, <1>15 DEF vars, hostVars, deviceVars, Serving
<1> QED
  BY <1>2, <1>3, <1>4, <1>5, <1>6, <1>7, <1>8, <1>9, <1>10, <1>11, <1>12, <1>13, <1>14, <1>15
     DEF Next, HostStep, DeviceStep

\* For every device, every command mix and any number of processes: no request
\* is executed twice and none overtakes another one.
THEOREM ExecutionOrder == Spec => []ExecutedInOrder
<1>1. OrderInv => ExecutedInOrder
  BY DEF OrderInv
<1> QED
  BY TypeInit, TypeStep, OrderInit, OrderStep, <1>1, PTL DEF Spec

-----------------------------------------------------------------------------
\* --- the two directions as streams ----------------------------------------------

\* While no command has failed, the two sides stay in step.  Both directions are
\* seen as streams of bytes: on OUT the request lies before byte 0 and the data
\* from 0 on, on IN the data lies from 0 on and the response behind it.  Then an
\* endpoint holds exactly the bytes between where its reader and where its
\* writer is.

LenIn(c)  == IF c.dir = "in"  THEN c.len ELSE 0
LenOut(c) == IF c.dir = "out" THEN c.len ELSE 0

\* Where a packet begins in its stream, and where it ends.
Pos(p) == CASE p.kind = "req"  -> -RequestLen
            [] p.kind = "data" -> p.off
            [] p.kind = "res"  -> LenIn(p.cmd)
End(p) == Pos(p) + p.size

\* The packets of q follow each other from byte a to byte b.
Chain(q, a, b) ==
    IF q = << >> THEN a = b
    ELSE /\ Pos(q[1]) = a /\ End(q[Len(q)]) = b
         /\ \A i \in 1..Len(q) - 1 : Pos(q[i + 1]) = End(q[i])

\* Packets of the transaction of the host.
OutPacket(p) ==
    /\ p.from = serial /\ p.tag = tag /\ p.cmd = cmd /\ p.size > 0
    /\ \/ p.kind = "req" /\ p.size = RequestLen
       \/ p.kind = "data" /\ p.off + p.size =< LenOut(cmd)

InPacket(p) ==
    /\ p.from = serial /\ p.tag = tag /\ p.cmd = cmd /\ p.size > 0
    /\ \/ p.kind = "data" /\ p.off + p.size =< LenIn(cmd)
       \/ p.kind = "res" /\ p.size = ResponseLen /\ p.off = 0

\* Where the host writes OUT and reads IN.
HostSent == IF pc = "send_data" THEN cmd.len - left ELSE LenOut(cmd)
HostGot  == CASE pc = "send_data" -> 0
              [] pc = "recv_data" -> cmd.len - left
              [] OTHER -> LenIn(cmd)

\* Nothing on the way, and the device waits for a request.
Quiet == outp = << >> /\ inp = << >> /\ dphase = "cmd"

\* The device has not answered yet: it reads OUT at `taken', writes IN at `given'.
Between(taken, given) == Chain(outp, taken, HostSent) /\ Chain(inp, HostGot, given)

ServesHost == dreq.from = serial /\ dreq.tag = tag /\ dreq.cmd = cmd

\* The device's side of a transaction, phase by phase.
DeviceInStep ==
    CASE dphase = "cmd"    -> \/ Between(-RequestLen, 0)
                              \/ Between(LenOut(cmd), LenIn(cmd) + ResponseLen)
      [] dphase = "recv"   -> /\ ServesHost /\ cmd.dir = "out" /\ dleft > 0
                              /\ Between(cmd.len - dleft, 0)
                              /\ InPlace(dbuf, "data", serial) /\ Gapless(dbuf, cmd.len - dleft)
      [] dphase = "exec"   -> /\ ServesHost /\ Between(LenOut(cmd), 0)
                              /\ cmd.dir = "in" => dleft = cmd.len
                              /\ InPlace(dbuf, "data", serial) /\ Gapless(dbuf, LenOut(cmd))
      [] dphase = "send"   -> /\ ServesHost /\ cmd.dir = "in" /\ dleft > 0
                              /\ Between(LenOut(cmd), cmd.len - dleft)
      [] dphase = "status" -> ServesHost /\ Between(LenOut(cmd), LenIn(cmd))

\* The host's side.
HostInStep ==
    /\ InPlace(buf, "data", serial)
    /\ cmd.dir = "in" => Gapless(buf, HostGot)
    /\ res = {} /\ (pc = "recv_res" => left = ResponseLen)

OutOwn == \A i \in DOMAIN outp : OutPacket(outp[i])
InOwn  == \A i \in DOMAIN inp : InPacket(inp[i])

InStep == OutOwn /\ InOwn /\ DeviceInStep /\ HostInStep

\* No command has failed and the handle reaches the device.
Sound == fails = 0 /\ ~gone

ChannelInv ==
    /\ gone => Quiet
    /\ Sound /\ pc = "idle" => Quiet
    /\ Sound /\ pc = "send_req" => Quiet /\ buf = {} /\ res = {}
    /\ Sound /\ Busy /\ pc # "send_req" => InStep
    /\ ret = "true" => pc = "idle"
    /\ OwnAnswer

-----------------------------------------------------------------------------
\* Positions are integers.
LEMMA PosType ==
    ASSUME NEW p \in Packet
    PROVE  Pos(p) \in Int /\ End(p) \in Int /\ End(p) = Pos(p) + p.size /\ p.size \in Nat
<1>1. p.off \in Nat /\ p.size \in Nat /\ p.cmd \in Commands /\ p.kind \in {"req", "data", "res"}
  BY DEF Packet
<1>2. LenIn(p.cmd) \in Nat
  BY <1>1, CommandsAssumption DEF LenIn, IsCommand
<1>3. -RequestLen \in Int
  BY DEF RequestLen
<1> HIDE DEF Packet
<1>4. Pos(p) \in Int
  BY <1>1, <1>2, <1>3 DEF Pos
<1> QED
  BY <1>1, <1>4 DEF End

\* A sequence of length 0 is the empty one.
LEMMA EmptyQueue ==
    ASSUME NEW S, NEW q \in Seq(S), Len(q) = 0
    PROVE  q = << >>
OBVIOUS

\* A packet that begins where the stream ends prolongs it.
LEMMA ChainAppend ==
    ASSUME NEW q \in Seq(Packet), NEW p \in Packet, NEW a \in Int, NEW b \in Int,
           Chain(q, a, b), Pos(p) = b
    PROVE  Chain(Append(q, p), a, End(p))
<1> DEFINE r == Append(q, p)
<1>1. r \in Seq(Packet) /\ Len(r) = Len(q) + 1 /\ Len(q) \in Nat /\ r # << >>
      /\ DOMAIN q = 1..Len(q) /\ (\A i \in DOMAIN q : r[i] = q[i]) /\ r[Len(q) + 1] = p
  BY AppendElement, SeqElement
<1> HIDE DEF r
<1>2. CASE q = << >>
  BY <1>1, <1>2 DEF Chain
<1>3. CASE q # << >>
  <2>1. /\ Pos(q[1]) = a /\ End(q[Len(q)]) = b /\ Len(q) >= 1
        /\ \A i \in 1..Len(q) - 1 : Pos(q[i + 1]) = End(q[i])
    BY <1>3 DEF Chain
  <2>2. Pos(r[1]) = a /\ End(r[Len(r)]) = End(p)
    BY <1>1, <2>1
  <2>3. ASSUME NEW i \in 1..Len(r) - 1 PROVE Pos(r[i + 1]) = End(r[i])
    <3>1. CASE i = Len(q)
      BY <1>1, <2>1, <3>1
    <3>2. CASE i # Len(q)
      <4>1. Len(r) - 1 = Len(q) /\ Len(q) \in Nat
        BY <1>1
      <4>2. i \in 1..Len(q) - 1
        BY <2>3, <3>2, <4>1
      <4>3. i \in DOMAIN q /\ i + 1 \in DOMAIN q
        BY <1>1, <4>2
      <4> QED
        BY <1>1, <2>1, <4>2, <4>3
    <3> QED
      BY <3>1, <3>2
  <2> QED
    BY <1>1, <2>2, <2>3 DEF Chain
<1> QED
  BY <1>2, <1>3 DEF r

\* Taking the first packet moves the reader to its end.
LEMMA ChainTail ==
    ASSUME NEW q \in Seq(Packet), q # << >>, NEW a, NEW b, Chain(q, a, b)
    PROVE  Pos(Head(q)) = a /\ Chain(Tail(q), End(Head(q)), b)
<1>1. /\ Tail(q) \in Seq(Packet) /\ Head(q) = q[1] /\ Len(Tail(q)) = Len(q) - 1
      /\ Len(q) \in Nat \ {0} /\ DOMAIN Tail(q) = 1..Len(Tail(q))
      /\ \A i \in DOMAIN Tail(q) : Tail(q)[i] = q[i + 1]
  BY TailElement, SeqElement
<1>2. /\ Pos(q[1]) = a /\ End(q[Len(q)]) = b
      /\ \A i \in 1..Len(q) - 1 : Pos(q[i + 1]) = End(q[i])
  BY DEF Chain
<1>3. CASE Len(q) = 1
  <2>1. Len(Tail(q)) = 0
    BY <1>1, <1>3
  <2>2. Tail(q) = << >>
    BY <1>1, <2>1, EmptyQueue
  <2> QED
    BY <1>1, <1>2, <1>3, <2>2 DEF Chain
<1>4. CASE Len(q) # 1
  <2>1. Tail(q) # << >> /\ 1 \in DOMAIN Tail(q) /\ Len(Tail(q)) \in DOMAIN Tail(q)
    BY <1>1, <1>4
  <2>2. Pos(Tail(q)[1]) = End(Head(q)) /\ End(Tail(q)[Len(Tail(q))]) = b
    BY <1>1, <1>2, <1>4, <2>1
  <2>3. ASSUME NEW i \in 1..Len(Tail(q)) - 1 PROVE Pos(Tail(q)[i + 1]) = End(Tail(q)[i])
    <3>1. i \in DOMAIN Tail(q) /\ i + 1 \in DOMAIN Tail(q) /\ i + 1 \in 1..Len(q) - 1
      BY <1>1
    <3> QED
      BY <1>1, <1>2, <3>1
  <2> QED
    BY <1>1, <1>2, <2>1, <2>2, <2>3 DEF Chain
<1> QED
  BY <1>3, <1>4

\* The lengths of the two streams.
LEMMA StreamLengths ==
    ASSUME NEW c \in Commands
    PROVE  /\ c.len \in Nat /\ LenIn(c) \in Nat /\ LenOut(c) \in Nat /\ c.dir \in Directions
           /\ c.dir = "in" => LenIn(c) = c.len /\ LenOut(c) = 0 /\ c.len > 0
           /\ c.dir = "out" => LenOut(c) = c.len /\ LenIn(c) = 0 /\ c.len > 0
           /\ c.dir = "none" => LenIn(c) = 0 /\ LenOut(c) = 0 /\ c.len = 0
BY CommandsAssumption DEF LenIn, LenOut, IsCommand, Directions

\* What TypeInv says about the variables that the streams are made of.
LEMMA ChannelTypes ==
    ASSUME TypeInv
    PROVE  /\ outp \in Seq(Packet) /\ inp \in Seq(Packet) /\ cmd \in Commands
           /\ serial \in Nat /\ tag \in Nat /\ left \in Nat /\ dleft \in Nat /\ fails \in Nat
           /\ pc = "send_data" => left \in 1..cmd.len /\ cmd.dir = "out"
           /\ pc = "recv_data" => left \in 1..cmd.len /\ cmd.dir = "in"
           /\ pc = "recv_res" => left \in 1..ResponseLen
           /\ pc = "send_req" => left = RequestLen
BY DEF TypeInv, TypeOK, PhaseOK, Busy, LengthOf

\* No byte of OUT lies behind its data: a reader that has it all finds nothing.
LEMMA OutDrained ==
    ASSUME TypeInv, OutOwn,
           NEW b, Chain(outp, LenOut(cmd), b)
    PROVE  outp = << >> /\ b = LenOut(cmd)
<1>1. outp \in Seq(Packet) /\ LenOut(cmd) \in Nat
  BY ChannelTypes, StreamLengths
<1>2. CASE outp # << >>
  <2>1. outp[1] \in Packet /\ OutPacket(outp[1]) /\ Pos(outp[1]) = LenOut(cmd)
    BY <1>1, <1>2, TailElement DEF Chain, OutOwn
  <2>2. outp[1].off \in Nat /\ outp[1].size \in Nat
    BY <2>1 DEF Packet
  <2> QED
    BY <1>1, <2>1, <2>2 DEF OutPacket, Pos, RequestLen
<1> QED
  BY <1>2 DEF Chain

\* No packet of IN begins behind the response, and none ends at byte 0.
LEMMA InBounds ==
    ASSUME TypeInv, NEW p \in Packet, InPacket(p)
    PROVE  Pos(p) =< LenIn(cmd) /\ Pos(p) < LenIn(cmd) + ResponseLen /\ End(p) > 0
<1>1. LenIn(cmd) \in Nat
  BY ChannelTypes, StreamLengths
<1>2. p.off \in Nat /\ p.size \in Nat
  BY DEF Packet
<1> QED
  BY <1>1, <1>2 DEF InPacket, Pos, End, ResponseLen

\* The packet that the host is about to send carries on where it is.
LEMMA SentPos ==
    ASSUME TypeInv, SendPacket
    PROVE  /\ NextPacket \in Packet /\ OutPacket(NextPacket)
           /\ pc = "send_req" => Pos(NextPacket) = -RequestLen /\ End(NextPacket) = 0
           /\ pc = "send_data" => Pos(NextPacket) = HostSent /\ End(NextPacket) = cmd.len - (left - NextPacket.size)
<1>1. NextPacket \in Packet /\ NextPacket.size =< left /\ NextPacket.size \in Nat \ {0}
  BY SentPacketType
<1>2. CASE pc = "send_req"
  BY <1>1, <1>2 DEF NextPacket, ReqPacket, OutPacket, Pos, End, RequestLen
<1>3. CASE pc = "send_data"
  <2>1. left \in 1..cmd.len /\ cmd.dir = "out" /\ cmd.len \in Nat /\ LenOut(cmd) = cmd.len
    BY <1>3, ChannelTypes, StreamLengths
  <2>2. /\ NextPacket.from = serial /\ NextPacket.tag = tag /\ NextPacket.cmd = cmd
        /\ NextPacket.kind = "data" /\ NextPacket.off = cmd.len - left
    BY <1>3 DEF NextPacket, DataPacket
  <2> HIDE DEF NextPacket
  <2> QED
    BY <1>1, <1>3, <2>1, <2>2 DEF OutPacket, Pos, End, HostSent
<1> QED
  BY <1>2, <1>3 DEF SendPacket

-----------------------------------------------------------------------------
\* The host sends.

\* After a send the host writes OUT where the packet ended, and has read nothing.
LEMMA SentMoves ==
    ASSUME TypeInv, SendPacket
    PROVE  /\ HostSent' = End(NextPacket) /\ HostGot' = 0
           /\ pc' \in {"send_data", "recv_data", "recv_res"}
           /\ pc' = "recv_res" => left' = ResponseLen
           /\ pc = "send_data" => HostGot = 0
<1> DEFINE p == NextPacket
<1>1. /\ cmd' = cmd /\ pc \in {"send_req", "send_data"}
      /\ left = p.size => NextPhase
      /\ left # p.size => left' = left - p.size /\ pc' = pc
  BY DEF SendPacket, NextPacket
<1>2. p.size \in Nat \ {0} /\ (pc = "send_req" => p.size = left)
  BY SentPacketType
<1>3. /\ pc = "send_req" => End(p) = 0
      /\ pc = "send_data" => End(p) = cmd.len - (left - p.size)
  BY SentPos
<1> HIDE DEF p
<1>4. CASE pc = "send_req"
  <2>1. NextPhase
    BY <1>1, <1>2, <1>4
  <2>2. CASE cmd.dir = "out"
    BY <1>1, <1>3, <1>4, <2>1, <2>2, ChannelTypes, StreamLengths
       DEF NextPhase, After, LengthOf, HostSent, HostGot, p
  <2>3. CASE cmd.dir = "in"
    BY <1>1, <1>3, <1>4, <2>1, <2>3, ChannelTypes, StreamLengths
       DEF NextPhase, After, LengthOf, HostSent, HostGot, p
  <2>4. CASE cmd.dir = "none"
    BY <1>1, <1>3, <1>4, <2>1, <2>4, ChannelTypes, StreamLengths
       DEF NextPhase, After, LengthOf, HostSent, HostGot, p
  <2> QED
    BY <2>2, <2>3, <2>4, ChannelTypes, StreamLengths DEF Directions
<1>5. CASE pc = "send_data"
  <2>1. cmd.dir = "out" /\ left \in Nat /\ cmd.len \in Nat /\ LenOut(cmd) = cmd.len /\ LenIn(cmd) = 0
    BY <1>5, ChannelTypes, StreamLengths
  <2>2. CASE left = p.size
    <3>1. pc' = "recv_res" /\ left' = ResponseLen
      BY <1>1, <1>5, <2>2 DEF NextPhase, After, LengthOf
    <3>2. HostSent' = LenOut(cmd) /\ HostGot' = LenIn(cmd) /\ HostGot = 0
      BY <1>1, <1>5, <3>1 DEF HostSent, HostGot
    <3> QED
      BY <1>2, <1>3, <1>5, <2>1, <2>2, <3>1, <3>2 DEF p
  <2>3. CASE left # p.size
    <3>1. pc' = "send_data" /\ left' = left - p.size
      BY <1>1, <1>5, <2>3
    <3>2. HostSent' = cmd.len - left' /\ HostGot' = 0 /\ HostGot = 0
      BY <1>1, <1>5, <3>1 DEF HostSent, HostGot
    <3> QED
      BY <1>2, <1>3, <1>5, <2>1, <3>1, <3>2 DEF p
  <2> QED
    BY <2>2, <2>3
<1> QED
  BY <1>1, <1>4, <1>5

\* OUT grows by the packet, and every other part of the step stays.
LEMMA SendInStep ==
    ASSUME TypeInv, ChannelInv, SendPacket, Sound
    PROVE  InStep'
<1> DEFINE p == NextPacket
<1>1. /\ outp' = Append(outp, p) /\ pc \in {"send_req", "send_data"}
      /\ UNCHANGED <<cmd, serial, tag, buf, res, inp, dphase, dreq, dleft, dbuf>>
  BY DEF SendPacket, NextPacket, deviceVars
<1>2. /\ p \in Packet /\ OutPacket(p)
      /\ pc = "send_req" => Pos(p) = -RequestLen
      /\ pc = "send_data" => Pos(p) = HostSent
  BY SentPos
<1>3. /\ HostSent' = End(p) /\ HostGot' = 0 /\ (pc = "send_data" => HostGot = 0)
      /\ pc' \in {"send_data", "recv_data", "recv_res"} /\ (pc' = "recv_res" => left' = ResponseLen)
  BY SentMoves
<1>4. outp \in Seq(Packet) /\ cmd \in Commands /\ serial \in Nat
  BY ChannelTypes
<1> HIDE DEF p
<1>5. CASE pc = "send_req"
  <2>1. outp = << >> /\ inp = << >> /\ dphase = "cmd" /\ buf = {} /\ res = {}
    BY <1>5 DEF ChannelInv, Quiet
  <2>2. Chain(outp', -RequestLen, HostSent') /\ Chain(inp', HostGot', 0)
    <3>1. Chain(outp, -RequestLen, -RequestLen) /\ -RequestLen \in Int
      BY <2>1 DEF Chain, RequestLen
    <3>2. Chain(inp', 0, 0)
      BY <1>1, <2>1 DEF Chain
    <3> QED
      BY <1>1, <1>2, <1>3, <1>4, <1>5, <3>1, <3>2, ChainAppend
  <2>3. DeviceInStep'
    BY <1>1, <2>1, <2>2 DEF DeviceInStep, Between
  <2>4. HostInStep'
    BY <1>1, <1>3, <2>1 DEF HostInStep, InPlace, Gapless
  <2>5. \A i \in DOMAIN outp' : OutPacket(outp'[i])
    <3>1. outp' = <<p>>
      BY <1>1, <2>1
    <3> QED
      BY <1>2, <3>1
  <2>6. OutOwn' /\ InOwn'
    BY <1>1, <2>1, <2>5 DEF OutOwn, InOwn, OutPacket
  <2> QED
    BY <2>3, <2>4, <2>6 DEF InStep
<1>6. CASE pc = "send_data"
  <2>1. InStep
    BY <1>6 DEF ChannelInv, Busy, Sound
  <2>2. HostSent \in Int /\ HostSent # LenOut(cmd)
    BY <1>6, ChannelTypes, StreamLengths DEF HostSent
  <2>3. \A taken \in Int : Chain(outp, taken, HostSent) => Chain(outp', taken, HostSent')
    BY <1>1, <1>2, <1>3, <1>4, <1>6, <2>2, ChainAppend
  <2>4. \A taken \in Int : \A given : Between(taken, given) => Between(taken, given)'
    BY <1>1, <1>3, <1>6, <2>3 DEF Between
  <2>5. \A given : ~Between(LenOut(cmd), given)
    BY <2>1, <2>2, OutDrained DEF Between, InStep
  <2>6. ASSUME dphase = "cmd" PROVE DeviceInStep'
    <3>1. Between(-RequestLen, 0)
      BY <2>1, <2>5, <2>6 DEF InStep, DeviceInStep
    <3>2. Between(-RequestLen, 0)'
      BY <2>4, <3>1 DEF RequestLen
    <3> QED
      BY <1>1, <2>6, <3>2 DEF DeviceInStep
  <2>7. ASSUME dphase = "recv" PROVE DeviceInStep'
    <3>1. /\ ServesHost /\ cmd.dir = "out" /\ dleft > 0 /\ Between(cmd.len - dleft, 0)
          /\ InPlace(dbuf, "data", serial) /\ Gapless(dbuf, cmd.len - dleft)
      BY <2>1, <2>7 DEF InStep, DeviceInStep
    <3>2. cmd.len - dleft \in Int
      BY <1>4, ChannelTypes, StreamLengths
    <3>3. Between(cmd.len - dleft, 0)'
      BY <1>1, <2>4, <3>1, <3>2
    <3> QED
      BY <1>1, <2>7, <3>1, <3>3 DEF DeviceInStep, ServesHost, InPlace, Gapless
  <2>8. dphase \in {"cmd", "recv"}
    BY <2>1, <2>5 DEF InStep, DeviceInStep, TypeInv, TypeOK
  <2>9. HostInStep'
    BY <1>1, <1>3, <1>6, <2>1 DEF InStep, HostInStep, InPlace, Gapless
  <2>10. \A i \in DOMAIN outp' : OutPacket(outp'[i])
    <3>1. /\ DOMAIN outp = 1..Len(outp) /\ Len(outp) \in Nat /\ DOMAIN outp' = 1..Len(outp) + 1
          /\ (\A i \in DOMAIN outp : outp'[i] = outp[i]) /\ outp'[Len(outp) + 1] = p
      BY <1>1, <1>2, <1>4, SeqElement, AppendElement
    <3>2. \A i \in DOMAIN outp' : i \in DOMAIN outp \/ i = Len(outp) + 1
      BY <3>1
    <3> QED
      BY <1>2, <2>1, <3>1, <3>2 DEF InStep, OutOwn
  <2>11. OutOwn'
    BY <1>1, <2>10 DEF OutOwn, OutPacket
  <2>12. InOwn'
    BY <1>1, <2>1 DEF InStep, InOwn, InPacket
  <2> QED
    BY <2>6, <2>7, <2>8, <2>9, <2>11, <2>12 DEF InStep
<1> QED
  BY <1>1, <1>5, <1>6

-----------------------------------------------------------------------------
\* The host receives.

\* The first packet of IN is the one the host waits for: data of its command as
\* long as data is missing, and then its response.
LEMMA FirstIsExpected ==
    ASSUME TypeInv, InStep, pc \in {"recv_data", "recv_res"}, inp # << >>
    PROVE  /\ Head(inp) \in Packet /\ InPacket(Head(inp)) /\ Pos(Head(inp)) = HostGot
           /\ pc = "recv_data" => /\ Head(inp).kind = "data" /\ Head(inp).off = cmd.len - left
                                  /\ End(Head(inp)) = cmd.len - (left - Head(inp).size)
           /\ pc = "recv_res" => /\ Head(inp).kind = "res" /\ Head(inp).size = left
                                 /\ Head(inp).off = 0 /\ End(Head(inp)) = LenIn(cmd) + ResponseLen
<1>1. inp \in Seq(Packet) /\ Head(inp) = inp[1] /\ Head(inp) \in Packet /\ 1 \in DOMAIN inp
  BY ChannelTypes, TailElement
<1>2. InPacket(Head(inp))
  BY <1>1 DEF InStep, InOwn
<1>3. Pos(Head(inp)) = HostGot
  <2>1. \E given : Chain(inp, HostGot, given)
    BY DEF InStep, DeviceInStep, Between, TypeInv, TypeOK
  <2> QED
    BY <1>1, <2>1, ChainTail
<1>4. Head(inp).off \in Nat /\ Head(inp).size \in Nat
  BY <1>1 DEF Packet
<1> DEFINE h == Head(inp)
<1> HIDE DEF h
<1>5. CASE pc = "recv_data"
  <2>1. left \in Nat /\ left > 0 /\ cmd.len \in Nat /\ LenIn(cmd) = cmd.len /\ HostGot = cmd.len - left
    BY <1>5, ChannelTypes, StreamLengths DEF HostGot
  <2>2. h.kind = "data"
    BY <1>2, <1>3, <1>5, <2>1 DEF InPacket, Pos, h
  <2>3. h.off = cmd.len - left
    BY <1>3, <2>1, <2>2 DEF Pos, h
  <2>4. End(h) = cmd.len - (left - h.size)
    BY <1>3, <1>4, <2>1 DEF End, h
  <2> QED
    BY <1>1, <1>2, <1>3, <1>5, <2>2, <2>3, <2>4 DEF h
<1>6. CASE pc = "recv_res"
  <2>1. HostGot = LenIn(cmd) /\ left = ResponseLen /\ LenIn(cmd) \in Nat
    BY <1>6, ChannelTypes, StreamLengths DEF HostGot, InStep, HostInStep
  <2>2. h.kind = "res"
    BY <1>2, <1>3, <1>4, <2>1 DEF InPacket, Pos, h
  <2>3. h.size = ResponseLen /\ h.off = 0
    BY <1>2, <2>2 DEF InPacket, h
  <2> QED
    BY <1>1, <1>2, <1>3, <1>6, <2>1, <2>2, <2>3 DEF End, h
<1> QED
  BY <1>5, <1>6

\* Whoever reads IN takes its first packet; what remains are the host's own packets.
LEMMA InTaken ==
    ASSUME TypeInv, InStep, inp # << >>, NEW given, Chain(inp, HostGot, given)
    PROVE  Chain(Tail(inp), End(Head(inp)), given) /\ \A i \in DOMAIN Tail(inp) : InPacket(Tail(inp)[i])
<1>1. inp \in Seq(Packet)
  BY ChannelTypes
<1> QED
  BY <1>1, ChainTail, TailElement DEF InStep, InOwn

\* A data packet lands at its offset, and the buffer has no gap up to its end.
LEMMA DataReceived ==
    ASSUME TypeInv, InStep, RecvPacket, pc = "recv_data"
    PROVE  /\ InPlace(buf', "data", serial) /\ Gapless(buf', End(Head(inp)))
           /\ End(Head(inp)) = cmd.len - (left - Head(inp).size) /\ res' = {}
<1> DEFINE h == Head(inp)
<1>1. /\ h.kind = "data" /\ h.from = serial /\ h.off = cmd.len - left
      /\ End(h) = cmd.len - (left - h.size) /\ h \in Packet
  BY FirstIsExpected DEF RecvPacket, InPacket
<1>2. left \in Nat /\ cmd.len \in Nat /\ cmd.dir = "in" /\ HostGot = cmd.len - left
  BY ChannelTypes, StreamLengths DEF HostGot
<1>3. h.size \in Nat /\ h.off \in Nat
  BY <1>1 DEF Packet
<1>4. buf' = buf \cup {[at |-> cmd.len - left, pkt |-> h]} /\ res' = res
  BY DEF RecvPacket, LengthOf
<1> HIDE DEF h
<1>5. InPlace(buf, "data", serial) /\ Gapless(buf, cmd.len - left) /\ res = {}
  BY <1>2 DEF InStep, HostInStep
<1>6. InPlace(buf', "data", serial)
  BY <1>1, <1>4, <1>5 DEF InPlace
<1>7. Gapless(buf', End(h))
  <2> SUFFICES ASSUME NEW k \in 0..End(h) - 1
               PROVE  \E r \in buf' : r.at =< k /\ k < r.at + r.pkt.size
    BY DEF Gapless
  <2>1. CASE k < cmd.len - left
    <3>1. k \in 0..(cmd.len - left) - 1
      BY <1>2, <2>1
    <3> QED
      BY <1>4, <1>5, <3>1 DEF Gapless
  <2>2. CASE k >= cmd.len - left
    <3> DEFINE r == [at |-> cmd.len - left, pkt |-> h]
    <3>1. r \in buf' /\ r.at = cmd.len - left /\ r.pkt.size = h.size
      BY <1>4
    <3>2. k < (cmd.len - left) + h.size
      BY <1>1, <1>2, <1>3
    <3> QED
      BY <2>2, <3>1, <3>2
  <2> QED
    BY <1>2, <2>1, <2>2
<1> QED
  BY <1>1, <1>4, <1>5, <1>6, <1>7 DEF h

\* The device is somewhere in both streams, and behind the data of IN only when it
\* has answered.
LEMMA ReadsBehind ==
    ASSUME TypeInv, DeviceInStep
    PROVE  \E taken, given : /\ Between(taken, given)
                             /\ given > LenIn(cmd) => taken = LenOut(cmd) /\ dphase = "cmd"
<1>1. /\ LenIn(cmd) \in Nat /\ dleft \in Nat /\ cmd.len \in Nat
      /\ cmd.dir = "in" => LenIn(cmd) = cmd.len
  BY ChannelTypes, StreamLengths
<1>2. ~(0 > LenIn(cmd)) /\ ~(LenIn(cmd) > LenIn(cmd)) /\ (cmd.dir = "in" => ~(cmd.len - dleft > LenIn(cmd)))
  BY <1>1
<1>3. CASE dphase = "cmd"
  BY <1>2, <1>3 DEF DeviceInStep
<1>4. CASE dphase = "recv"
  BY <1>2, <1>4 DEF DeviceInStep
<1>5. CASE dphase = "exec"
  BY <1>2, <1>5 DEF DeviceInStep
<1>6. CASE dphase = "send"
  BY <1>2, <1>6 DEF DeviceInStep
<1>7. CASE dphase = "status"
  BY <1>2, <1>7 DEF DeviceInStep
<1> QED
  BY <1>3, <1>4, <1>5, <1>6, <1>7 DEF TypeInv, TypeOK

\* A step of the host that keeps the device's place in both streams.
LEMMA DeviceUnmoved ==
    ASSUME TypeInv, DeviceInStep,
           UNCHANGED <<cmd, serial, tag, dphase, dreq, dleft, dbuf>>,
           \A taken, given : Between(taken, given) => Between(taken, given)'
    PROVE  DeviceInStep'
<1>1. CASE dphase = "cmd"
  BY <1>1 DEF DeviceInStep
<1>2. CASE dphase = "recv"
  BY <1>2 DEF DeviceInStep, ServesHost, InPlace, Gapless
<1>3. CASE dphase = "exec"
  BY <1>3 DEF DeviceInStep, ServesHost, InPlace, Gapless
<1>4. CASE dphase = "send"
  BY <1>4 DEF DeviceInStep, ServesHost
<1>5. CASE dphase = "status"
  BY <1>5 DEF DeviceInStep, ServesHost
<1> QED
  BY <1>1, <1>2, <1>3, <1>4, <1>5 DEF TypeInv, TypeOK

\* In the data phase the host moves on along IN.
LEMMA RecvInStep ==
    ASSUME TypeInv, ChannelInv, RecvPacket, Sound, pc = "recv_data"
    PROVE  InStep' /\ pc' \in {"recv_data", "recv_res"} /\ ret' = ret
<1> DEFINE h == Head(inp)
<1>1. InStep /\ inp # << >> /\ inp' = Tail(inp)
      /\ UNCHANGED <<cmd, serial, tag, outp, dphase, dreq, dleft, dbuf>>
  BY DEF ChannelInv, RecvPacket, Busy, Sound, deviceVars
<1>2. /\ InPlace(buf', "data", serial) /\ Gapless(buf', End(h))
      /\ End(h) = cmd.len - (left - h.size) /\ res' = {}
  BY <1>1, DataReceived
<1>3. left \in Nat /\ cmd.len \in Nat /\ cmd.dir = "in" /\ LenIn(cmd) = cmd.len /\ LenOut(cmd) = 0
  BY ChannelTypes, StreamLengths
<1>4. h.size \in Nat
  BY <1>1, FirstIsExpected DEF Packet
<1>5. /\ HostGot' = End(h) /\ HostSent' = HostSent
      /\ pc' \in {"recv_data", "recv_res"} /\ ret' = ret /\ (pc' = "recv_res" => left' = ResponseLen)
  <2>1. CASE left > h.size /\ left' = left - h.size /\ UNCHANGED <<pc, ret, fails>>
    BY <1>1, <1>2, <2>1 DEF HostGot, HostSent
  <2>2. CASE left = h.size /\ NextPhase
    <3>1. pc' = "recv_res" /\ ret' = ret /\ left' = ResponseLen
      BY <2>2 DEF NextPhase, After, LengthOf
    <3> QED
      BY <1>1, <1>2, <1>3, <1>4, <2>2, <3>1 DEF HostGot, HostSent
  <2> QED
    BY <2>1, <2>2 DEF RecvPacket
<1> HIDE DEF h
<1>6. OutOwn' /\ InOwn'
  <2>1. \A i \in DOMAIN Tail(inp) : InPacket(Tail(inp)[i])
    BY <1>1, ChannelTypes, TailElement DEF InStep, InOwn
  <2> QED
    BY <1>1, <2>1 DEF InStep, OutOwn, InOwn, OutPacket, InPacket
<1>7. \A taken, given : Between(taken, given) => Between(taken, given)'
  <2> SUFFICES ASSUME NEW taken, NEW given, Between(taken, given)
               PROVE  Chain(outp', taken, HostSent') /\ Chain(inp', HostGot', given)
    BY DEF Between
  <2>1. Chain(inp', HostGot', given)
    BY <1>1, <1>5, InTaken DEF Between, h
  <2> QED
    BY <1>1, <1>5, <2>1 DEF Between
<1>8. DeviceInStep'
  BY <1>1, <1>7, DeviceUnmoved DEF InStep
<1>9. HostInStep'
  BY <1>1, <1>2, <1>5 DEF HostInStep
<1> QED
  BY <1>5, <1>6, <1>8, <1>9 DEF InStep

\* The response is the last byte of IN: nothing is left behind, and it is right.
LEMMA RecvDone ==
    ASSUME TypeInv, ChannelInv, RecvPacket, Sound, pc = "recv_res"
    PROVE  pc' = "idle" /\ Quiet' /\ OwnAnswer'
<1> DEFINE h == Head(inp)
<1>1. InStep /\ inp # << >> /\ inp' = Tail(inp)
      /\ UNCHANGED <<cmd, serial, outp, dphase>>
  BY DEF ChannelInv, RecvPacket, Busy, Sound, deviceVars
<1>2. /\ h \in Packet /\ h.kind = "res" /\ h.from = serial /\ h.size = left /\ h.off = 0
      /\ End(h) = LenIn(cmd) + ResponseLen
  BY <1>1, FirstIsExpected DEF InPacket
<1>3. left = ResponseLen /\ res = {} /\ LenIn(cmd) \in Nat
  BY <1>1, ChannelTypes, StreamLengths DEF InStep, HostInStep
<1>4. buf' = buf /\ res' = {[at |-> 0, pkt |-> h]} /\ pc' = "idle"
  BY <1>2, <1>3 DEF RecvPacket, LengthOf, Return, ResponseLen
<1> HIDE DEF h
<1>5. PICK taken, given : Between(taken, given) /\ (given > LenIn(cmd) => taken = LenOut(cmd) /\ dphase = "cmd")
  BY <1>1, ReadsBehind DEF InStep
<1>6. inp' = << >> /\ given = LenIn(cmd) + ResponseLen
  <2>1. Tail(inp) \in Seq(Packet)
    BY <1>1, ChannelTypes, TailElement
  <2>2. Chain(Tail(inp), LenIn(cmd) + ResponseLen, given) /\ \A i \in DOMAIN Tail(inp) : InPacket(Tail(inp)[i])
    BY <1>1, <1>2, <1>5, InTaken DEF Between, h
  <2>3. Tail(inp) = << >>
    <3> SUFFICES ASSUME Tail(inp) # << >> PROVE FALSE
      OBVIOUS
    <3>1. Tail(inp)[1] \in Packet /\ InPacket(Tail(inp)[1]) /\ Pos(Tail(inp)[1]) = LenIn(cmd) + ResponseLen
      BY <2>1, <2>2, TailElement DEF Chain
    <3> QED
      BY <1>3, <3>1, InBounds DEF ResponseLen
  <2>4. given = LenIn(cmd) + ResponseLen
    BY <2>2, <2>3 DEF Chain
  <2> QED
    BY <1>1, <2>3, <2>4
<1>7. taken = LenOut(cmd) /\ dphase = "cmd"
  BY <1>3, <1>5, <1>6 DEF ResponseLen
<1>8. outp = << >>
  BY <1>1, <1>5, <1>7, OutDrained DEF Between, InStep
<1>9. Quiet'
  BY <1>1, <1>6, <1>7, <1>8 DEF Quiet
<1>10. InPlace(buf, "data", serial) /\ (cmd.dir = "in" => Gapless(buf, cmd.len))
  BY <1>1, ChannelTypes, StreamLengths DEF InStep, HostInStep, HostGot
<1>11. InPlace(res', "res", serial)
  BY <1>2, <1>4 DEF InPlace
<1>12. OwnAnswer'
  BY <1>1, <1>4, <1>10, <1>11 DEF OwnAnswer, InPlace, Gapless
<1> QED
  BY <1>4, <1>9, <1>12

-----------------------------------------------------------------------------
\* The device.

\* Its steps leave the host's side alone.
LEMMA HostUnmoved ==
    ASSUME UNCHANGED hostVars
    PROVE  /\ HostSent' = HostSent /\ HostGot' = HostGot /\ HostInStep' = HostInStep
           /\ UNCHANGED <<pc, cmd, serial, tag, left, buf, res, ret, gone, fails>>
BY DEF hostVars, HostSent, HostGot, HostInStep, InPlace, Gapless

\* Reading a packet from OUT: what remains is a chain from its end on.
LEMMA OutTaken ==
    ASSUME TypeInv, OutOwn, outp # << >>, UNCHANGED hostVars, outp' = Tail(outp),
           NEW taken, Chain(outp, taken, HostSent)
    PROVE  /\ Head(outp) \in Packet /\ OutPacket(Head(outp)) /\ Pos(Head(outp)) = taken
           /\ Chain(outp', End(Head(outp)), HostSent') /\ OutOwn'
<1>1. outp \in Seq(Packet)
  BY ChannelTypes
<1>2. Head(outp) \in Packet /\ OutPacket(Head(outp)) /\ Pos(Head(outp)) = taken
  BY <1>1, ChainTail, TailElement DEF OutOwn
<1>3. Chain(outp', End(Head(outp)), HostSent')
  BY <1>1, ChainTail, HostUnmoved
<1>4. OutOwn'
  <2>1. \A i \in DOMAIN outp' : OutPacket(outp'[i])
    BY <1>1, TailElement DEF OutOwn
  <2> QED
    BY <2>1, HostUnmoved DEF OutOwn, OutPacket
<1> QED
  BY <1>2, <1>3, <1>4

\* Writing a packet to IN where the device is prolongs the chain.
LEMMA InGiven ==
    ASSUME TypeInv, InOwn, UNCHANGED hostVars, NEW p \in Packet, InPacket(p), inp' = Append(inp, p),
           Chain(inp, HostGot, Pos(p))
    PROVE  Chain(inp', HostGot', End(p)) /\ InOwn'
<1>1. inp \in Seq(Packet) /\ HostGot \in Int
  BY ChannelTypes, StreamLengths DEF HostGot, TypeInv, TypeOK
<1>2. Chain(inp', HostGot', End(p))
  BY <1>1, PosType, ChainAppend, HostUnmoved
<1>3. InOwn'
  <2>1. /\ DOMAIN inp = 1..Len(inp) /\ Len(inp) \in Nat /\ DOMAIN inp' = 1..Len(inp) + 1
        /\ (\A i \in DOMAIN inp : inp'[i] = inp[i]) /\ inp'[Len(inp) + 1] = p
    BY <1>1, SeqElement, AppendElement
  <2>2. \A i \in DOMAIN inp' : i \in DOMAIN inp \/ i = Len(inp) + 1
    BY <2>1
  <2>3. \A i \in DOMAIN inp' : InPacket(inp'[i])
    BY <2>1, <2>2 DEF InOwn
  <2> QED
    BY <2>3, HostUnmoved DEF InOwn, InPacket
<1> QED
  BY <1>2, <1>3

\* The first packet on OUT is the host's request.
LEMMA TakeRequestInStep ==
    ASSUME TypeInv, InStep, DeviceTakeRequest
    PROVE  InStep'
<1> DEFINE h == Head(outp)
<1>1. outp # << >> /\ outp' = Tail(outp) /\ dphase = "cmd" /\ UNCHANGED <<hostVars, inp>>
  BY DEF DeviceTakeRequest
<1>2. OutOwn /\ InOwn /\ HostInStep /\ DeviceInStep
  BY DEF InStep
<1>3. Chain(outp, -RequestLen, HostSent) /\ Chain(inp, HostGot, 0)
  BY <1>1, <1>2, OutDrained DEF DeviceInStep, Between
<1>4. h \in Packet /\ OutPacket(h) /\ Pos(h) = -RequestLen /\ Chain(outp', End(h), HostSent') /\ OutOwn'
  BY <1>1, <1>2, <1>3, OutTaken
<1>5. h.kind = "req" /\ End(h) = 0 /\ h.from = serial /\ h.tag = tag /\ h.cmd = cmd
  <2>1. h.off \in Nat /\ h.size \in Nat
    BY <1>4 DEF Packet
  <2>2. h.kind = "req"
    BY <1>4, <2>1 DEF OutPacket, Pos, RequestLen
  <2> QED
    BY <1>4, <2>1, <2>2 DEF OutPacket, End, RequestLen
<1>6. /\ dreq' = h /\ dbuf' = {} /\ dleft' = cmd.len
      /\ dphase' = IF cmd.dir = "out" THEN "recv" ELSE "exec"
  BY <1>5 DEF DeviceTakeRequest
<1> HIDE DEF h
<1>7. ServesHost' /\ cmd' = cmd /\ serial' = serial
  BY <1>1, <1>5, <1>6, HostUnmoved DEF ServesHost
<1>8. Chain(outp', 0, HostSent') /\ Chain(inp', HostGot', 0)
  BY <1>1, <1>3, <1>4, <1>5, HostUnmoved
<1>9. InPlace(dbuf', "data", serial) /\ Gapless(dbuf', 0)
  BY <1>6 DEF InPlace, Gapless
<1>10. cmd.len \in Nat /\ cmd.len - cmd.len = 0 /\ (cmd.dir = "out" => cmd.len > 0)
       /\ (cmd.dir # "out" => LenOut(cmd) = 0)
  BY ChannelTypes, StreamLengths DEF LenOut
<1>11. DeviceInStep'
  <2>1. CASE cmd.dir = "out"
    BY <1>6, <1>7, <1>8, <1>9, <1>10, <2>1 DEF DeviceInStep, Between, InPlace, Gapless
  <2>2. CASE cmd.dir # "out"
    BY <1>6, <1>7, <1>8, <1>9, <1>10, <2>2 DEF DeviceInStep, Between, InPlace, Gapless, LenOut
  <2> QED
    BY <2>1, <2>2
<1>12. InOwn' /\ HostInStep'
  BY <1>1, <1>2, HostUnmoved DEF InOwn, InPacket
<1> QED
  BY <1>4, <1>11, <1>12 DEF InStep

\* The device takes the data in order, and the last byte ends the data phase.
LEMMA TakeDataInStep ==
    ASSUME TypeInv, InStep, DeviceTakeData
    PROVE  InStep'
<1> DEFINE h == Head(outp)
<1>1. outp # << >> /\ outp' = Tail(outp) /\ dphase = "recv" /\ UNCHANGED <<hostVars, inp, dreq>>
  BY DEF DeviceTakeData
<1>2. OutOwn /\ InOwn /\ HostInStep
  BY DEF InStep
<1>3. /\ ServesHost /\ cmd.dir = "out" /\ dleft > 0
      /\ Chain(outp, cmd.len - dleft, HostSent) /\ Chain(inp, HostGot, 0)
      /\ InPlace(dbuf, "data", serial) /\ Gapless(dbuf, cmd.len - dleft)
  BY <1>1 DEF InStep, DeviceInStep, Between
<1>4. /\ h \in Packet /\ OutPacket(h) /\ Pos(h) = cmd.len - dleft
      /\ Chain(outp', End(h), HostSent') /\ OutOwn'
  BY <1>1, <1>2, <1>3, OutTaken
<1>5. /\ cmd.len \in Nat /\ LenOut(cmd) = cmd.len /\ dleft \in Nat /\ dleft =< cmd.len
      /\ h.off \in Nat /\ h.size \in Nat
  BY <1>3, <1>4, ChannelTypes, StreamLengths DEF TypeInv, PhaseOK, ServesHost, Packet
<1>6. /\ h.kind = "data" /\ h.from = serial /\ h.off = cmd.len - dleft
      /\ h.size =< dleft /\ End(h) = cmd.len - (dleft - h.size)
  <2>1. h.kind = "data" /\ h.from = serial
    BY <1>4, <1>5 DEF OutPacket, Pos, RequestLen
  <2> QED
    BY <1>4, <1>5, <2>1 DEF OutPacket, Pos, End, RequestLen
<1>7. /\ dbuf' = dbuf \cup {[at |-> cmd.len - dleft, pkt |-> h]} /\ dleft' = dleft - h.size
      /\ dphase' = IF dleft' = 0 THEN "exec" ELSE "recv"
  BY <1>3, <1>5, <1>6 DEF DeviceTakeData, ServesHost, Least
<1> HIDE DEF h
<1>8. InPlace(dbuf', "data", serial)
  BY <1>3, <1>6, <1>7 DEF InPlace
<1>9. Gapless(dbuf', End(h))
  <2> SUFFICES ASSUME NEW k \in 0..End(h) - 1
               PROVE  \E r \in dbuf' : r.at =< k /\ k < r.at + r.pkt.size
    BY DEF Gapless
  <2>1. CASE k < cmd.len - dleft
    <3>1. k \in 0..(cmd.len - dleft) - 1
      BY <1>5, <2>1
    <3> QED
      BY <1>3, <1>7, <3>1 DEF Gapless
  <2>2. CASE k >= cmd.len - dleft
    <3> DEFINE r == [at |-> cmd.len - dleft, pkt |-> h]
    <3>1. r \in dbuf' /\ r.at = cmd.len - dleft /\ r.pkt.size = h.size
      BY <1>7
    <3>2. k < (cmd.len - dleft) + h.size
      BY <1>5, <1>6
    <3> QED
      BY <2>2, <3>1, <3>2
  <2> QED
    BY <1>5, <2>1, <2>2
<1>10. ServesHost' /\ cmd' = cmd /\ serial' = serial
  BY <1>1, <1>3, HostUnmoved DEF ServesHost
<1>11. Chain(outp', cmd.len - dleft', HostSent') /\ Chain(inp', HostGot', 0)
  BY <1>1, <1>3, <1>4, <1>6, <1>7, HostUnmoved
<1>12. DeviceInStep'
  <2>1. CASE dleft' = 0
    <3>1. cmd.len - dleft' = LenOut(cmd) /\ End(h) = LenOut(cmd) /\ dphase' = "exec"
      BY <1>5, <1>6, <1>7, <2>1
    <3>2. Gapless(dbuf', LenOut(cmd)) /\ Chain(outp', LenOut(cmd), HostSent')
      BY <1>9, <1>11, <3>1
    <3> QED
      BY <1>3, <1>8, <1>10, <1>11, <3>1, <3>2 DEF DeviceInStep, Between, InPlace, Gapless
  <2>2. CASE dleft' # 0
    <3>1. dleft' > 0 /\ dphase' = "recv" /\ End(h) = cmd.len - dleft'
      BY <1>5, <1>6, <1>7, <2>2
    <3>2. Gapless(dbuf', cmd.len - dleft')
      BY <1>9, <3>1
    <3> QED
      BY <1>3, <1>8, <1>10, <1>11, <3>1, <3>2 DEF DeviceInStep, Between, InPlace, Gapless
  <2> QED
    BY <2>1, <2>2
<1>13. InOwn' /\ HostInStep'
  BY <1>1, <1>2, HostUnmoved DEF InOwn, InPacket
<1> QED
  BY <1>4, <1>12, <1>13 DEF InStep

\* The device has it all: it goes on to the data of IN, or to the response.
LEMMA ExecuteInStep ==
    ASSUME TypeInv, InStep, DeviceExecute
    PROVE  InStep'
<1>1. /\ dphase = "exec" /\ UNCHANGED <<hostVars, outp, inp, dreq, dleft, dbuf>>
      /\ dphase' = IF dreq.cmd.dir = "in" THEN "send" ELSE "status"
  BY DEF DeviceExecute
<1>2. OutOwn /\ InOwn /\ HostInStep
  BY DEF InStep
<1>3. /\ ServesHost /\ Between(LenOut(cmd), 0) /\ dreq.cmd = cmd
      /\ cmd.dir = "in" => dleft = cmd.len
  BY <1>1 DEF InStep, DeviceInStep, ServesHost
<1>4. ServesHost' /\ cmd' = cmd
  BY <1>1, <1>3, HostUnmoved DEF ServesHost
<1>5. Between(LenOut(cmd), 0)'
  BY <1>1, <1>3, HostUnmoved DEF Between
<1>6. /\ cmd.len \in Nat /\ cmd.len - cmd.len = 0 /\ (cmd.dir = "in" => cmd.len > 0)
      /\ cmd.dir # "in" => LenIn(cmd) = 0
  BY ChannelTypes, StreamLengths DEF LenIn
<1>7. DeviceInStep'
  <2>1. CASE cmd.dir = "in"
    <3>1. dphase' = "send" /\ dleft' = cmd.len /\ dleft' > 0 /\ cmd.len - dleft' = 0
      BY <1>1, <1>3, <1>6, <2>1
    <3> QED
      BY <1>4, <1>5, <2>1, <3>1 DEF DeviceInStep
  <2>2. CASE cmd.dir # "in"
    <3>1. dphase' = "status" /\ LenIn(cmd) = 0
      BY <1>1, <1>3, <1>6, <2>2
    <3> QED
      BY <1>4, <1>5, <3>1 DEF DeviceInStep
  <2> QED
    BY <2>1, <2>2
<1>8. OutOwn' /\ InOwn' /\ HostInStep'
  BY <1>1, <1>2, HostUnmoved DEF OutOwn, InOwn, OutPacket, InPacket
<1> QED
  BY <1>7, <1>8 DEF InStep

\* A data packet leaves the device behind the data that left before it.
LEMMA SendDataInStep ==
    ASSUME TypeInv, InStep, DeviceSendData
    PROVE  InStep'
<1> DEFINE p == DataPacket(dreq.from, dreq.tag, dreq.cmd, dleft)
<1>1. /\ dphase = "send" /\ inp' = Append(inp, p) /\ dleft' = dleft - p.size
      /\ dphase' = IF dleft' = 0 THEN "status" ELSE "send"
      /\ UNCHANGED <<hostVars, outp, dreq, dbuf>>
  BY DEF DeviceSendData
<1>2. OutOwn /\ InOwn /\ HostInStep
  BY DEF InStep
<1>3. /\ ServesHost /\ cmd.dir = "in" /\ dleft > 0
      /\ Chain(outp, LenOut(cmd), HostSent) /\ Chain(inp, HostGot, cmd.len - dleft)
  BY <1>1 DEF InStep, DeviceInStep, Between
<1>4. /\ cmd.len \in Nat /\ LenIn(cmd) = cmd.len /\ dleft \in Nat /\ dleft =< cmd.len
      /\ cmd \in Commands /\ serial \in Nat /\ tag \in Nat
  BY <1>3, ChannelTypes, StreamLengths DEF TypeInv, PhaseOK, ServesHost
<1>5. /\ p \in Packet /\ p.size =< dleft /\ p.size > 0
      /\ p.kind = "data" /\ p.from = serial /\ p.tag = tag /\ p.cmd = cmd /\ p.off = cmd.len - dleft
  <2>1. p = DataPacket(serial, tag, cmd, dleft)
    BY <1>3 DEF ServesHost
  <2>2. p \in Packet /\ p.size =< dleft /\ p.size > 0
    BY <1>3, <1>4, <2>1, DataPacketType
  <2> QED
    BY <2>1, <2>2 DEF DataPacket
<1> HIDE DEF p
<1>6. p.size \in Nat
  BY <1>5 DEF Packet
<1>7. InPacket(p) /\ Pos(p) = cmd.len - dleft /\ End(p) = cmd.len - dleft'
  <2>1. Pos(p) = cmd.len - dleft
    BY <1>5 DEF Pos
  <2>2. p.off + p.size =< LenIn(cmd) /\ End(p) = cmd.len - dleft'
    BY <1>1, <1>4, <1>5, <1>6, <2>1 DEF End
  <2> QED
    BY <1>5, <2>1, <2>2 DEF InPacket
<1>8. Chain(inp', HostGot', cmd.len - dleft') /\ InOwn'
  BY <1>1, <1>2, <1>3, <1>5, <1>7, InGiven
<1>9. ServesHost' /\ cmd' = cmd /\ Chain(outp', LenOut(cmd), HostSent')
  BY <1>1, <1>3, HostUnmoved DEF ServesHost
<1>10. DeviceInStep'
  <2>1. CASE dleft' = 0
    <3>1. dphase' = "status" /\ cmd.len - dleft' = LenIn(cmd)
      BY <1>1, <1>4, <2>1
    <3>2. Chain(inp', HostGot', LenIn(cmd))
      BY <1>8, <3>1
    <3> QED
      BY <1>9, <3>1, <3>2 DEF DeviceInStep, Between
  <2>2. CASE dleft' # 0
    <3>1. dphase' = "send" /\ dleft' > 0
      BY <1>1, <1>4, <1>5, <1>6, <2>2
    <3> QED
      BY <1>3, <1>8, <1>9, <3>1 DEF DeviceInStep, Between
  <2> QED
    BY <2>1, <2>2
<1>11. OutOwn' /\ HostInStep'
  BY <1>1, <1>2, HostUnmoved DEF OutOwn, OutPacket
<1> QED
  BY <1>8, <1>10, <1>11 DEF InStep

\* The response closes IN, and the device waits for the next request.
LEMMA SendResponseInStep ==
    ASSUME TypeInv, InStep, DeviceSendResponse
    PROVE  InStep'
<1> DEFINE p == ResPacket
<1>1. /\ dphase = "status" /\ inp' = Append(inp, p) /\ dphase' = "cmd"
      /\ UNCHANGED <<hostVars, outp, dreq, dleft, dbuf>>
  BY DEF DeviceSendResponse
<1>2. OutOwn /\ InOwn /\ HostInStep
  BY DEF InStep
<1>3. ServesHost /\ Chain(outp, LenOut(cmd), HostSent) /\ Chain(inp, HostGot, LenIn(cmd))
  BY <1>1 DEF InStep, DeviceInStep, Between
<1>4. cmd \in Commands /\ serial \in Nat /\ tag \in Nat
  BY ChannelTypes
<1>5. p \in Packet /\ InPacket(p) /\ Pos(p) = LenIn(cmd) /\ End(p) = LenIn(cmd) + ResponseLen
  BY <1>3, <1>4 DEF ResPacket, Packet, InPacket, Pos, End, ServesHost, ResponseLen
<1> HIDE DEF p
<1>6. Chain(inp', HostGot', LenIn(cmd) + ResponseLen) /\ InOwn'
  BY <1>1, <1>2, <1>3, <1>5, InGiven
<1>7. cmd' = cmd /\ Chain(outp', LenOut(cmd), HostSent')
  BY <1>1, <1>3, HostUnmoved
<1>8. DeviceInStep'
  BY <1>1, <1>6, <1>7 DEF DeviceInStep, Between
<1>9. OutOwn' /\ HostInStep'
  BY <1>1, <1>2, HostUnmoved DEF OutOwn, OutPacket
<1> QED
  BY <1>6, <1>8, <1>9 DEF InStep

-----------------------------------------------------------------------------
\* The invariant.

\* At first nothing is on the way.
LEMMA ChannelInit == Init => ChannelInv
BY DEF Init, ChannelInv, Quiet, Sound, Busy, OwnAnswer

\* A step of the device: between commands there is none, within one it is in step.
LEMMA DeviceChannelStep ==
    ASSUME TypeInv, ChannelInv, DeviceStep
    PROVE  ChannelInv'
<1>1. UNCHANGED hostVars
  BY DEF DeviceStep, DeviceTakeRequest, DeviceTakeData, DeviceExecute, DeviceSendData,
         DeviceSendResponse
<1>2. ~Quiet
  BY DEF Quiet, DeviceStep, DeviceTakeRequest, DeviceTakeData, DeviceExecute, DeviceSendData,
         DeviceSendResponse
<1>3. ~gone /\ (Sound => Busy /\ pc # "send_req" /\ InStep)
  BY <1>2 DEF ChannelInv, Busy
<1>4. InStep => InStep'
  BY TakeRequestInStep, TakeDataInStep, ExecuteInStep, SendDataInStep, SendResponseInStep
     DEF DeviceStep
<1>5. /\ UNCHANGED <<pc, cmd, serial, buf, res, ret, gone, fails>>
      /\ Sound' = Sound
  BY <1>1 DEF hostVars, Sound
<1>6. OwnAnswer'
  BY <1>5 DEF ChannelInv, OwnAnswer, InPlace, Gapless
<1>7. ret' = "true" => pc' = "idle"
  BY <1>5 DEF ChannelInv
<1> QED
  BY <1>3, <1>4, <1>5, <1>6, <1>7 DEF ChannelInv, Busy

\* A command that returns false: nothing is claimed any more.
LEMMA FailedChannelStep ==
    ASSUME TypeInv, ChannelInv, fails' = fails + 1, ret' = "false" \/ ret' = "none", UNCHANGED gone,
           UNCHANGED <<outp, inp, dphase>> \/ ~gone
    PROVE  ChannelInv'
<1>1. fails' # 0
  BY ChannelTypes
<1>2. gone' => Quiet'
  BY DEF ChannelInv, Quiet
<1> QED
  BY <1>1, <1>2 DEF ChannelInv, Sound, OwnAnswer

\* The host sends: the request finds both sides quiet, the data finds them in step.
LEMMA SendChannelStep ==
    ASSUME TypeInv, ChannelInv, SendPacket
    PROVE  ChannelInv'
<1>1. ~gone /\ UNCHANGED <<gone, serial, cmd, buf, res>> /\ Busy
  BY DEF SendPacket, Busy
<1>2. pc' \in {"send_data", "recv_data", "recv_res"}
  BY SentMoves
<1>3. ret' = ret /\ fails' = fails /\ ret # "true"
  BY <1>1 DEF SendPacket, NextPhase, ChannelInv, Busy
<1>4. Sound' => InStep'
  BY <1>1, <1>3, SendInStep DEF Sound
<1> QED
  BY <1>1, <1>2, <1>3, <1>4 DEF ChannelInv, Sound, OwnAnswer

\* The host receives.
LEMMA RecvChannelStep ==
    ASSUME TypeInv, ChannelInv, RecvPacket
    PROVE  ChannelInv'
<1>1. ~gone /\ UNCHANGED gone /\ Busy /\ pc \in {"recv_data", "recv_res"} /\ ret # "true"
  BY DEF RecvPacket, ChannelInv, Busy
<1>2. fails \in Nat
  BY ChannelTypes
<1>3. fails' = fails \/ fails' = fails + 1
  BY DEF RecvPacket, NextPhase, Return
<1>4. CASE fails # 0
  <2>1. fails' # 0
    BY <1>2, <1>3, <1>4
  <2>2. ret' = "true" => pc' = "idle"
    BY <1>1 DEF RecvPacket, NextPhase, Return
  <2> QED
    BY <1>1, <2>1, <2>2 DEF ChannelInv, Sound, OwnAnswer
<1>5. CASE fails = 0 /\ pc = "recv_data"
  <2>1. InStep' /\ pc' \in {"recv_data", "recv_res"} /\ ret' = ret
    BY <1>1, <1>5, RecvInStep DEF Sound
  <2> QED
    BY <1>1, <2>1 DEF ChannelInv, Sound, OwnAnswer
<1>6. CASE fails = 0 /\ pc = "recv_res"
  <2>1. pc' = "idle" /\ Quiet' /\ OwnAnswer'
    BY <1>1, <1>6, RecvDone DEF Sound
  <2> QED
    BY <1>1, <2>1 DEF ChannelInv, Sound, Busy
<1> QED
  BY <1>1, <1>4, <1>5, <1>6

\* Every action keeps the invariant.
LEMMA ChannelStep == TypeInv /\ ChannelInv /\ [Next]_vars => ChannelInv'
<1> SUFFICES ASSUME TypeInv, ChannelInv, [Next]_vars PROVE ChannelInv'
  OBVIOUS
<1>1. ASSUME NEW c \in Commands, Issue(c) PROVE ChannelInv'
  <2>1. /\ pc = "idle" /\ pc' = "send_req" /\ buf' = {} /\ res' = {} /\ ret' = "none"
        /\ UNCHANGED <<gone, fails, outp, inp, dphase>>
    BY <1>1 DEF Issue, deviceVars
  <2>2. Quiet' = Quiet /\ Sound' = Sound
    BY <2>1 DEF Quiet, Sound
  <2> QED
    BY <2>1, <2>2 DEF ChannelInv, OwnAnswer
<1>2. CASE SendPacket
  BY <1>2, SendChannelStep
<1>3. CASE RecvPacket
  BY <1>3, RecvChannelStep
<1>4. CASE RecvOverflow
  BY <1>4, FailedChannelStep DEF RecvOverflow, Return
<1>5. CASE TransferError
  BY <1>5, FailedChannelStep DEF TransferError, Return, deviceVars
<1>6. CASE BusReset
  <2>1. CASE FlushDevice
    <3>1. Quiet'
      BY <2>1 DEF FlushDevice, Quiet
    <3>2. pc' = "idle" /\ ret' = "false"
      BY <1>6 DEF BusReset
    <3> QED
      BY <3>1, <3>2 DEF ChannelInv, Busy, OwnAnswer
  <2>2. CASE fails' = fails + 1 /\ UNCHANGED <<gone, outp, inp, deviceVars>>
    BY <1>6, <2>2, FailedChannelStep DEF BusReset, deviceVars
  <2> QED
    BY <1>6, <2>1, <2>2 DEF BusReset
<1>7. CASE NewProcess
  <2>1. /\ pc' = "idle" /\ ret' = "none" /\ gone' = FALSE /\ UNCHANGED <<outp, inp, dphase>>
        /\ fails' = IF gone THEN 0 ELSE IF Busy THEN fails + 1 ELSE fails
    BY <1>7 DEF NewProcess, deviceVars
  <2>2. Quiet' = Quiet
    BY <2>1 DEF Quiet
  <2>3. Sound' => Quiet
    <3>1. CASE gone
      BY <3>1 DEF ChannelInv
    <3>2. CASE ~gone /\ Busy
      BY <2>1, <3>2, ChannelTypes DEF Sound
    <3>3. CASE ~gone /\ ~Busy
      BY <2>1, <3>3 DEF Sound, ChannelInv, Busy
    <3> QED
      BY <3>1, <3>2, <3>3
  <2> QED
    BY <2>1, <2>2, <2>3 DEF ChannelInv, Busy, OwnAnswer
<1>8. CASE DeviceStep
  BY <1>8, DeviceChannelStep
<1>9. CASE DeviceRestart
  <2>1. Quiet' /\ gone' /\ UNCHANGED <<pc, cmd, serial, buf, res, ret, fails>>
    BY <1>9 DEF DeviceRestart, FlushDevice, Quiet
  <2>2. OwnAnswer'
    BY <2>1 DEF ChannelInv, OwnAnswer, InPlace, Gapless
  <2> QED
    BY <2>1, <2>2 DEF ChannelInv, Sound
<1>10. CASE UNCHANGED vars
  <2>1. UNCHANGED <<hostVars, outp, inp, dphase, dreq, dleft, dbuf>>
    BY <1>10 DEF vars, deviceVars
  <2>2. Quiet' = Quiet /\ Sound' = Sound /\ OwnAnswer' = OwnAnswer /\ pc' = pc /\ ret' = ret
        /\ buf' = buf /\ res' = res /\ gone' = gone
    BY <2>1 DEF Quiet, Sound, OwnAnswer, InPlace, Gapless, hostVars
  <2>3. InStep => InStep'
    <3>1. UNCHANGED <<cmd, serial, tag>>
      BY <2>1 DEF hostVars
    <3>2. OutOwn' = OutOwn /\ InOwn' = InOwn
      BY <2>1, <3>1 DEF OutOwn, InOwn, OutPacket, InPacket
    <3>3. \A taken, given : Between(taken, given) => Between(taken, given)'
      BY <2>1, HostUnmoved DEF Between
    <3> QED
      BY <2>1, <3>1, <3>2, <3>3, HostUnmoved, DeviceUnmoved DEF InStep
  <2> QED
    BY <2>2, <2>3 DEF ChannelInv, Busy
<1> QED
  BY <1>1, <1>2, <1>3, <1>4, <1>5, <1>6, <1>7, <1>8, <1>9, <1>10 DEF Next, HostStep

\* For every device, every command mix and any number of processes: while no command
\* has failed, a command that returned true leaves nothing behind it (rk_usb.cpp
\* 641-678, the two transfer loops, with the response read by every command).
THEOREM NothingLeftBehind == Spec => []QuietBetweenCommands
<1>1. ChannelInv => QuietBetweenCommands
  BY DEF ChannelInv, QuietBetweenCommands, Quiet, Sound
<1> QED
  BY TypeInit, TypeStep, ChannelInit, ChannelStep, <1>1, PTL DEF Spec

\* And what a command that returned true gives its caller is this command's own data,
\* whole and in place, with its own response.
THEOREM AnswersAreOwn == Spec => []OwnAnswer
<1>1. ChannelInv => OwnAnswer
  BY DEF ChannelInv
<1> QED
  BY TypeInit, TypeStep, ChannelInit, ChannelStep, <1>1, PTL DEF Spec

\* Only DeviceExecute adds to the log, and in step it has the host's data, all of it.
LEMMA ExecutesOwnData ==
    ASSUME TypeInv, ChannelInv, [Next]_vars, log' # log, fails = 0
    PROVE  LET e == log'[Len(log')] IN
           /\ InPlace(e.data, "data", e.from)
           /\ e.cmd.dir = "out" => Gapless(e.data, e.cmd.len)
<1> DEFINE e == [from |-> dreq.from, cmd |-> dreq.cmd, data |-> dbuf]
<1>1. DeviceExecute
  BY DEF Next, Issue, HostStep, SendPacket, RecvPacket, RecvOverflow, TransferError, BusReset,
         FlushDevice, NewProcess, DeviceStep, DeviceTakeRequest, DeviceTakeData, DeviceSendData,
         DeviceSendResponse, DeviceRestart, vars, hostVars, deviceVars
<1>2. dphase = "exec" /\ log' = Append(log, e)
  BY <1>1 DEF DeviceExecute
<1>3. InStep
  BY <1>2 DEF ChannelInv, Sound, Quiet, Busy
<1>4. /\ ServesHost /\ InPlace(dbuf, "data", serial) /\ Gapless(dbuf, LenOut(cmd))
  BY <1>2, <1>3 DEF InStep, DeviceInStep
<1>5. log'[Len(log')] = e
  BY <1>2 DEF TypeInv, TypeOK
<1> QED
  BY <1>4, <1>5 DEF ServesHost, LenOut

\* While no command has failed the device executes each with exactly the data that
\* the host sent for it.
THEOREM ExecutesSentData == Spec => ExecutesWhatWasSent
<1>1. TypeInv /\ ChannelInv /\ [Next]_vars =>
        ((log' # log /\ fails = 0) =>
            LET e == log'[Len(log')] IN
            /\ InPlace(e.data, "data", e.from)
            /\ e.cmd.dir = "out" => Gapless(e.data, e.cmd.len))
  BY ExecutesOwnData
<1> QED
  BY TypeInit, TypeStep, ChannelInit, ChannelStep, <1>1, PTL DEF Spec, ExecutesWhatWasSent

-----------------------------------------------------------------------------
\* RkCommand implements the remote call of RkCall, and the two sides are never
\* further apart than the commands that failed.

\* The numbers of requests in a queue.
LEMMA RequestsAppend ==
    ASSUME NEW q \in Seq(Packet), NEW p \in Packet
    PROVE  Requests(Append(q, p)) = Requests(q) \cup (IF p.kind = "req" THEN {p.from} ELSE {})
<1> DEFINE r == Append(q, p)
<1>1. /\ DOMAIN q = 1..Len(q) /\ Len(q) \in Nat /\ DOMAIN r = 1..Len(q) + 1
      /\ r[Len(q) + 1] = p /\ \A i \in DOMAIN q : r[i] = q[i]
  BY AppendElement, SeqElement
<1> HIDE DEF r
<1>2. /\ DOMAIN r = DOMAIN q \cup {Len(q) + 1}
      /\ \A i \in DOMAIN q : r[i] = q[i]
  BY <1>1
<1>3. Requests(r) = Requests(q) \cup (IF p.kind = "req" THEN {p.from} ELSE {})
  BY <1>1, <1>2 DEF Requests
<1> QED
  BY <1>3 DEF r

LEMMA RequestsTail ==
    ASSUME NEW q \in Seq(Packet), q # << >>
    PROVE  Requests(q) = Requests(Tail(q)) \cup (IF Head(q).kind = "req" THEN {Head(q).from} ELSE {})
<1> DEFINE t == Tail(q)
<1>1. /\ Head(q) = q[1] /\ 1 \in DOMAIN q /\ DOMAIN q = 1..Len(q) /\ Len(q) \in Nat
      /\ DOMAIN t = 1..Len(q) - 1
      /\ \A i \in DOMAIN t : t[i] = q[i + 1]
  <2>1. t \in Seq(Packet) /\ Len(t) = Len(q) - 1
    BY TailElement
  <2>2. DOMAIN t = 1..Len(t)
    BY <2>1, SeqElement
  <2>3. DOMAIN q = 1..Len(q) /\ Len(q) \in Nat
    BY SeqElement
  <2>4. Head(q) = q[1] /\ 1 \in DOMAIN q /\ \A i \in DOMAIN t : t[i] = q[i + 1]
    BY TailElement
  <2> QED
    BY <2>1, <2>2, <2>3, <2>4
<1> HIDE DEF t
<1>2. /\ \A i \in DOMAIN t : i + 1 \in DOMAIN q /\ t[i] = q[i + 1]
      /\ \A i \in DOMAIN q : i = 1 \/ (i - 1 \in DOMAIN t /\ t[i - 1] = q[i])
  BY <1>1
<1>3. Requests(q) \subseteq Requests(t) \cup (IF q[1].kind = "req" THEN {q[1].from} ELSE {})
  BY <1>2 DEF Requests
<1>4. Requests(t) \cup (IF q[1].kind = "req" THEN {q[1].from} ELSE {}) \subseteq Requests(q)
  BY <1>1, <1>2 DEF Requests
<1> QED
  BY <1>1, <1>3, <1>4 DEF t

LEMMA RequestsEmpty == Requests(<< >>) = {}
BY DEF Requests

\* A request that is executed joins those that were.
LEMMA ExecutedAppend ==
    ASSUME NEW q \in Seq(LogEntry), NEW e \in LogEntry, log = q, log' = Append(q, e)
    PROVE  Executed' = Executed \cup {e.from}
<1> DEFINE r == Append(q, e)
<1>1. /\ DOMAIN q = 1..Len(q) /\ Len(q) \in Nat /\ DOMAIN r = 1..Len(q) + 1
      /\ r[Len(q) + 1] = e /\ \A i \in DOMAIN q : r[i] = q[i]
  BY AppendElement, SeqElement
<1> HIDE DEF r
<1>2. DOMAIN r = DOMAIN q \cup {Len(q) + 1}
  BY <1>1
<1>3. {r[i].from : i \in DOMAIN r} = {q[i].from : i \in DOMAIN q} \cup {e.from}
  BY <1>1, <1>2
<1> QED
  BY <1>3 DEF Executed, r

-----------------------------------------------------------------------------
\* The device answers only what it has executed.
AnswersInv ==
    /\ dphase \in {"send", "status"} => dreq.from \in Executed
    /\ \A i \in DOMAIN inp : inp[i].from \in Executed

LEMMA AnswersInit == Init => AnswersInv
BY DEF Init, AnswersInv

LEMMA AnswersStep == TypeInv /\ AnswersInv /\ [Next]_vars => AnswersInv'
<1> SUFFICES ASSUME TypeInv, AnswersInv, [Next]_vars PROVE AnswersInv'
  OBVIOUS
<1>1. inp \in Seq(Packet) /\ log \in Seq(LogEntry) /\ dreq \in Packet
  BY DEF TypeInv, TypeOK
<1>2. ASSUME UNCHANGED <<log, dphase, dreq>>,
             UNCHANGED inp \/ inp' = << >> \/ (inp # << >> /\ inp' = Tail(inp))
      PROVE  AnswersInv'
  <2>1. \A i \in DOMAIN inp' : \E j \in DOMAIN inp : inp'[i] = inp[j]
    <3>1. CASE inp # << >> /\ inp' = Tail(inp)
      BY <1>1, <3>1, TailElement
    <3> QED
      BY <1>2, <3>1
  <2>2. Executed' = Executed
    BY <1>2 DEF Executed
  <2> QED
    BY <1>2, <2>1, <2>2 DEF AnswersInv
<1>3. ASSUME NEW p \in Packet, inp' = Append(inp, p), p.from = dreq.from, UNCHANGED log,
             dphase \in {"send", "status"}, dreq' = dreq
      PROVE  AnswersInv'
  <2>1. Executed' = Executed /\ p.from \in Executed
    BY <1>3 DEF Executed, AnswersInv
  <2>2. \A i \in DOMAIN inp' : (i \in DOMAIN inp /\ inp'[i] = inp[i]) \/ inp'[i] = p
    BY <1>1, <1>3, AppendElement, SeqElement
  <2> QED
    BY <1>3, <2>1, <2>2 DEF AnswersInv
<1>4. ASSUME inp' = << >>, dphase' = "cmd", UNCHANGED log PROVE AnswersInv'
  BY <1>4 DEF AnswersInv
<1>5. ASSUME NEW c \in Commands, Issue(c) PROVE AnswersInv'
  BY <1>2, <1>5 DEF Issue, deviceVars
<1>6. CASE SendPacket \/ RecvPacket \/ RecvOverflow \/ TransferError \/ NewProcess
  BY <1>2, <1>6 DEF SendPacket, RecvPacket, RecvOverflow, TransferError, NewProcess, deviceVars
<1>7. CASE BusReset
  BY <1>2, <1>4, <1>7 DEF BusReset, FlushDevice, deviceVars
<1>8. CASE DeviceRestart
  BY <1>4, <1>8 DEF DeviceRestart, FlushDevice
<1>9. CASE DeviceTakeRequest
  <2>1. UNCHANGED <<inp, log>> /\ (dphase' \in {"send", "status"} => UNCHANGED <<dphase, dreq>>)
    BY <1>9 DEF DeviceTakeRequest
  <2> QED
    BY <2>1 DEF AnswersInv, Executed
<1>10. CASE DeviceTakeData
  <2>1. UNCHANGED <<inp, log, dreq>> /\ dphase' \in {"exec", "recv"}
    BY <1>10 DEF DeviceTakeData
  <2> QED
    BY <2>1 DEF AnswersInv, Executed
<1>11. CASE DeviceExecute
  <2> DEFINE e == [from |-> dreq.from, cmd |-> dreq.cmd, data |-> dbuf]
  <2>1. log' = Append(log, e) /\ UNCHANGED <<inp, dreq>>
    BY <1>11 DEF DeviceExecute
  <2>2. e \in LogEntry /\ e.from = dreq.from
    BY DEF TypeInv, TypeOK, LogEntry, Packet
  <2>3. Executed' = Executed \cup {dreq.from}
    BY <1>1, <2>1, <2>2, ExecutedAppend
  <2> QED
    BY <2>1, <2>3 DEF AnswersInv
<1>12. CASE DeviceSendData
  <2>1. DataPacket(dreq.from, dreq.tag, dreq.cmd, dleft) \in Packet
    BY <1>1, DataPacketType DEF TypeInv, TypeOK, PhaseOK, Packet
  <2>2. DataPacket(dreq.from, dreq.tag, dreq.cmd, dleft).from = dreq.from
    BY DEF DataPacket
  <2> QED
    BY <1>3, <1>12, <2>1, <2>2 DEF DeviceSendData
<1>13. CASE DeviceSendResponse
  <2>1. ResPacket \in Packet /\ ResPacket.from = dreq.from
    BY <1>1 DEF ResPacket, Packet, ResponseLen
  <2> QED
    BY <1>3, <1>13, <2>1 DEF DeviceSendResponse
<1>14. CASE UNCHANGED vars
  BY <1>2, <1>14 DEF vars, deviceVars
<1> QED
  BY <1>5, <1>6, <1>7, <1>8, <1>9, <1>10, <1>11, <1>12, <1>13, <1>14 DEF Next, HostStep, DeviceStep

-----------------------------------------------------------------------------
\* What the steps are proved from.
Inv == TypeInv /\ OrderInv /\ ChannelInv /\ AnswersInv

LEMMA InvStep == Inv /\ [Next]_vars => Inv'
BY TypeStep, OrderStep, ChannelStep, AnswersStep DEF Inv

LEMMA InvInit == Init => Inv
BY TypeInit, OrderInit, ChannelInit, AnswersInit DEF Inv

\* The parts of the mapping, for a step that leaves the log alone.
LEMMA CallSame ==
    ASSUME UNCHANGED <<serial, ret, log, fails>>, Busy' = Busy, Pending' = Pending
    PROVE  UNCHANGED Call!vars
BY DEF Call!vars, Executed

\* A command that fails: the request may still be pending, and trust is gone.
LEMMA FailsAsCall ==
    ASSUME TypeInv, Busy, Return("false"), UNCHANGED <<serial, log, outp, dphase, dreq>>
    PROVE  Call!Fail
<1>1. ~Busy' /\ Busy /\ ret' = "false" /\ fails' # 0
  BY DEF Return, Busy, TypeInv, TypeOK
<1>2. Pending' \subseteq Pending
  BY DEF Pending, Return, Requests
<1>3. Executed' = Executed
  BY DEF Executed
<1>4. Busy' = FALSE /\ (fails = 0)' = FALSE
  BY <1>1 DEF Busy
<1> QED
  BY <1>1, <1>2, <1>3, <1>4 DEF Call!Fail

\* Every step is one of the remote call or changes nothing of it.
LEMMA CallStep == Inv /\ [Next]_vars => [Call!Next]_(Call!vars)
<1> SUFFICES ASSUME Inv, [Next]_vars PROVE Call!Next \/ UNCHANGED Call!vars
  BY DEF Call!vars
<1>1. /\ outp \in Seq(Packet) /\ inp \in Seq(Packet) /\ log \in Seq(LogEntry) /\ dreq \in Packet
      /\ serial \in Nat /\ fails \in Nat
  BY DEF Inv, TypeInv, TypeOK
<1>2. ASSUME NEW c \in Commands, Issue(c) PROVE Call!Start
  <2>1. /\ pc = "idle" /\ pc' = "send_req" /\ serial' = serial + 1 /\ ret' = "none"
        /\ UNCHANGED <<fails, outp, dphase, dreq, log>>
    BY <1>2 DEF Issue, deviceVars
  <2>2. Pending' = Pending \cup {serial'}
    BY <2>1 DEF Pending, Requests
  <2>3. ~Busy /\ Busy' /\ Executed' = Executed /\ (fails = 0)' = (fails = 0)
    BY <2>1 DEF Busy, Executed
  <2>4. Busy' = TRUE
    BY <2>3, Zenon
  <2> QED
    BY <2>1, <2>2, <2>3, <2>4 DEF Call!Start
<1>3. CASE SendPacket
  <2>1. /\ pc \in {"send_req", "send_data"} /\ NextPacket \in Packet /\ outp' = Append(outp, NextPacket)
        /\ UNCHANGED <<serial, dphase, dreq, log>>
        /\ \/ NextPhase
           \/ pc # "send_req" /\ UNCHANGED <<pc, ret, fails>>
    BY <1>3, SentPacketType DEF SendPacket, NextPacket, Inv, deviceVars
  <2>2. pc' \in {"send_data", "recv_data", "recv_res"} /\ UNCHANGED <<ret, fails>>
    BY <2>1, NextPhaseType DEF NextPhase, Busy, Inv
  <2>3. Pending' = Pending
    <3>1. Requests(outp)' = Requests(outp) \cup (IF NextPacket.kind = "req" THEN {NextPacket.from} ELSE {})
      BY <1>1, <2>1, RequestsAppend
    <3>2. IF pc = "send_req" THEN NextPacket.kind = "req" /\ NextPacket.from = serial ELSE NextPacket.kind # "req"
      BY DEF NextPacket, ReqPacket, DataPacket
    <3> QED
      BY <2>1, <2>2, <3>1, <3>2 DEF Pending
  <2>4. Busy' = Busy
    BY <2>1, <2>2 DEF Busy
  <2> QED
    BY <2>1, <2>2, <2>3, <2>4, CallSame
<1>4. CASE RecvPacket
  <2>1. /\ pc \in {"recv_data", "recv_res"} /\ ~gone /\ inp # << >>
        /\ UNCHANGED <<serial, outp, dphase, dreq, log>>
        /\ \/ UNCHANGED <<pc, ret, fails>>
           \/ NextPhase
           \/ \E value \in {"true", "false"} : Return(value)
    BY <1>4 DEF RecvPacket, deviceVars
  <2>2. CASE UNCHANGED <<pc, ret, fails>>
    BY <2>1, <2>2, CallSame DEF Busy, Pending, Requests
  <2>3. CASE NextPhase
    <3>1. pc' \in {"send_data", "recv_data", "recv_res"} /\ UNCHANGED <<ret, fails>>
      BY <2>1, <2>3, NextPhaseType DEF NextPhase, Busy, Inv
    <3>2. Busy' = Busy /\ Pending' = Pending
      BY <2>1, <3>1 DEF Busy, Pending, Requests
    <3> QED
      BY <2>1, <3>1, <3>2, CallSame
  <2>4. CASE Return("false")
    BY <2>1, <2>4, FailsAsCall DEF Busy, Call!Next, Call!Return, Inv
  <2>5. CASE Return("true")
    <3>1. /\ Busy /\ ~Busy' /\ ret' = "true" /\ UNCHANGED fails /\ Executed' = Executed
          /\ Pending' = Pending
      BY <2>1, <2>5 DEF Return, Busy, Executed, Pending, Requests
    <3>2. fails = 0 => serial \in Executed
      <4> SUFFICES ASSUME fails = 0 PROVE serial \in Executed
        OBVIOUS
      <4>1. InOwn
        BY <2>1 DEF Inv, ChannelInv, Sound, Busy, InStep
      <4>2. 1 \in DOMAIN inp
        BY <1>1, <2>1
      <4> QED
        BY <4>1, <4>2 DEF InOwn, InPacket, Inv, AnswersInv
    <3>3. Busy' = FALSE /\ (fails = 0)' = (fails = 0)
      BY <3>1 DEF Busy
    <3> QED
      BY <2>1, <3>1, <3>2, <3>3 DEF Call!Succeed, Call!Return, Call!Next
  <2> QED
    BY <2>1, <2>2, <2>3, <2>4, <2>5
<1>5. CASE RecvOverflow \/ TransferError
  <2>1. Busy /\ Return("false") /\ UNCHANGED <<serial, log, outp, dphase, dreq>>
    BY <1>5 DEF RecvOverflow, TransferError, Busy, deviceVars
  <2> QED
    BY <2>1, FailsAsCall DEF Call!Next, Call!Return, Inv
<1>6. CASE BusReset
  <2>1. /\ pc = "send_req" /\ pc' = "idle" /\ ret' = "false" /\ UNCHANGED <<serial, log, dreq>>
        /\ \/ outp' = << >> /\ dphase' = "cmd" /\ fails' = 0
           \/ fails' = fails + 1 /\ UNCHANGED <<outp, dphase>>
    BY <1>6 DEF BusReset, FlushDevice, deviceVars
  <2>2. Busy /\ ~Busy' /\ Executed' = Executed
    BY <2>1 DEF Busy, Executed
  <2>3. Busy' = FALSE
    BY <2>2 DEF Busy
  <2>4. CASE outp' = << >> /\ dphase' = "cmd" /\ fails' = 0
    <3>1. Pending' = {}
      BY <2>1, <2>4, RequestsEmpty DEF Pending
    <3>2. (fails = 0)' \in BOOLEAN
      OBVIOUS
    <3> QED
      BY <2>1, <2>2, <2>3, <3>1, <3>2 DEF Call!Fail, Call!Return, Call!Next
  <2>5. CASE fails' = fails + 1 /\ UNCHANGED <<outp, dphase>>
    <3>1. Pending' \subseteq Pending
      BY <2>1, <2>5 DEF Pending, Requests
    <3>2. fails' # 0
      BY <1>1, <2>5
    <3>3. (fails = 0)' = FALSE
      BY <3>2, Zenon
    <3> QED
      BY <2>1, <2>2, <2>3, <3>1, <3>3 DEF Call!Fail, Call!Return, Call!Next
  <2> QED
    BY <2>1, <2>4, <2>5
<1>7. CASE NewProcess
  <2>1. /\ pc' = "idle" /\ ret' = "none" /\ UNCHANGED <<serial, outp, dphase, dreq, log>>
        /\ fails' = IF gone THEN 0 ELSE IF Busy THEN fails + 1 ELSE fails
    BY <1>7 DEF NewProcess, deviceVars
  <2>2. ~Busy' /\ Executed' = Executed /\ Pending' \subseteq Pending
    BY <2>1 DEF Busy, Executed, Pending, Requests
  <2>3. gone => Pending' = {}
    BY <2>1, RequestsEmpty DEF Inv, ChannelInv, Quiet, Pending
  <2>4. Busy' = FALSE
    BY <2>2 DEF Busy
  <2>5. (fails = 0)' \in {fails = 0 /\ ~Busy} \cup (IF Pending' = {} THEN {TRUE} ELSE {})
    <3>1. CASE gone
      <4>1. (fails = 0)' = TRUE
        BY <2>1, <3>1
      <4> QED
        BY <2>3, <3>1, <4>1
    <3>2. CASE ~gone /\ Busy
      <4>1. fails' # 0
        BY <1>1, <2>1, <3>2
      <4>2. (fails = 0)' = (fails = 0 /\ ~Busy)
        BY <3>2, <4>1
      <4> QED
        BY <4>2, Zenon
    <3>3. CASE ~gone /\ ~Busy
      <4>1. fails' = fails
        BY <2>1, <3>3
      <4>2. (fails = 0)' = (fails = 0 /\ ~Busy)
        BY <3>3, <4>1
      <4> QED
        BY <4>2, Zenon
    <3> QED
      BY <3>1, <3>2, <3>3
  <2> QED
    BY <2>1, <2>2, <2>4, <2>5 DEF Call!Restart, Call!Next
<1>8. ASSUME UNCHANGED <<pc, serial, ret, fails, log>>, Pending' \subseteq Pending
      PROVE  Call!Lose
  <2>1. Busy' = Busy /\ Executed' = Executed /\ (fails = 0)' = (fails = 0)
    BY <1>8 DEF Busy, Executed
  <2> QED
    BY <1>8, <2>1 DEF Call!Lose
<1>9. CASE DeviceTakeRequest
  <2>1. /\ dphase = "cmd" /\ outp # << >> /\ outp' = Tail(outp)
        /\ UNCHANGED <<pc, serial, ret, fails, log>>
        /\ IF Head(outp).kind = "req"
           THEN dreq' = Head(outp) /\ dphase' \in {"recv", "exec"}
           ELSE UNCHANGED <<dphase, dreq>>
    BY <1>9 DEF DeviceTakeRequest, hostVars
  <2>2. Requests(outp) = Requests(outp)' \cup (IF Head(outp).kind = "req" THEN {Head(outp).from} ELSE {})
    BY <1>1, <2>1, RequestsTail
  <2>3. Pending' = Pending
    BY <2>1, <2>2 DEF Pending
  <2> QED
    BY <1>8, <2>1, <2>3 DEF Call!Next
<1>10. CASE DeviceTakeData
  <2>1. /\ dphase = "recv" /\ outp # << >> /\ outp' = Tail(outp)
        /\ UNCHANGED <<pc, serial, ret, fails, log, dreq>>
        /\ dphase' \in {"recv", "exec"}
    BY <1>10 DEF DeviceTakeData, hostVars
  <2>2. Requests(outp)' \subseteq Requests(outp)
    BY <1>1, <2>1, RequestsTail
  <2>3. Pending' \subseteq Pending
    BY <2>1, <2>2 DEF Pending
  <2> QED
    BY <1>8, <2>1, <2>3 DEF Call!Next
<1>11. CASE DeviceExecute
  <2> DEFINE e == [from |-> dreq.from, cmd |-> dreq.cmd, data |-> dbuf]
             later == (IF pc = "send_req" THEN {serial} ELSE {}) \cup Requests(outp)
  <2>1. /\ dphase = "exec" /\ log' = Append(log, e) /\ dphase' \in {"send", "status"}
        /\ UNCHANGED <<pc, serial, ret, fails, outp, dreq>>
    BY <1>11 DEF DeviceExecute, hostVars
  <2>2. e \in LogEntry /\ e.from = dreq.from
    BY DEF Inv, TypeInv, TypeOK, LogEntry, Packet
  <2>3. Executed' = Executed \cup {dreq.from}
    BY <1>1, <2>1, <2>2, ExecutedAppend
  <2>4. Pending = later \cup {dreq.from} /\ Pending' = later
    BY <2>1 DEF Pending, Requests
  <2>5. \A t \in later : t > dreq.from
    <3>1. /\ dreq.from =< Sent
          /\ \A i \in DOMAIN outp : outp[i].kind = "req" => dreq.from < outp[i].from
      BY <2>1 DEF Inv, OrderInv, Serving
    <3>2. dreq.from \in Nat /\ \A i \in DOMAIN outp : outp[i].from \in Nat
      BY OrderTypes DEF Inv
    <3>3. pc = "send_req" => serial > dreq.from
      BY <1>1, <3>1, <3>2 DEF Sent
    <3>4. \A t \in Requests(outp) : t > dreq.from
      BY <3>1, <3>2 DEF Requests
    <3> QED
      BY <3>3, <3>4
  <2>6. ~(dreq.from > dreq.from)
    BY <1>1 DEF Packet
  <2> HIDE DEF later
  <2>7. Pending' = {t \in Pending : t > dreq.from} /\ dreq.from \in Pending
    BY <2>4, <2>5, <2>6
  <2>8. Busy' = Busy /\ (fails = 0)' = (fails = 0)
    BY <2>1 DEF Busy
  <2>9. Call!Execute(dreq.from)
    BY <2>1, <2>3, <2>7, <2>8 DEF Call!Execute
  <2> QED
    BY <2>7, <2>9 DEF Call!Next
<1>12. CASE DeviceSendData \/ DeviceSendResponse
  <2>1. /\ UNCHANGED <<pc, serial, ret, fails, outp, dreq, log>>
        /\ dphase \notin {"recv", "exec"} /\ dphase' \notin {"recv", "exec"}
    BY <1>12 DEF DeviceSendData, DeviceSendResponse, hostVars
  <2>2. Pending' = Pending /\ Busy' = Busy
    BY <2>1 DEF Pending, Busy, Requests
  <2> QED
    BY <2>1, <2>2, CallSame
<1>13. CASE DeviceRestart
  <2>1. outp' = << >> /\ dphase' = "cmd" /\ UNCHANGED <<pc, serial, ret, fails, log>>
    BY <1>13 DEF DeviceRestart, FlushDevice
  <2>2. Pending' \subseteq Pending
    BY <2>1, RequestsEmpty DEF Pending
  <2> QED
    BY <1>8, <2>1, <2>2 DEF Call!Next
<1>14. CASE UNCHANGED vars
  <2>1. UNCHANGED <<pc, serial, ret, log, fails, outp, dphase, dreq>>
    BY <1>14 DEF vars, hostVars, deviceVars
  <2>2. Pending' = Pending /\ Busy' = Busy
    BY <2>1 DEF Pending, Busy, Requests
  <2> QED
    BY <2>1, <2>2, CallSame
<1> QED
  BY <1>2, <1>3, <1>4, <1>5, <1>6, <1>7, <1>9, <1>10, <1>11, <1>12, <1>13, <1>14
  DEF Next, HostStep, DeviceStep, Call!Next

\* At the beginning no call was made.
LEMMA CallInit == Init => Call!Init
<1> SUFFICES ASSUME Init PROVE Call!Init
  OBVIOUS
<1>1. serial = 0 /\ ret = "none" /\ Busy = FALSE /\ (fails = 0) = TRUE
  BY DEF Init, Busy
<1>2. Pending = {} /\ Executed = {}
  BY RequestsEmpty DEF Init, Pending, Executed
<1> QED
  BY <1>1, <1>2 DEF Call!Init

\* Whatever is late, lost, killed or unplugged: the bulk transfers and their two
\* endpoints are a remote call that is executed at most once, in order, and by the
\* time it returned true while no call had failed (the functions of rk_usb.cpp that
\* use usb_bulk_send and usb_bulk_recv).  That a call returns is left to TLC.
THEOREM CommandsAreCalls == Spec => Call!Spec
BY InvInit, InvStep, CallInit, CallStep, PTL DEF Spec, Call!Spec

-----------------------------------------------------------------------------
\* The places of a queue that hold a packet of one kind.
Places(q, kind) == {i \in DOMAIN q : q[i].kind = kind}

LEMMA PlacesFinite ==
    ASSUME NEW q \in Seq(Packet), NEW kind
    PROVE  IsFiniteSet(Places(q, kind)) /\ Cardinality(Places(q, kind)) \in Nat
<1>1. DOMAIN q = 1..Len(q) /\ Len(q) \in Nat
  BY SeqElement
<1>2. IsFiniteSet(1..Len(q))
  BY <1>1, FS_Interval
<1>3. Places(q, kind) \in SUBSET (1..Len(q))
  BY <1>1 DEF Places
<1>4. IsFiniteSet(Places(q, kind))
  BY <1>2, <1>3, FS_Subset
<1> QED
  BY <1>4, FS_CardinalityType

\* A packet more at the end.
LEMMA PlacesAppend ==
    ASSUME NEW q \in Seq(Packet), NEW p \in Packet, NEW kind
    PROVE  Cardinality(Places(Append(q, p), kind))
             = Cardinality(Places(q, kind)) + (IF p.kind = kind THEN 1 ELSE 0)
<1> DEFINE r == Append(q, p)
           n == Len(q) + 1
<1>1. /\ DOMAIN q = 1..Len(q) /\ Len(q) \in Nat /\ DOMAIN r = 1..n
      /\ r[n] = p /\ \A i \in DOMAIN q : r[i] = q[i]
  BY AppendElement, SeqElement
<1> HIDE DEF r
<1>2. DOMAIN r = DOMAIN q \cup {n} /\ n \notin DOMAIN q
  BY <1>1
<1> HIDE DEF n
<1>3. Places(r, kind) = Places(q, kind) \cup (IF p.kind = kind THEN {n} ELSE {}) /\ n \notin Places(q, kind)
  BY <1>1, <1>2 DEF Places
<1>4. IsFiniteSet(Places(q, kind)) /\ Cardinality(Places(q, kind)) \in Nat
  BY PlacesFinite
<1>5. CASE p.kind = kind
  <2>1. Cardinality(Places(q, kind) \cup {n}) = Cardinality(Places(q, kind)) + 1
    BY <1>3, <1>4, FS_AddElement
  <2> QED
    BY <1>3, <1>5, <2>1 DEF r
<1>6. CASE p.kind # kind
  BY <1>3, <1>4, <1>6 DEF r
<1> QED
  BY <1>5, <1>6

\* A packet less at the front.
LEMMA PlacesTail ==
    ASSUME NEW q \in Seq(Packet), q # << >>, NEW kind
    PROVE  Cardinality(Places(q, kind))
             = Cardinality(Places(Tail(q), kind)) + (IF Head(q).kind = kind THEN 1 ELSE 0)
<1> DEFINE t == Tail(q)
           S == Places(t, kind)
           T == Places(q, kind) \ {1}
           f == [i \in S |-> i + 1]
<1>1. /\ t \in Seq(Packet) /\ Head(q) = q[1] /\ 1 \in DOMAIN q /\ DOMAIN q = 1..Len(q) /\ Len(q) \in Nat
      /\ DOMAIN t = 1..Len(q) - 1 /\ \A i \in DOMAIN t : t[i] = q[i + 1]
  <2>1. t \in Seq(Packet) /\ Len(t) = Len(q) - 1
    BY TailElement
  <2>2. DOMAIN t = 1..Len(t)
    BY <2>1, SeqElement
  <2>3. DOMAIN q = 1..Len(q) /\ Len(q) \in Nat
    BY SeqElement
  <2>4. Head(q) = q[1] /\ 1 \in DOMAIN q /\ \A i \in DOMAIN t : t[i] = q[i + 1]
    BY TailElement
  <2> QED
    BY <2>1, <2>2, <2>3, <2>4
<1> HIDE DEF t
<1>2. IsFiniteSet(S) /\ IsFiniteSet(Places(q, kind)) /\ Cardinality(Places(q, kind)) \in Nat
  BY <1>1, PlacesFinite
<1>3. /\ \A i \in S : i \in Int /\ i + 1 \in T
      /\ \A j \in T : j - 1 \in S /\ j = (j - 1) + 1
  BY <1>1 DEF Places
<1> HIDE DEF S, T
<1>4. f \in Bijection(S, T)
  <2>1. f \in [S -> T] /\ \A i \in S : f[i] = i + 1
    BY <1>3
  <2>2. \A i, j \in S : f[i] = f[j] => i = j
    BY <1>3, <2>1
  <2>3. \A j \in T : \E i \in S : f[i] = j
    BY <1>3, <2>1
  <2> HIDE DEF f
  <2> QED
    BY <2>1, <2>2, <2>3 DEF Bijection, Injection, Surjection, IsInjective
<1>5. Cardinality(T) = Cardinality(S)
  <2>1. ExistsBijection(S, T)
    BY <1>4 DEF ExistsBijection
  <2> QED
    BY <1>2, <2>1, FS_Bijection
<1>6. Cardinality(T) = IF q[1].kind = kind THEN Cardinality(Places(q, kind)) - 1 ELSE Cardinality(Places(q, kind))
  <2>1. 1 \in Places(q, kind) <=> q[1].kind = kind
    BY <1>1 DEF Places
  <2>2. Cardinality(Places(q, kind) \ {1})
          = IF 1 \in Places(q, kind) THEN Cardinality(Places(q, kind)) - 1 ELSE Cardinality(Places(q, kind))
    BY <1>2, FS_RemoveElement
  <2> QED
    BY <2>1, <2>2 DEF T
<1>7. Cardinality(Places(q, kind)) = Cardinality(S) + (IF q[1].kind = kind THEN 1 ELSE 0)
  BY <1>2, <1>5, <1>6
<1> QED
  BY <1>1, <1>7 DEF S, t

LEMMA PlacesEmpty == ASSUME NEW kind PROVE Cardinality(Places(<< >>, kind)) = 0
<1>1. Places(<< >>, kind) = {}
  BY DEF Places
<1> QED
  BY <1>1, FS_EmptySet

\* What LagBounded counts.
Asked    == Cardinality(Places(outp, "req"))
Served   == IF dphase = "cmd" THEN 0 ELSE 1
Answered == Cardinality(Places(inp, "res"))
Allowed  == fails + (IF pc \in {"idle", "send_req"} THEN 0 ELSE 1)

LEMMA LagParts ==
    ASSUME TypeInv
    PROVE  /\ Owed = Asked + Served + Answered /\ Asked \in Nat /\ Served \in Nat /\ Answered \in Nat
           /\ LagBounded <=> Asked + Served + Answered =< Allowed
           /\ Allowed \in Nat
<1>1. Owed = Asked + Served + Answered
  BY DEF Owed, Asked, Served, Answered, Places
<1>2. outp \in Seq(Packet) /\ inp \in Seq(Packet)
  BY DEF TypeInv, TypeOK
<1>3. Asked \in Nat /\ Answered \in Nat
  BY <1>2, PlacesFinite DEF Asked, Answered
<1> QED
  BY <1>1, <1>3 DEF LagBounded, Served, Allowed, TypeInv, TypeOK

\* A response fills its buffer at once, so what is read behind one is none.
ResponseInv ==
    /\ \A i \in DOMAIN inp : inp[i].kind = "res" => inp[i].size = ResponseLen
    /\ pc = "recv_res" => ~SignatureOk(res)
    /\ pc \in {"send_req", "send_data", "recv_data"} => res = {}

LEMMA ResponseInit == Init => ResponseInv
BY DEF Init, ResponseInv, SignatureOk

LEMMA ResponseStep == TypeInv /\ ResponseInv /\ [Next]_vars => ResponseInv'
<1> SUFFICES ASSUME TypeInv, ResponseInv, [Next]_vars PROVE ResponseInv'
  OBVIOUS
<1>1. inp \in Seq(Packet) /\ dreq \in Packet
  BY DEF TypeInv, TypeOK
<1> DEFINE Sized(q) == \A i \in DOMAIN q : q[i].kind = "res" => q[i].size = ResponseLen
           Read == /\ pc = "recv_res" => ~SignatureOk(res)
                   /\ pc \in {"send_req", "send_data", "recv_data"} => res = {}
<1> SUFFICES Sized(inp)' /\ Read'
  BY DEF ResponseInv
<1>2. Sized(inp) /\ Read
  BY DEF ResponseInv
<1>3. ASSUME inp # << >>, inp' = Tail(inp) PROVE Sized(inp)'
  <2>1. \A i \in DOMAIN inp' : i + 1 \in DOMAIN inp /\ inp'[i] = inp[i + 1]
    BY <1>1, <1>3, TailElement
  <2> QED
    BY <1>2, <2>1
<1>4. ASSUME NEW p \in Packet, inp' = Append(inp, p), p.kind = "res" => p.size = ResponseLen
      PROVE  Sized(inp)'
  <2>1. \A i \in DOMAIN inp' : (i \in DOMAIN inp /\ inp'[i] = inp[i]) \/ inp'[i] = p
    BY <1>1, <1>4, AppendElement, SeqElement
  <2> QED
    BY <1>2, <1>4, <2>1
<1>5. ASSUME NEW c \in Commands, Issue(c) PROVE Sized(inp)' /\ Read'
  BY <1>2, <1>5 DEF Issue
<1>6. CASE SendPacket
  <2>1. UNCHANGED <<inp, res>> /\ pc \in {"send_req", "send_data"}
        /\ (pc' = pc \/ pc' \in {"send_data", "recv_data", "recv_res"})
    BY <1>6, NextPhaseType DEF SendPacket, Busy
  <2>2. Sized(inp)' /\ (res' = {} => ~SignatureOk(res)') /\ res' = {}
    BY <1>2, <2>1 DEF SignatureOk
  <2> QED
    BY <1>2, <2>1, <2>2
<1>7. CASE RecvPacket
  <2>1. Sized(inp)'
    BY <1>3, <1>7 DEF RecvPacket
  <2> DEFINE h == Head(inp)
  <2>2. CASE pc = "recv_data"
    <3>1. res' = {} /\ (pc' = pc \/ pc' \in {"send_data", "recv_data", "recv_res"})
      BY <1>2, <1>7, <2>2, NextPhaseType DEF RecvPacket, Busy
    <3>2. ~SignatureOk(res)'
      BY <3>1 DEF SignatureOk
    <3> QED
      BY <2>1, <2>2, <3>1, <3>2
  <2>3. CASE pc = "recv_res" /\ pc' # "idle"
    <3>1. /\ h.size =< left /\ left > h.size /\ pc' = pc /\ h \in Packet /\ inp # << >>
          /\ res' = res \cup {[at |-> ResponseLen - left, pkt |-> h]}
      BY <1>1, <1>7, <2>3, TailElement DEF RecvPacket, Return, LengthOf
    <3>2. h.kind = "res" => h.size = ResponseLen
      BY <1>1, <1>2, <3>1, TailElement
    <3>3. left \in Nat /\ left =< ResponseLen
      BY <2>3 DEF TypeInv, TypeOK, Busy, LengthOf
    <3>4. ~(h.kind = "res")
      BY <3>1, <3>2, <3>3 DEF ResponseLen
    <3>5. ~SignatureOk(res)'
      BY <1>2, <2>3, <3>1, <3>4 DEF SignatureOk
    <3> QED
      BY <2>1, <2>3, <3>1, <3>5
  <2>4. CASE pc' = "idle"
    BY <2>1, <2>4
  <2> QED
    BY <1>7, <2>2, <2>3, <2>4 DEF RecvPacket
<1>8. CASE RecvOverflow
  BY <1>3, <1>8 DEF RecvOverflow, Return
<1>9. CASE TransferError \/ NewProcess
  BY <1>2, <1>9 DEF TransferError, NewProcess, Return
<1>10. CASE BusReset
  BY <1>2, <1>10 DEF BusReset, FlushDevice
<1>11. CASE DeviceTakeRequest \/ DeviceTakeData \/ DeviceExecute
  BY <1>2, <1>11 DEF DeviceTakeRequest, DeviceTakeData, DeviceExecute, hostVars
<1>12. CASE DeviceSendData
  <2> DEFINE p == DataPacket(dreq.from, dreq.tag, dreq.cmd, dleft)
  <2>1. p \in Packet
    BY <1>1, DataPacketType DEF TypeInv, TypeOK, PhaseOK, Packet
  <2>2. p.kind # "res"
    BY DEF DataPacket
  <2>3. inp' = Append(inp, p) /\ UNCHANGED <<pc, res>>
    BY <1>12 DEF DeviceSendData, hostVars
  <2> QED
    BY <1>2, <1>4, <2>1, <2>2, <2>3
<1>13. CASE DeviceSendResponse
  <2>1. ResPacket \in Packet /\ ResPacket.size = ResponseLen
    BY <1>1 DEF ResPacket, Packet, ResponseLen
  <2>2. inp' = Append(inp, ResPacket) /\ UNCHANGED <<pc, res>>
    BY <1>13 DEF DeviceSendResponse, hostVars
  <2> QED
    BY <1>2, <1>4, <2>1, <2>2
<1>14. CASE DeviceRestart
  BY <1>2, <1>14 DEF DeviceRestart, FlushDevice
<1>15. CASE UNCHANGED vars
  BY <1>2, <1>15 DEF vars, hostVars
<1> QED
  BY <1>5, <1>6, <1>7, <1>8, <1>9, <1>10, <1>11, <1>12, <1>13, <1>14, <1>15 DEF Next, HostStep, DeviceStep

\* Every action keeps the lag within the commands that failed.
LEMMA LagStep == Inv /\ ResponseInv /\ LagBounded /\ [Next]_vars => LagBounded'
<1> SUFFICES ASSUME Inv, Inv', ResponseInv, LagBounded, [Next]_vars PROVE LagBounded'
  BY InvStep
<1>1. /\ Asked \in Nat /\ Served \in Nat /\ Answered \in Nat /\ Allowed \in Nat
      /\ Asked + Served + Answered =< Allowed
  BY LagParts DEF Inv
<1>2. /\ Asked' \in Nat /\ Served' \in Nat /\ Answered' \in Nat /\ Allowed' \in Nat
      /\ Asked' + Served' + Answered' =< Allowed' => LagBounded'
  <2>1. outp' \in Seq(Packet) /\ inp' \in Seq(Packet) /\ fails' \in Nat
    BY DEF Inv, TypeInv, TypeOK
  <2>2. Cardinality(Places(outp', "req")) \in Nat /\ Cardinality(Places(inp', "res")) \in Nat
    BY <2>1, PlacesFinite
  <2>3. Asked' \in Nat /\ Served' \in Nat /\ Answered' \in Nat /\ Allowed' \in Nat
    <3>1. Asked' \in Nat /\ Answered' \in Nat
      BY <2>2 DEF Asked, Answered, Places
    <3>2. Served' \in Nat
      BY DEF Served
    <3>3. Allowed' = fails' + 0 \/ Allowed' = fails' + 1
      <4>1. CASE pc' \in {"idle", "send_req"}
        BY <4>1 DEF Allowed
      <4>2. CASE pc' \notin {"idle", "send_req"}
        BY <4>2 DEF Allowed
      <4> QED
        BY <4>1, <4>2
    <3> QED
      BY <2>1, <3>1, <3>2, <3>3
  <2>4. Owed' = Asked' + Served' + Answered'
    BY DEF Owed, Asked, Served, Answered, Places
  <2> QED
    BY <2>3, <2>4 DEF LagBounded, Allowed
<1>3. outp \in Seq(Packet) /\ inp \in Seq(Packet) /\ dreq \in Packet /\ fails \in Nat
  BY DEF Inv, TypeInv, TypeOK
<1>4. UNCHANGED outp => Asked' = Asked
  BY DEF Asked, Places
<1>5. UNCHANGED inp => Answered' = Answered
  BY DEF Answered, Places
<1>6. outp' = << >> => Asked' = 0
  <2>1. Cardinality(Places(<< >>, "req")) = 0
    BY PlacesEmpty
  <2> QED
    BY <2>1 DEF Asked, Places
<1>7. inp' = << >> => Answered' = 0
  <2>1. Cardinality(Places(<< >>, "res")) = 0
    BY PlacesEmpty
  <2> QED
    BY <2>1 DEF Answered, Places
<1>8. outp # << >> /\ outp' = Tail(outp) => Asked' = Asked - (IF Head(outp).kind = "req" THEN 1 ELSE 0)
  <2> SUFFICES ASSUME outp # << >>, outp' = Tail(outp)
               PROVE  Asked' = Asked - (IF Head(outp).kind = "req" THEN 1 ELSE 0)
    OBVIOUS
  <2>1. Cardinality(Places(outp, "req"))
          = Cardinality(Places(Tail(outp), "req")) + (IF Head(outp).kind = "req" THEN 1 ELSE 0)
    BY <1>3, PlacesTail
  <2>2. Asked = Cardinality(Places(outp, "req")) /\ Asked' = Cardinality(Places(Tail(outp), "req"))
    BY DEF Asked, Places
  <2> HIDE DEF Asked
  <2> QED
    BY <1>1, <1>2, <2>1, <2>2
<1>9. inp # << >> /\ inp' = Tail(inp) => Answered' = Answered - (IF Head(inp).kind = "res" THEN 1 ELSE 0)
  <2> SUFFICES ASSUME inp # << >>, inp' = Tail(inp)
               PROVE  Answered' = Answered - (IF Head(inp).kind = "res" THEN 1 ELSE 0)
    OBVIOUS
  <2>1. Cardinality(Places(inp, "res"))
          = Cardinality(Places(Tail(inp), "res")) + (IF Head(inp).kind = "res" THEN 1 ELSE 0)
    BY <1>3, PlacesTail
  <2>2. Answered = Cardinality(Places(inp, "res")) /\ Answered' = Cardinality(Places(Tail(inp), "res"))
    BY DEF Answered, Places
  <2> HIDE DEF Answered
  <2> QED
    BY <1>1, <1>2, <2>1, <2>2
<1>10. ASSUME NEW p \in Packet, outp' = Append(outp, p)
       PROVE  Asked' = Asked + (IF p.kind = "req" THEN 1 ELSE 0)
  <2>1. Cardinality(Places(Append(outp, p), "req"))
          = Cardinality(Places(outp, "req")) + (IF p.kind = "req" THEN 1 ELSE 0)
    BY <1>3, PlacesAppend
  <2> QED
    BY <1>10, <2>1 DEF Asked, Places
<1>11. ASSUME NEW p \in Packet, inp' = Append(inp, p)
       PROVE  Answered' = Answered + (IF p.kind = "res" THEN 1 ELSE 0)
  <2>1. Cardinality(Places(Append(inp, p), "res"))
          = Cardinality(Places(inp, "res")) + (IF p.kind = "res" THEN 1 ELSE 0)
    BY <1>3, PlacesAppend
  <2> QED
    BY <1>11, <2>1 DEF Answered, Places
<1>12. ASSUME UNCHANGED <<outp, dphase>>, Allowed' >= Allowed,
              UNCHANGED inp \/ (inp # << >> /\ inp' = Tail(inp))
       PROVE  LagBounded'
  <2>1. Served' = Served /\ Asked' = Asked
    BY <1>4, <1>12 DEF Served
  <2>2. Answered' = Answered \/ Answered' = Answered - 1
    BY <1>1, <1>5, <1>9, <1>12
  <2> QED
    <3>1. Allowed' >= Allowed
      BY <1>12
    <3>2. CASE Answered' = Answered
      BY <1>1, <1>2, <2>1, <3>1, <3>2
    <3>3. CASE Answered' = Answered - 1
      BY <1>1, <1>2, <2>1, <3>1, <3>3
    <3> QED
      BY <2>2, <3>2, <3>3
<1>13. ASSUME outp' = << >>, inp' = << >>, dphase' = "cmd" PROVE LagBounded'
  BY <1>2, <1>6, <1>7, <1>13 DEF Served
<1>14. ASSUME NEW c \in Commands, Issue(c) PROVE LagBounded'
  BY <1>12, <1>14, <1>3 DEF Issue, Allowed, deviceVars
<1>15. CASE SendPacket
  <2>1. /\ pc \in {"send_req", "send_data"} /\ NextPacket \in Packet /\ outp' = Append(outp, NextPacket)
        /\ UNCHANGED <<inp, dphase>>
        /\ \/ NextPhase
           \/ pc # "send_req" /\ UNCHANGED <<pc, ret, fails>>
    BY <1>15, SentPacketType DEF SendPacket, NextPacket, Inv, deviceVars
  <2>2. pc' \in {"send_data", "recv_data", "recv_res"} /\ UNCHANGED fails
    BY <2>1, NextPhaseType DEF NextPhase, Busy, Inv
  <2>3. Asked' = Asked + (IF NextPacket.kind = "req" THEN 1 ELSE 0)
    BY <1>10, <2>1
  <2>4. NextPacket.kind = IF pc = "send_req" THEN "req" ELSE "data"
    BY DEF NextPacket, ReqPacket, DataPacket
  <2>5. Allowed' = Allowed + (IF pc = "send_req" THEN 1 ELSE 0)
    BY <1>3, <2>1, <2>2 DEF Allowed
  <2>6. Answered' = Answered /\ Served' = Served
    BY <1>5, <2>1 DEF Served
  <2> QED
    BY <1>1, <1>2, <2>3, <2>4, <2>5, <2>6
<1>16. CASE RecvPacket
  <2>1. /\ pc \in {"recv_data", "recv_res"} /\ inp # << >> /\ inp' = Tail(inp)
        /\ UNCHANGED <<outp, dphase>>
        /\ \/ UNCHANGED <<pc, ret, fails>>
           \/ NextPhase
           \/ Return("false")
           \/ pc = "recv_res" /\ SignatureOk(res') /\ Return("true")
    BY <1>16 DEF RecvPacket, deviceVars
  <2>2. CASE UNCHANGED <<pc, ret, fails>>
    BY <1>12, <1>1, <2>1, <2>2 DEF Allowed
  <2>3. CASE NextPhase
    <3>1. pc' \in {"send_data", "recv_data", "recv_res"} /\ UNCHANGED fails
      BY <2>1, <2>3, NextPhaseType DEF NextPhase, Busy, Inv
    <3> QED
      BY <1>1, <1>12, <2>1, <3>1 DEF Allowed
  <2>4. CASE Return("false")
    BY <1>3, <1>12, <2>1, <2>4 DEF Return, Allowed
  <2>5. CASE pc = "recv_res" /\ SignatureOk(res') /\ Return("true")
    <3>1. res' = res \cup {[at |-> LengthOf(pc) - left, pkt |-> Head(inp)]}
      BY <1>16, <2>5 DEF RecvPacket
    <3>2. Head(inp).kind = "res"
      BY <2>5, <3>1 DEF ResponseInv, SignatureOk
    <3>3. Answered' = Answered - 1 /\ Asked' = Asked /\ Served' = Served
      BY <1>4, <1>9, <2>1, <3>2 DEF Served
    <3>4. Allowed' = Allowed - 1
      BY <1>3, <2>5 DEF Return, Allowed
    <3> QED
      BY <1>1, <1>2, <3>3, <3>4
  <2> QED
    BY <2>1, <2>2, <2>3, <2>4, <2>5
<1>17. CASE RecvOverflow \/ TransferError
  <2>1. /\ Return("false") /\ UNCHANGED <<outp, dphase>>
        /\ UNCHANGED inp \/ (inp # << >> /\ inp' = Tail(inp))
    BY <1>17 DEF RecvOverflow, TransferError, deviceVars
  <2>2. Allowed' >= Allowed
    BY <1>3, <2>1 DEF Return, Allowed
  <2> QED
    BY <1>12, <2>1, <2>2
<1>18. CASE BusReset
  <2>1. \/ FlushDevice
        \/ fails' = fails + 1 /\ pc = "send_req" /\ UNCHANGED <<outp, inp, dphase>>
    BY <1>18 DEF BusReset, deviceVars
  <2>2. CASE FlushDevice
    BY <1>13, <2>2 DEF FlushDevice
  <2>3. CASE fails' = fails + 1 /\ pc = "send_req" /\ UNCHANGED <<outp, inp, dphase>>
    <3>1. Allowed' >= Allowed
      BY <1>3, <1>18, <2>3 DEF BusReset, Allowed
    <3> QED
      BY <1>12, <2>3, <3>1
  <2> QED
    BY <2>1, <2>2, <2>3
<1>19. CASE NewProcess
  <2>1. /\ pc' = "idle" /\ UNCHANGED <<outp, inp, dphase>>
        /\ fails' = IF gone THEN 0 ELSE IF Busy THEN fails + 1 ELSE fails
    BY <1>19 DEF NewProcess, deviceVars
  <2>2. CASE gone
    <3>1. outp = << >> /\ inp = << >> /\ dphase = "cmd"
      BY <2>2 DEF Inv, ChannelInv, Quiet
    <3> QED
      BY <1>13, <2>1, <3>1
  <2>3. CASE ~gone
    <3>1. Allowed' >= Allowed
      BY <1>3, <2>1, <2>3 DEF Allowed, Busy
    <3> QED
      BY <1>12, <2>1, <3>1
  <2> QED
    BY <2>2, <2>3
<1>20. UNCHANGED hostVars => Allowed' = Allowed
  BY DEF hostVars, Allowed
<1>21. CASE DeviceTakeRequest
  <2>1. /\ dphase = "cmd" /\ outp # << >> /\ outp' = Tail(outp)
        /\ UNCHANGED <<hostVars, inp>>
        /\ IF Head(outp).kind = "req" THEN dphase' \in {"recv", "exec"} ELSE UNCHANGED dphase
    BY <1>21 DEF DeviceTakeRequest
  <2>2. Asked' = Asked - (IF Head(outp).kind = "req" THEN 1 ELSE 0) /\ Answered' = Answered
    BY <1>5, <1>8, <2>1
  <2>3. Served' = Served + (IF Head(outp).kind = "req" THEN 1 ELSE 0)
    BY <2>1 DEF Served
  <2> QED
    BY <1>1, <1>2, <1>20, <2>1, <2>2, <2>3
<1>22. CASE DeviceTakeData
  <2>1. /\ dphase = "recv" /\ outp # << >> /\ outp' = Tail(outp)
        /\ UNCHANGED <<hostVars, inp>> /\ dphase' \in {"recv", "exec"}
    BY <1>22 DEF DeviceTakeData
  <2>2. Answered' = Answered /\ Served' = Served
    BY <1>5, <2>1 DEF Served
  <2>3. Asked' = Asked \/ Asked' = Asked - 1
    BY <1>1, <1>8, <2>1
  <2> QED
    <3>1. Allowed' = Allowed
      BY <1>20, <2>1
    <3>2. CASE Asked' = Asked
      BY <1>1, <1>2, <2>2, <3>1, <3>2
    <3>3. CASE Asked' = Asked - 1
      BY <1>1, <1>2, <2>2, <3>1, <3>3
    <3> QED
      BY <2>3, <3>2, <3>3
<1>23. CASE DeviceExecute
  <2>1. UNCHANGED <<hostVars, outp, inp>> /\ dphase # "cmd" /\ dphase' # "cmd"
    BY <1>23 DEF DeviceExecute
  <2> QED
    BY <1>1, <1>2, <1>4, <1>5, <1>20, <2>1 DEF Served
<1>24. CASE DeviceSendData
  <2> DEFINE p == DataPacket(dreq.from, dreq.tag, dreq.cmd, dleft)
  <2>1. p \in Packet
    BY <1>3, DataPacketType DEF Inv, TypeInv, TypeOK, PhaseOK, Packet
  <2>2. p.kind # "res"
    BY DEF DataPacket
  <2>3. inp' = Append(inp, p) /\ UNCHANGED <<hostVars, outp>> /\ dphase # "cmd" /\ dphase' # "cmd"
    BY <1>24 DEF DeviceSendData
  <2> HIDE DEF p
  <2>4. Answered' = Answered
    BY <1>1, <1>11, <2>1, <2>2, <2>3
  <2> QED
    BY <1>1, <1>2, <1>4, <1>20, <2>3, <2>4 DEF Served
<1>25. CASE DeviceSendResponse
  <2>1. ResPacket \in Packet /\ ResPacket.kind = "res"
    BY <1>3 DEF ResPacket, Packet, ResponseLen
  <2>2. inp' = Append(inp, ResPacket) /\ UNCHANGED <<hostVars, outp>> /\ dphase = "status" /\ dphase' = "cmd"
    BY <1>25 DEF DeviceSendResponse
  <2>3. Answered' = Answered + 1
    BY <1>11, <2>1, <2>2
  <2> QED
    BY <1>1, <1>2, <1>4, <1>20, <2>2, <2>3 DEF Served
<1>26. CASE DeviceRestart
  BY <1>13, <1>26 DEF DeviceRestart, FlushDevice
<1>27. CASE UNCHANGED vars
  <2>1. UNCHANGED <<outp, inp, dphase>> /\ UNCHANGED hostVars
    BY <1>27 DEF vars, deviceVars
  <2> QED
    BY <1>1, <1>12, <1>20, <2>1
<1> QED
  BY <1>14, <1>15, <1>16, <1>17, <1>18, <1>19, <1>21, <1>22, <1>23, <1>24, <1>25, <1>26, <1>27
  DEF Next, HostStep, DeviceStep

\* Nobody is asked anything at the beginning.
LEMMA LagInit == Init => LagBounded
<1> SUFFICES ASSUME Init PROVE LagBounded
  OBVIOUS
<1>1. outp = << >> /\ inp = << >> /\ dphase = "cmd" /\ pc = "idle" /\ fails = 0
  BY DEF Init
<1>2. Asked = 0 /\ Answered = 0 /\ Served = 0 /\ Allowed = 0
  BY <1>1, PlacesEmpty DEF Asked, Answered, Served, Allowed
<1>3. TypeInv
  BY TypeInit
<1> QED
  BY <1>2, <1>3, LagParts

\* A command that returns true has read one response: however many commands failed,
\* were killed or met an unplugged device, the answers that wait for a later reader
\* are at most as many as the commands that failed (rk_usb.cpp 654-678).
THEOREM LagIsBounded == Spec => []LagBounded
BY InvInit, InvStep, ResponseInit, ResponseStep, LagInit, LagStep, PTL DEF Spec, Inv
=============================================================================
