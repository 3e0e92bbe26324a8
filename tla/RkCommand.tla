------------------------------ MODULE RkCommand ------------------------------
(***************************************************************************)
(* One rk_usb process after another talking to one device over a bulk OUT  *)
(* and a bulk IN endpoint (rk_usb.cpp).                                    *)
(*                                                                         *)
(* The host part is usb_bulk_send, usb_bulk_recv and the body every        *)
(* command function shares: send the request, move the data, receive the   *)
(* response, check its signature.  The device part is external: it is what *)
(* the host code takes the boot ROM or usbplug program to be, a sequential *)
(* server of requests that may be arbitrarily slow.  Late answers are the  *)
(* interesting behaviour: after 2000 ms the host gives up and returns      *)
(* false, but nothing tells the device, and nothing empties the endpoints. *)
(*                                                                         *)
(* A step moves one USB packet.  serial, from, fails and log are history:  *)
(* serial numbers transactions over all processes, which the code does not *)
(* do; the tag of the code is `tag' (see make_tag).                        *)
(***************************************************************************)
EXTENDS RkOpcodes, Integers, Sequences, FiniteSets

CONSTANTS
    Commands,   \* the commands that processes may issue
    MPS,        \* the endpoints' maximum packet size
    OutCap,     \* packets the device side buffers on OUT ...
    InCap,      \* ... and on IN
    MaxCalls    \* bound: transactions in a behaviour

ASSUME CommandsAssumption == \A c \in Commands : IsCommand(c)
ASSUME MPSAssumption == MPS \in Nat /\ MPS >= RequestLen /\ MPS >= ResponseLen
ASSUME CapAssumption == OutCap \in Nat \ {0} /\ InCap \in Nat \ {0}
ASSUME BoundAssumption == MaxCalls \in Nat

VARIABLES
    pc,      \* where the calling thread is
    cmd,     \* the command being run, or the last one
    serial,  \* how many transactions were started
    tag,     \* how often this process called make_tag: its place in rand()
    left,    \* `len' of usb_bulk_send / usb_bulk_recv: bytes still to move
    buf,     \* the packets put in the caller's buffer, and at which offset
    res,     \* the packets put in the usb_response_t, and at which offset
    ret,     \* what the last command returned
    gone,    \* the open handle no longer reaches the device
    fails,   \* commands that failed since the endpoints were last reset
    outp,    \* OUT packets the device has not taken yet
    inp,     \* IN packets the host has not taken yet
    dphase,  \* where the device's server loop is
    dreq,    \* the request it serves
    dleft,   \* data bytes it still expects or still has to send
    dbuf,    \* the packets it took as the data of dreq, and at which offset
    log      \* the requests it executed

hostVars   == <<pc, cmd, serial, tag, left, buf, res, ret, gone, fails>>
deviceVars == <<dphase, dreq, dleft, dbuf, log>>
vars       == <<hostVars, outp, inp, deviceVars>>

-----------------------------------------------------------------------------
\* What travels: requests, data and responses, packet by packet.

Least(a, b) == IF a < b THEN a ELSE b

Packet == [kind : {"req", "data", "res"}, from : Nat, tag : Nat, cmd : Commands,
           off : Nat, size : Nat]

Placed == [at : Nat, pkt : Packet]

LogEntry == [from : Nat, cmd : Commands, data : SUBSET Placed]

ReqPacket == [kind |-> "req", from |-> serial, tag |-> tag, cmd |-> cmd,
              off |-> 0, size |-> RequestLen]

DataPacket(s, t, c, rest) ==
    [kind |-> "data", from |-> s, tag |-> t, cmd |-> c,
     off |-> c.len - rest, size |-> Least(rest, MPS)]

ResPacket == [kind |-> "res", from |-> dreq.from, tag |-> dreq.tag, cmd |-> dreq.cmd,
              off |-> 0, size |-> ResponseLen]

Busy == pc # "idle"

\* The length each phase of a command hands to usb_bulk_send or usb_bulk_recv.
LengthOf(p) == CASE p = "send_req" -> RequestLen
                 [] p \in {"send_data", "recv_data"} -> cmd.len
                 [] p = "recv_res" -> ResponseLen

\* The phase that follows when a send or a receive returned true.
After(p) == CASE p = "send_req" /\ cmd.dir = "out" -> "send_data"
              [] p = "send_req" /\ cmd.dir = "in"  -> "recv_data"
              [] OTHER -> "recv_res"

\* The signature is the first field of the response: it is right exactly when
\* a response packet was placed at offset 0.
SignatureOk(received) == \E r \in received : r.at = 0 /\ r.pkt.kind = "res"

-----------------------------------------------------------------------------
Init ==
    /\ pc = "idle" /\ cmd \in Commands /\ serial = 0 /\ tag = 0 /\ left = 0
    /\ buf = {} /\ res = {} /\ ret = "none" /\ gone = FALSE /\ fails = 0
    /\ outp = << >> /\ inp = << >>
    /\ dphase = "cmd" /\ dleft = 0 /\ dbuf = {} /\ log = << >>
    /\ dreq = ReqPacket

-----------------------------------------------------------------------------
\* The host: RK_usb.

\* A command function starts: build the request, begin usb_bulk_send.
Issue(c) ==
    /\ pc = "idle" /\ serial < MaxCalls
    /\ pc' = "send_req" /\ cmd' = c
    /\ serial' = serial + 1 /\ tag' = tag + 1
    /\ left' = RequestLen /\ buf' = {} /\ res' = {} /\ ret' = "none"
    /\ UNCHANGED <<gone, fails, outp, inp, deviceVars>>

\* `return true' or `return false'.
Return(value) ==
    /\ pc' = "idle" /\ ret' = value /\ left' = 0
    /\ fails' = IF value = "false" THEN fails + 1 ELSE fails

\* usb_bulk_send returned true: go on to the data phase or the response.
NextPhase ==
    /\ pc' = After(pc) /\ left' = LengthOf(pc')
    /\ UNCHANGED <<ret, fails>>

\* Mutant: `buf = (uint8_t*)buf + bytes' is missing in usb_bulk_send.
SendPacketSameBytes ==
    /\ pc \in {"send_req", "send_data"} /\ ~gone /\ Len(outp) < OutCap
    /\ LET p == IF pc = "send_req" THEN ReqPacket
                 ELSE [DataPacket(serial, tag, cmd, left) EXCEPT !.off = 0]
       IN  /\ outp' = Append(outp, p)
           /\ IF left = p.size
              THEN NextPhase
              ELSE left' = left - p.size /\ UNCHANGED <<pc, ret, fails>>
    /\ UNCHANGED <<cmd, serial, tag, buf, res, gone, inp, deviceVars>>

\* usb_bulk_send: the transfer moves a packet; `len -= bytes'.
SendPacket ==
    /\ pc \in {"send_req", "send_data"} /\ ~gone /\ Len(outp) < OutCap
    /\ LET p == IF pc = "send_req" THEN ReqPacket
                                   ELSE DataPacket(serial, tag, cmd, left)
       IN  /\ outp' = Append(outp, p)
           /\ IF left = p.size
              THEN NextPhase
              ELSE left' = left - p.size /\ UNCHANGED <<pc, ret, fails>>
    /\ UNCHANGED <<cmd, serial, tag, buf, res, gone, inp, deviceVars>>

\* Mutant: usb_bulk_recv does not look at the length of what arrived.
RecvPacketUnchecked ==
    /\ pc \in {"recv_data", "recv_res"} /\ ~gone /\ inp # << >>
    /\ inp' = Tail(inp) /\ left' = left - Head(inp).size
    /\ UNCHANGED <<pc, cmd, serial, tag, buf, res, ret, gone, fails, outp, deviceVars>>

\* Mutant: `buf = (uint8_t*)buf + bytes' is missing in usb_bulk_recv.
RecvPacketSamePlace ==
    /\ pc \in {"recv_data", "recv_res"} /\ ~gone /\ inp # << >>
    /\ Head(inp).size <= left
    /\ inp' = Tail(inp)
    /\ LET got == {[at |-> 0, pkt |-> Head(inp)]}
       IN  /\ buf' = IF pc = "recv_data" THEN buf \cup got ELSE buf
           /\ res' = IF pc = "recv_res"  THEN res \cup got ELSE res
    /\ \/ /\ left > Head(inp).size
          /\ left' = left - Head(inp).size /\ UNCHANGED <<pc, ret, fails>>
       \/ left = Head(inp).size /\ pc = "recv_data" /\ NextPhase
       \/ /\ left = Head(inp).size /\ pc = "recv_res"
          /\ Return(IF SignatureOk(res') THEN "true" ELSE "false")
    /\ UNCHANGED <<cmd, serial, tag, gone, outp, deviceVars>>

\* The loop of usb_bulk_recv: the transfer always asks for all that is left.
\* A packet that fits goes into the buffer; a short one ends the transfer and
\* the loop starts another for the rest.
RecvPacket ==
    /\ pc \in {"recv_data", "recv_res"} /\ ~gone /\ inp # << >>
    /\ Head(inp).size <= left
    /\ inp' = Tail(inp)
    /\ LET at == LengthOf(pc) - left
           got == {[at |-> at, pkt |-> Head(inp)]}
       IN  /\ buf' = IF pc = "recv_data" THEN buf \cup got ELSE buf
           /\ res' = IF pc = "recv_res"  THEN res \cup got ELSE res
    /\ \/ /\ left > Head(inp).size
          /\ left' = left - Head(inp).size /\ UNCHANGED <<pc, ret, fails>>
       \/ left = Head(inp).size /\ pc = "recv_data" /\ NextPhase
       \/ /\ left = Head(inp).size /\ pc = "recv_res"
          /\ Return(IF SignatureOk(res') THEN "true" ELSE "false")
    /\ UNCHANGED <<cmd, serial, tag, gone, outp, deviceVars>>

\* A packet longer than what is left of the transfer: LIBUSB_ERROR_OVERFLOW.
\* The packet is lost and the command returns false.
RecvOverflow ==
    /\ pc \in {"recv_data", "recv_res"} /\ ~gone /\ inp # << >>
    /\ Head(inp).size > left
    /\ inp' = Tail(inp)
    /\ Return("false")
    /\ UNCHANGED <<cmd, serial, tag, buf, res, gone, outp, deviceVars>>

\* Mutant: the result of receiving the response is ignored.
TransferErrorIgnored ==
    /\ Busy
    /\ ~(pc = "send_req" /\ cmd.name = "reset")
    /\ Return(IF pc = "recv_res" THEN "true" ELSE "false")
    /\ UNCHANGED <<cmd, serial, tag, buf, res, gone, outp, inp, deviceVars>>

\* Mutant: a command whose response does not come is sent once more.
TransferErrorRetried ==
    /\ Busy
    /\ ~(pc = "send_req" /\ cmd.name = "reset")
    /\ IF pc = "recv_res" /\ buf = {}
       THEN pc' = "send_req" /\ left' = RequestLen /\ UNCHANGED <<ret, fails>>
       ELSE Return("false")
    /\ UNCHANGED <<cmd, serial, tag, buf, res, gone, outp, inp, deviceVars>>

\* Mutant: the bulk transfers have no timeout (0), as the control
\* transfers of maskrom_upload_memory have none.
TransferErrorNoTimeout ==
    /\ Busy /\ gone
    /\ ~(pc = "send_req" /\ cmd.name = "reset")
    /\ Return("false")
    /\ UNCHANGED <<cmd, serial, tag, buf, res, gone, outp, inp, deviceVars>>

\* libusb_bulk_transfer returns non-zero: 2000 ms passed, or the device is gone.
\* What was moved so far stays moved.  reset answers a failed send of its
\* request with libusb_reset_device instead (BusReset).
TransferError ==
    /\ Busy
    /\ ~(pc = "send_req" /\ cmd.name = "reset")
    /\ Return("false")
    /\ UNCHANGED <<cmd, serial, tag, buf, res, gone, outp, inp, deviceVars>>

\* The device's endpoints and its server loop start from scratch.
FlushDevice ==
    /\ outp' = << >> /\ inp' = << >>
    /\ dphase' = "cmd" /\ dleft' = 0 /\ dbuf' = {}
    /\ UNCHANGED <<dreq, log>>

\* reset cannot send its request and calls libusb_reset_device, whose result is
\* ignored: it fails and changes nothing, or it resets the device, which may
\* come back under another address so that the handle is dead.
BusReset ==
    /\ pc = "send_req" /\ cmd.name = "reset"
    /\ pc' = "idle" /\ ret' = "false" /\ left' = 0
    /\ \/ /\ ~gone
          /\ FlushDevice /\ fails' = 0 /\ gone' \in BOOLEAN
       \/ /\ fails' = fails + 1
          /\ UNCHANGED <<gone, outp, inp, deviceVars>>
    /\ UNCHANGED <<cmd, serial, tag, buf, res>>

\* The process ends, or is killed in the middle of a command, and another one
\* is started: RK_usb::init opens the device again; rand() starts over.
NewProcess ==
    /\ pc' = "idle" /\ ret' = "none" /\ left' = 0 /\ tag' = 0 /\ gone' = FALSE
    /\ fails' = IF gone THEN 0 ELSE IF Busy THEN fails + 1 ELSE fails
    /\ UNCHANGED <<cmd, serial, buf, res, outp, inp, deviceVars>>

-----------------------------------------------------------------------------
\* The device (external).

\* It takes a request; anything else out of place is dropped.
DeviceTakeRequest ==
    /\ dphase = "cmd" /\ outp # << >>
    /\ outp' = Tail(outp)
    /\ IF Head(outp).kind = "req"
       THEN /\ dreq' = Head(outp) /\ dbuf' = {}
            /\ dphase' = IF dreq'.cmd.dir = "out" THEN "recv" ELSE "exec"
            /\ dleft' = dreq'.cmd.len
       ELSE UNCHANGED <<dphase, dreq, dleft, dbuf>>
    /\ UNCHANGED <<hostVars, inp, log>>

\* It counts bytes: whatever arrives while it expects data is data.
DeviceTakeData ==
    /\ dphase = "recv" /\ outp # << >>
    /\ outp' = Tail(outp)
    /\ LET p == Head(outp) IN
       /\ dbuf' = dbuf \cup {[at |-> dreq.cmd.len - dleft, pkt |-> p]}
       /\ dleft' = dleft - Least(p.size, dleft)
       /\ dphase' = IF dleft' = 0 THEN "exec" ELSE "recv"
    /\ UNCHANGED <<hostVars, inp, dreq, log>>

\* The command takes effect.
DeviceExecute ==
    /\ dphase = "exec"
    /\ log' = Append(log, [from |-> dreq.from, cmd |-> dreq.cmd, data |-> dbuf])
    /\ dphase' = IF dreq.cmd.dir = "in" THEN "send" ELSE "status"
    /\ UNCHANGED <<hostVars, outp, inp, dreq, dleft, dbuf>>

DeviceSendData ==
    /\ dphase = "send" /\ Len(inp) < InCap
    /\ LET p == DataPacket(dreq.from, dreq.tag, dreq.cmd, dleft) IN
       /\ inp' = Append(inp, p)
       /\ dleft' = dleft - p.size
       /\ dphase' = IF dleft' = 0 THEN "status" ELSE "send"
    /\ UNCHANGED <<hostVars, outp, dreq, dbuf, log>>

DeviceSendResponse ==
    /\ dphase = "status" /\ Len(inp) < InCap
    /\ inp' = Append(inp, ResPacket)
    /\ dphase' = "cmd"
    /\ UNCHANGED <<hostVars, outp, dreq, dleft, dbuf, log>>

\* Unplugged, or its power fails: it comes back empty, under another address.
DeviceRestart ==
    /\ FlushDevice
    /\ gone' = TRUE
    /\ UNCHANGED <<pc, cmd, serial, tag, left, buf, res, ret, fails>>

-----------------------------------------------------------------------------
\* What the calling thread does once it is in a command.
HostStep == SendPacket \/ RecvPacket \/ RecvOverflow \/ TransferError \/ BusReset

DeviceStep == \/ DeviceTakeRequest \/ DeviceTakeData \/ DeviceExecute
              \/ DeviceSendData \/ DeviceSendResponse

Next ==
    \/ \E c \in Commands : Issue(c)
    \/ HostStep
    \/ NewProcess
    \/ DeviceStep
    \/ DeviceRestart

Spec == Init /\ [][Next]_vars

\* Every transfer has a 2000 ms timeout, so a started command keeps moving.
\* Nothing is assumed of the device.
FairSpec == Spec /\ WF_vars(HostStep)
-----------------------------------------------------------------------------
\* Types, and the sizes the loops rely on.
TypeOK ==
    /\ pc \in {"idle", "send_req", "send_data", "recv_data", "recv_res"}
    /\ cmd \in Commands /\ serial \in Nat /\ tag \in Nat /\ left \in Nat
    /\ buf \in SUBSET Placed /\ res \in SUBSET Placed
    /\ ret \in {"none", "true", "false"} /\ gone \in BOOLEAN /\ fails \in Nat
    /\ outp \in Seq(Packet) /\ inp \in Seq(Packet)
    /\ dphase \in {"cmd", "recv", "exec", "send", "status"}
    /\ dreq \in Packet /\ dleft \in Nat /\ dbuf \in SUBSET Placed
    /\ log \in Seq(LogEntry)
    /\ Len(outp) =< OutCap /\ Len(inp) =< InCap
    /\ Busy => left \in 1..LengthOf(pc)

-----------------------------------------------------------------------------
\* While every command has returned true, a process between two commands finds
\* both endpoints empty and the device waiting for a request: no command leaves
\* a packet behind that the next one (or the next process) would take for its own.
QuietBetweenCommands ==
    (fails = 0 /\ pc = "idle") => (outp = << >> /\ inp = << >> /\ dphase = "cmd")

\* The packets are those of transaction `s' and each is where it belongs.
InPlace(received, kind, s) ==
    \A r \in received : r.pkt.kind = kind /\ r.pkt.from = s /\ r.pkt.off = r.at

\* ... and up to offset n none is missing.
Gapless(received, n) ==
    \A k \in 0..n-1 : \E r \in received : r.at =< k /\ k < r.at + r.pkt.size

\* usb_bulk_recv glues packets together and the caller checks a signature only.
\* While no command has failed, `true' still means: the buffer holds exactly the
\* data that the device sent for this command, and the response is its own.
OwnAnswer ==
    (fails = 0 /\ ret = "true") =>
        /\ InPlace(buf, "data", serial) /\ InPlace(res, "res", serial)
        /\ cmd.dir = "in" => Gapless(buf, cmd.len)

\* The device counts bytes and takes whatever comes for data.  While no command
\* has failed, it executes a command with exactly the data the host sent for it.
ExecutesWhatWasSent ==
    [][(log' # log /\ fails = 0) =>
            LET e == log'[Len(log')] IN
            /\ InPlace(e.data, "data", e.from)
            /\ e.cmd.dir = "out" => Gapless(e.data, e.cmd.len)]_vars

\* No request is executed twice and none overtakes another, whatever times out,
\* is killed or is unplugged: a late command never undoes a later one.
ExecutedInOrder == \A i, j \in DOMAIN log : i < j => log[i].from < log[j].from

\* Answers that somebody will still have to read.
Owed == Cardinality({i \in DOMAIN outp : outp[i].kind = "req"})
        + (IF dphase = "cmd" THEN 0 ELSE 1)
        + Cardinality({i \in DOMAIN inp : inp[i].kind = "res"})

\* Commands that return true never put the two sides further apart: the answers
\* that wait for a later reader are at most as many as the commands that failed.
LagBounded == Owed =< fails + (IF pc \in {"idle", "send_req"} THEN 0 ELSE 1)

\* A command returns, also when the device never answers and when both sides
\* wait for each other (the host to send data, the device to send an old answer).
CommandReturns == Busy ~> ~Busy

\* What the struct comment says of the response: `Same as original command'.
\* The code never compares tags, and takes a late answer for its own.
AcceptsOwnTag == ret = "true" => \A r \in res : r.pkt.tag = tag

-----------------------------------------------------------------------------
(***************************************************************************)
(* What one caller sees of it: a remote call.                              *)
(***************************************************************************)
Requests(q) == {q[i].from : i \in {j \in DOMAIN q : q[j].kind = "req"}}

Pending == (IF pc = "send_req" THEN {serial} ELSE {})
           \cup Requests(outp)
           \cup (IF dphase \in {"recv", "exec"} THEN {dreq.from} ELSE {})

Executed == {log[i].from : i \in DOMAIN log}

Call == INSTANCE RkCall WITH
    started <- serial, busy <- Busy, result <- ret,
    pending <- Pending, executed <- Executed, trusted <- (fails = 0)

\* Command by command the program implements the remote call: whatever is late,
\* lost or restarted, the device executes a call at most once and in order, and
\* `true' means it was executed while no call has failed since the last reset.
ImplementsCall == Call!FairSpec
=============================================================================
