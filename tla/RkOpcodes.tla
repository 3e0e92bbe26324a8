------------------------------ MODULE RkOpcodes ------------------------------
(***************************************************************************)
(* The commands of class RK_usb (rk_usb.cpp) as the shape of the single    *)
(* transaction each of them runs with the device:                          *)
(*                                                                         *)
(*   usb_request_t (31 bytes, OUT)                                         *)
(*   -> data phase: none, `len' bytes IN or `len' bytes OUT                *)
(*   -> usb_response_t (13 bytes, IN)                                      *)
(*                                                                         *)
(* Two commands are told apart by what a transaction depends on: the       *)
(* direction and length of the data phase, whether the device changes its  *)
(* own state when it executes the command, and what the code does when the *)
(* request cannot be sent (only reset does anything).  Opcodes, sub-codes  *)
(* and addresses are payload and are left out.                             *)
(***************************************************************************)
EXTENDS Naturals

\* The two packed structures, in bytes: 4+4+4+1+1+1+16 and 4+4+4+1.
RequestLen  == 31
ResponseLen == 13

\* A sector, as `cnt_sec << 9' counts it.
Sector == 512

Directions == {"none", "in", "out"}

Command(name, dir, len) == [name |-> name, dir |-> dir, len |-> len]

NoData(name)       == Command(name, "none", 0)
DataIn(name, len)  == Command(name, "in", len)
DataOut(name, len) == Command(name, "out", len)

chip_ready          == NoData("chip_ready")
version             == DataIn("version", 16)
capability          == DataIn("capability", 8)
reset               == NoData("reset")
exec                == NoData("exec")
read_raw(len)       == DataIn("read_raw", len)
write_raw(len)      == DataOut("write_raw", len)
otp_read(len)       == DataIn("otp_read", len)
vs_read(len)        == DataIn("vs_read", len)
vs_write(len)       == DataOut("vs_write", len)
storage_read        == DataIn("storage_read", 4)
storage_switch      == NoData("storage_switch")
\* flash_detect runs two transactions one after the other.
flash_detect_info   == DataIn("flash_detect_info", 11)
flash_detect_id     == DataIn("flash_detect_id", 5)
flash_erase_lba_raw == NoData("flash_erase_lba_raw")
flash_read_lba_raw(cnt_sec)  == DataIn("flash_read_lba_raw", cnt_sec * Sector)
flash_write_lba_raw(cnt_sec) == DataOut("flash_write_lba_raw", cnt_sec * Sector)

\* What every command of the list above satisfies: a data phase has data.
IsCommand(c) ==
    /\ c.dir \in Directions
    /\ c.len \in Nat
    /\ (c.dir = "none") <=> (c.len = 0)
=============================================================================
