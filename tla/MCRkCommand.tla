----------------------------- MODULE MCRkCommand -----------------------------
(***************************************************************************)
(* RkCommand with the real sizes of a high-speed endpoint and one command  *)
(* of every shape: no data, a short answer, answers and writes of several  *)
(* packets, and reset.                                                     *)
(***************************************************************************)
EXTENDS RkCommand

MCCommands == {chip_ready, capability, flash_read_lba_raw(2), flash_write_lba_raw(2), reset}
=============================================================================
