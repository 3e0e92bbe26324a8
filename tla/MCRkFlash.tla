------------------------------ MODULE MCRkFlash ------------------------------
(***************************************************************************)
(* RkFlash on a device of 5 sectors of 2 bytes, with chunks of 2 sectors:  *)
(* ranges that fit, that are clipped, and that are no multiple of a chunk; *)
(* files with a partial last sector, and longer than the device.           *)
(***************************************************************************)
EXTENDS RkFlash

Run(kind, start, count, bytes) == [kind |-> kind, sec |-> start, cnt |-> count, len |-> bytes]

MCOperations == {
    Run("write", 0, 3, 0),        \* two chunks, the second one shorter
    Run("write", 3, 3, 0),        \* upgrade does not look at the size of the device
    Run("erase_ff", 2, 1, 0),
    Run("read_file", 2, 0, 0),    \* up to the end of the device
    Run("write_file", 1, 0, 5),   \* 2 sectors and a half
    Run("write_file", 3, 0, 9),   \* longer than the rest of the device
    Run("write_file", 1, 0, 14) } \* more sectors than a count can tell
=============================================================================
