----------------------------- MODULE MCRkUpload -----------------------------
(***************************************************************************)
(* RkUpload with the real sizes: images around a multiple of a transfer,   *)
(* a loader with a header, a warned-about failure and an unknown entry,    *)
(* and a file of two pieces whose last one needs the terminating zero.     *)
(***************************************************************************)
EXTENDS RkUpload

Entry(code, len) == [code |-> code, len |-> len]

MCJobs == {
    Maskrom(4094, 4095),
    Maskrom(4093, 8190),
    Exec(exec_arm32),
    Download(<<Entry("sram", 2048), Entry("sram", 5000), Entry("dram", 4094), Entry("loader", 9)>>),
    Download(<<Entry("sram", 2048), Entry("sram", 2048), Entry("bad", 5)>>),
    Write(write_arm32, 4096, Piece + 2742),
    Write(write_arm64, 0, 100) }
=============================================================================
