------------------------------ MODULE MCUsbApi ------------------------------
(***************************************************************************)
(* The parts of libusb beside events and devices, side by side: one        *)
(* transfer and its URBs (UsbUrbs), contexts (UsbContexts), an open device *)
(* (UsbHandles), its configurations (UsbConfig), the parsers               *)
(* (UsbDescriptors, UsbReplies) and the Windows backend (WinTransfers,     *)
(* WinBackend, WinIso).  They share no state, so a behaviour is one of one *)
(* part; the variables of the others have no value in it.                  *)
(***************************************************************************)
EXTENDS Integers, Sequences, SequencesExt

CONSTANTS Parts,
          t1, t2, NoOne, NoCtx, Default, Monitor
VARIABLES
    part,
    shape, phase, next, urbs, reapable, retired, action, reapStatus, transferred, buffer, offset,
    cancel, u_status, received, trouble, u_gone, u_faults,
    c_lock, hotplug, c_pc, own, cur, c_calls, polled, c_ctx, c_active, default, refcnt, fallback,
    option, initCount, udev, thread, c_faults,
    h_pc, op, h_at, h_ret, todo, began, h_calls, binds, h_lock, h_claimed, h_auto, attached, cached,
    h_gone, driver, config, menu, h_user, newKernel, h_sysfs, has0, stalls, loaded, lost, robbed,
    overlap,
    f_pc, file, f_sysfs, alloc, read, cache, f_active, now, f_gone, changes, ask, first, result,
    changed,
    job, in, d_pc, d_i, d_k, d_n, ifs, d_filled, start, heap, wrong, seen, d_faults,
    r_pc, length, room, got, looked, wrote, block, r_ret,
    w_claimed, asked, api, eps, w_auto, w_x, port, ready, w_user, event, w_submits, w_faults,
    b_ctx, init_count, winusb, usbdk, b_lock, table, b_filled, ids, b_faults,
    i_at, callback, saved, breaks, handle, registered, stuck, i_status, tries, told, refused,
    i_submits, i_faults

urbsVars == <<shape, phase, next, urbs, reapable, retired, action, reapStatus, transferred, buffer,
    offset, cancel, u_status, received, trouble, u_gone, u_faults>>
contextsVars == <<c_lock, hotplug, c_pc, own, cur, c_calls, polled, c_ctx, c_active, default,
    refcnt, fallback, option, initCount, udev, thread, c_faults>>
handlesVars == <<h_pc, op, h_at, h_ret, todo, began, h_calls, binds, h_lock, h_claimed, h_auto,
    attached, cached, h_gone, driver, config, menu, h_user, newKernel, h_sysfs, has0, stalls, loaded,
    lost, robbed, overlap>>
configVars == <<f_pc, file, f_sysfs, alloc, read, cache, f_active, now, f_gone, changes, ask, first,
    result, changed>>
descriptorsVars == <<job, in, d_pc, d_i, d_k, d_n, ifs, d_filled, start, heap, wrong, seen,
    d_faults>>
repliesVars == <<r_pc, length, room, got, looked, wrote, block, r_ret>>
transfersVars == <<w_claimed, asked, api, eps, w_auto, w_x, port, ready, w_user, event, w_submits,
    w_faults>>
backendVars == <<b_ctx, init_count, winusb, usbdk, b_lock, table, b_filled, ids, b_faults>>
isoVars == <<i_at, callback, saved, breaks, handle, registered, stuck, i_status, tries, told,
    refused, i_submits, i_faults>>
vars == <<part, urbsVars, contextsVars, handlesVars, configVars, descriptorsVars, repliesVars, transfersVars, backendVars, isoVars>>

\* The variables of a part that is not run.
NoUrbs ==
    /\ shape = 0 /\ phase = 0 /\ next = 0 /\ urbs = 0 /\ reapable = 0 /\ retired = 0 /\ action = 0
    /\ reapStatus = 0 /\ transferred = 0 /\ buffer = 0 /\ offset = 0 /\ cancel = 0 /\ u_status = 0
    /\ received = 0 /\ trouble = 0 /\ u_gone = 0 /\ u_faults = 0
NoContexts ==
    /\ c_lock = 0 /\ hotplug = 0 /\ c_pc = 0 /\ own = 0 /\ cur = 0 /\ c_calls = 0 /\ polled = 0
    /\ c_ctx = 0 /\ c_active = 0 /\ default = 0 /\ refcnt = 0 /\ fallback = 0 /\ option = 0
    /\ initCount = 0 /\ udev = 0 /\ thread = 0 /\ c_faults = 0
NoHandles ==
    /\ h_pc = 0 /\ op = 0 /\ h_at = 0 /\ h_ret = 0 /\ todo = 0 /\ began = 0 /\ h_calls = 0 /\ binds = 0
    /\ h_lock = 0 /\ h_claimed = 0 /\ h_auto = 0 /\ attached = 0 /\ cached = 0 /\ h_gone = 0
    /\ driver = 0 /\ config = 0 /\ menu = 0 /\ h_user = 0 /\ newKernel = 0 /\ h_sysfs = 0
    /\ has0 = 0 /\ stalls = 0 /\ loaded = 0 /\ lost = 0 /\ robbed = 0 /\ overlap = 0
NoConfig ==
    /\ f_pc = 0 /\ file = 0 /\ f_sysfs = 0 /\ alloc = 0 /\ read = 0 /\ cache = 0 /\ f_active = 0
    /\ now = 0 /\ f_gone = 0 /\ changes = 0 /\ ask = 0 /\ first = 0 /\ result = 0 /\ changed = 0
NoDescriptors ==
    /\ job = 0 /\ in = 0 /\ d_pc = 0 /\ d_i = 0 /\ d_k = 0 /\ d_n = 0 /\ ifs = 0 /\ d_filled = 0
    /\ start = 0 /\ heap = 0 /\ wrong = 0 /\ seen = 0 /\ d_faults = 0
NoReplies ==
    /\ r_pc = 0 /\ length = 0 /\ room = 0 /\ got = 0 /\ looked = 0 /\ wrote = 0 /\ block = 0 /\ r_ret = 0
NoTransfers ==
    /\ w_claimed = 0 /\ asked = 0 /\ api = 0 /\ eps = 0 /\ w_auto = 0 /\ w_x = 0 /\ port = 0
    /\ ready = 0 /\ w_user = 0 /\ event = 0 /\ w_submits = 0 /\ w_faults = 0
NoBackend ==
    /\ b_ctx = 0 /\ init_count = 0 /\ winusb = 0 /\ usbdk = 0 /\ b_lock = 0 /\ table = 0
    /\ b_filled = 0 /\ ids = 0 /\ b_faults = 0
NoIso ==
    /\ i_at = 0 /\ callback = 0 /\ saved = 0 /\ breaks = 0 /\ handle = 0 /\ registered = 0 /\ stuck = 0
    /\ i_status = 0 /\ tries = 0 /\ told = 0 /\ refused = 0 /\ i_submits = 0 /\ i_faults = 0

-----------------------------------------------------------------------------
\* Transfers of up to three URBs, with what the kernel can do and cannot.
MCBulk == [type : {"bulk"}, in : BOOLEAN, length : {0, 1, 4, 5}, shortNotOk : BOOLEAN,
    caps : {{}, {"CONTINUATION"}, {"SCATTER_GATHER", "REAP_AFTER_DISCONNECT"},
            {"NO_PACKET_SIZE_LIM"}, {"CONTINUATION", "REAP_AFTER_DISCONNECT"}}]
MCOthers == [type : {"interrupt", "control", "iso"}, in : BOOLEAN, length : {3, 5},
    shortNotOk : {FALSE}, caps : {{}, {"REAP_AFTER_DISCONNECT"}}]

Urbs == INSTANCE UsbUrbs WITH
    Shapes <- MCBulk \cup MCOthers, Block <- 2, Faults <- 2,
    status <- u_status, gone <- u_gone, faults <- u_faults

\* What the proofs assume of the transfers.
ASSUME UrbsOK == Urbs!UrbsAssumption

-----------------------------------------------------------------------------
\* Two threads that initialise two contexts each, of one kind or the other.
Contexts == INSTANCE UsbContexts WITH
    Threads <- {t1, t2}, Ctxs <- 1..4, Calls <- 2, Faults <- 1,
    NoDiscovery <- TRUE, SetsLive <- FALSE, PollsAlways <- FALSE,
    lock <- c_lock, pc <- c_pc, calls <- c_calls, ctx <- c_ctx, active <- c_active,
    faults <- c_faults

\* What the proofs assume of the threads and contexts.
ASSUME ContextsOK == Contexts!ContextsAssumption

-----------------------------------------------------------------------------
\* Two threads with one handle or with two, and the calls that meet each other.
Menu(ops, on) == [ops |-> ops, on |-> on]
MCMenus == {Menu({"claim", "release", "reset"}, {0}),
            Menu({"claim", "release", "auto", "detach", "attach"}, {0}),
            Menu({"claim", "reset"}, {0, 1}), Menu({"set_config", "get_config", "claim"}, {0}),
            Menu({"claim", "alt", "clear_halt", "streams", "dev_mem", "active", "unplug"}, {0})}
MCUsers == {[a |-> "h1", b |-> "h1"], [a |-> "h1", b |-> "h2"]}

Handles == INSTANCE UsbHandles WITH
    Threads <- {"a", "b"}, Handles <- {"h1", "h2"}, Users <- MCUsers, Interfaces <- {0, 1},
    Menus <- MCMenus, Calls <- 3, Binds <- 1, ResetErrors <- {"ENODEV"},
    NoThread <- "nobody", NoDriver <- "none", Kernel <- "kernel",
    pc <- h_pc, at <- h_at, ret <- h_ret, calls <- h_calls, lock <- h_lock,
    claimed <- h_claimed, auto <- h_auto, gone <- h_gone, user <- h_user, sysfs <- h_sysfs

\* What the proofs assume of the calls and the handles.
ASSUME HandlesOK == Handles!HandlesAssumption

-----------------------------------------------------------------------------
\* Files of up to two configurations whose lengths agree or not, cut short or not.
ConfigOf(value, total, real, broken) == [value |-> value, total |-> total, real |-> real, broken |-> broken]
SomeConfigs == {ConfigOf(1, 9, 9, FALSE), ConfigOf(1, 18, 9, FALSE), ConfigOf(2, 9, 18, FALSE),
                ConfigOf(0, 9, 9, FALSE), ConfigOf(1, 8, 9, FALSE), ConfigOf(2, 9, 9, TRUE)}
MCFiles == {[configs |-> c, cut |-> x, num |-> y] : c \in SeqOf(SomeConfigs, 2), x \in {0, 1}, y \in {0, 1, 2, 9}}

Config == INSTANCE UsbConfig WITH
    Files <- MCFiles, Chunk <- 9, Changes <- 1,
    pc <- f_pc, sysfs <- f_sysfs, active <- f_active, gone <- f_gone

-----------------------------------------------------------------------------
\* Descriptors of up to four or seven pieces, in order or not, whole or cut off.
Desc(type, len, num, n) == [type |-> type, len |-> len, num |-> num, eps |-> n]
If(num, n) == Desc("interface", 9, num, n)
Ep == Desc("endpoint", 7, 0, 0)
Audio == Desc("endpoint", 9, 0, 0)
Other(len) == Desc("other", len, 0, 0)
Pieces == {If(0, 0), If(0, 1), If(0, 2), If(1, 1), If(0, 33), Ep, Audio, Other(3), Other(1),
           Desc("interface", 8, 0, 0), Desc("endpoint", 6, 0, 0)}
Configurations == {Desc("config", 9, c, 0) : c \in 1..2}
Headed(heads, pieces, len, cuts) == {[ds |-> <<h>> \o s, cut |-> x] : h \in heads, s \in SeqOf(pieces, len), x \in cuts}
MCInputs == [
    config |-> Headed(Configurations, Pieces, 3, {0, 1})
               \cup {[ds |-> <<Desc("config", 9, 2, 0), If(0, 2), Other(3), Ep, Other(2), Ep>> \o s, cut |-> x] :
                       s \in SeqOf({If(0, 1), If(1, 1), Ep}, 3), x \in {0, 1}},
    iads |-> Headed({Desc("config", 9, 1, 0)}, {Desc("iad", 8, 0, 0), Other(2), Other(1), Other(200)}, 3, 0..2),
    bos |-> Headed({Desc("bos", 5, c, 0) : c \in 1..3}, {Desc("capability", 7, 0, 0), Desc("capability", 2, 0, 0), Other(5)}, 3, 0..1),
    companion |-> {[ds |-> s, cut |-> x] : x \in 0..1,
                     s \in SeqOf({Desc("companion", 6, 0, 0), Desc("companion", 5, 0, 0), Other(3), Other(1)}, 3)}
                 \ {[ds |-> <<>>, cut |-> 1]}]

Descriptors == INSTANCE UsbDescriptors WITH
    Jobs <- DOMAIN MCInputs, Inputs <- MCInputs, Faults <- 1,
    pc <- d_pc, i <- d_i, k <- d_k, n <- d_n, filled <- d_filled, faults <- d_faults

-----------------------------------------------------------------------------
\* Lengths on both sides of every one that is compared.
Replies == INSTANCE UsbReplies WITH
    Lengths <- {0, 1, 2, 4}, Counts <- {0, 1, 2, 3, 4, 5, 8, 255}, Totals <- {0, 4, 5, 12},
    Sublinks <- {1, 2, 16}, CapLengths <- {3, 7, 10, 12, 16, 19, 20, 76},
    pc <- r_pc, ret <- r_ret

-----------------------------------------------------------------------------
\* Two control transfers and a bulk transfer on two interfaces.
Transfers == INSTANCE WinTransfers WITH
    Xfers <- {"c", "d", "b"}, Control <- {"c", "d"}, Home <- [b |-> 0], Ifaces <- {0, 1},
    Submits <- 2, Faults <- 1,
    claimed <- w_claimed, auto <- w_auto, x <- w_x, user <- w_user, submits <- w_submits,
    faults <- w_faults

-----------------------------------------------------------------------------
\* Six paths in a table of five, some of which meet.
Backend == INSTANCE WinBackend WITH
    Ctxs <- {"c1", "c2"}, Paths <- {"p", "q", "r", "s", "t", "u"},
    Hash <- [p |-> 0, q |-> 1, r |-> 5, s |-> 6, t |-> 2, u |-> 8], HTAB_SIZE <- 5, Faults <- 1,
    ctx <- b_ctx, lock <- b_lock, filled <- b_filled, faults <- b_faults

-----------------------------------------------------------------------------
Iso == INSTANCE WinIso WITH
    Submits <- 3, Faults <- 3,
    at <- i_at, status <- i_status, submits <- i_submits, faults <- i_faults

-----------------------------------------------------------------------------
Init ==
    /\ part \in Parts
    /\ IF part = "urbs" THEN Urbs!Init ELSE NoUrbs
    /\ IF part = "contexts" THEN Contexts!Init ELSE NoContexts
    /\ IF part = "handles" THEN Handles!Init ELSE NoHandles
    /\ IF part = "config" THEN Config!Init ELSE NoConfig
    /\ IF part = "descriptors" THEN Descriptors!Init ELSE NoDescriptors
    /\ IF part = "replies" THEN Replies!Init ELSE NoReplies
    /\ IF part = "transfers" THEN Transfers!Init ELSE NoTransfers
    /\ IF part = "backend" THEN Backend!Init ELSE NoBackend
    /\ IF part = "iso" THEN Iso!Init ELSE NoIso

Next ==
    /\ UNCHANGED part
    /\ \/ /\ part = "urbs" /\ Urbs!Next
          /\ UNCHANGED <<contextsVars, handlesVars, configVars, descriptorsVars, repliesVars,
                         transfersVars, backendVars, isoVars>>
       \/ /\ part = "contexts" /\ Contexts!Next
          /\ UNCHANGED <<urbsVars, handlesVars, configVars, descriptorsVars, repliesVars,
                         transfersVars, backendVars, isoVars>>
       \/ /\ part = "handles" /\ Handles!Next
          /\ UNCHANGED <<urbsVars, contextsVars, configVars, descriptorsVars, repliesVars,
                         transfersVars, backendVars, isoVars>>
       \/ /\ part = "config" /\ Config!Next
          /\ UNCHANGED <<urbsVars, contextsVars, handlesVars, descriptorsVars, repliesVars,
                         transfersVars, backendVars, isoVars>>
       \/ /\ part = "descriptors" /\ Descriptors!Next
          /\ UNCHANGED <<urbsVars, contextsVars, handlesVars, configVars, repliesVars,
                         transfersVars, backendVars, isoVars>>
       \/ /\ part = "replies" /\ Replies!Next
          /\ UNCHANGED <<urbsVars, contextsVars, handlesVars, configVars, descriptorsVars,
                         transfersVars, backendVars, isoVars>>
       \/ /\ part = "transfers" /\ Transfers!Next
          /\ UNCHANGED <<urbsVars, contextsVars, handlesVars, configVars, descriptorsVars,
                         repliesVars, backendVars, isoVars>>
       \/ /\ part = "backend" /\ Backend!Next
          /\ UNCHANGED <<urbsVars, contextsVars, handlesVars, configVars, descriptorsVars,
                         repliesVars, transfersVars, isoVars>>
       \/ /\ part = "iso" /\ Iso!Next
          /\ UNCHANGED <<urbsVars, contextsVars, handlesVars, configVars, descriptorsVars,
                         repliesVars, transfersVars, backendVars>>

\* Of one transfer, the loop of its submission and the events run (UsbUrbs).
Fairness ==
    /\ WF_urbsVars(part = "urbs" /\ Urbs!Submission)
    /\ WF_urbsVars(part = "urbs" /\ (Urbs!Reap \/ Urbs!Disconnect))

Spec == Init /\ [][Next]_vars /\ Fairness

-----------------------------------------------------------------------------
\* A transfer is not reported while the kernel still has a URB of it, its status is the
\* first thing that went wrong, a cancellation that returns 0 is reported as one and no
\* other is, and results of isochronous packets stay with their packets (linux_usbfs.c:
\* submit_bulk_transfer, op_cancel_transfer, the handle_..._completion functions).
StatusIsTrue == part = "urbs" =>
    /\ Urbs!TypeOK
    /\ Urbs!NothingOutstanding
    /\ Urbs!StatusIsTrue
    /\ Urbs!CancelIsHonest
    /\ Urbs!IsoInOrder

\* Step by step a transfer in URBs does what UsbTransfer promises: what is received is
\* given to its owner, in order and without a hole (handle_bulk_completion).
ImplementsTransfer ==
    /\ part = "urbs" => Urbs!Transfer!Init
    /\ [][part = "urbs" => Urbs!Transfer!Next \/ UNCHANGED Urbs!Transfer!vars]_vars

\* A cancelled or failed transfer is reported without the help of the device
\* (discard_urbs, handle_bulk_completion).
EndsWhenCancelled == (part = "urbs" /\ (cancel = "OK" \/ action # "NORMAL")) ~> (part = "urbs" /\ phase = "done")

\* Contexts of different users do not disturb each other: init_count is the number of
\* those that look for devices, the monitor exists as long as there is one and is not
\* freed under a poll or under its thread, and libusb_exit leaves the default context
\* to its other users (op_init, op_exit, linux_udev.c, core.c).
UsersAreIndependent == part = "contexts" =>
    /\ Contexts!TypeOK
    /\ Contexts!MonitorWhileNeeded
    /\ Contexts!UsersAreIndependent
    /\ Contexts!MonitorNotFreed

\* What a handle believes of the kernel is so: claimed_interfaces is what usbfs has bound
\* to it, a claim takes no interface from another handle, a release with auto-detach
\* leaves a driver behind if one is loaded that takes the interface, active_config is the configuration of the device, and no call
\* succeeds once the device is known to be gone (claim, release, reset,
\* set_configuration in linux_usbfs.c and core.c).
ClaimsAreReal == part = "handles" =>
    /\ Handles!TypeOK
    /\ Handles!ClaimsAreReal
    /\ Handles!NobodyIsRobbed
    /\ Handles!DriverComesBack
    /\ Handles!NoSuccessWhenGone
    /\ Handles!ConfigIsRemembered

\* initialize_device reads all of the descriptors whatever their length, keeps each
\* configuration in its place, and returns the one that is asked for, no more of it than
\* there is room for (linux_usbfs.c, libusb_get_config_descriptor and its relatives).
ConfigsInPlace == part = "config" =>
    /\ Config!TypeOK
    /\ Config!WholeFileRead
    /\ Config!ConfigsInPlace
    /\ Config!CopyFits
    /\ Config!AskedForIsGiven

\* The parsers of descriptor.c look at nothing behind the bytes a device sent, but for
\* the one byte of parse_iad_array's first pass, return what their counts say, parse a
\* configuration in the form of the standard as it is, and, whichever allocation fails,
\* free nothing twice and leave next to nothing allocated. A string and its final 0 fit
\* the caller's buffer of one byte or more.
StaysInBuffer ==
    /\ part = "descriptors" =>
        /\ Descriptors!TypeOK
        /\ Descriptors!StaysInBuffer
        /\ Descriptors!CountsAreFilled
        /\ Descriptors!FreedOnce
        /\ Descriptors!NothingElseLeft
        /\ Descriptors!StandardIsParsed
        /\ Descriptors!LookupFindsArray
    /\ part = "replies" =>
        /\ Replies!TypeOK
        /\ Replies!LooksAtReply
        /\ Replies!StringFits
        /\ Replies!NothingLost

\* On Windows every transfer is in one place until it is reported, once; an interface
\* that auto_claim claimed has a handle and is released after the transfer; the buffer
\* of an isochronous transfer in flight is registered and no other is left so; the
\* backends are loaded as long as a context uses them; and two paths have two session
\* ids (windows_common.c, windows_winusb.c).
NothingIsLost ==
    /\ part = "transfers" =>
        /\ Transfers!TypeOK
        /\ Transfers!InOnePlace
        /\ Transfers!NothingLeftClaimed
        /\ Transfers!ClaimedIsUsable
    /\ part = "backend" =>
        /\ Backend!TypeOK
        /\ Backend!SharedWhileUsed
        /\ Backend!IdsAreUnique
    /\ part = "iso" =>
        /\ Iso!TypeOK
        /\ Iso!BufferRegistered
        /\ Iso!ToldOnce
=============================================================================
