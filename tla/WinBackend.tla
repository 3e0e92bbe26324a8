----------------------------- MODULE WinBackend -----------------------------
(***************************************************************************)
(* Contexts on Windows: windows_init, windows_exit and windows_set_option  *)
(* of windows_common.c with what the contexts share (the hash table of     *)
(* device paths, the libraries and the lock of windows_winusb.c, UsbDk),   *)
(* and the thread of each context's completion port.  The callers hold     *)
(* default_context_lock; devices are enumerated beside them, and           *)
(* htab_hash gives each device path the number its devices are known by.   *)
(***************************************************************************)
EXTENDS Integers, FiniteSets, FiniteSetsExt

CONSTANTS Ctxs,             \* contexts
          Paths, Hash,      \* device paths and the value the first hash function gives them
          HTAB_SIZE,        \* the size of the table, a prime
          Faults            \* bound on the calls of the system that fail

VARIABLES ctx,              \* contexts: their state, thread and backend
          init_count,
          winusb, usbdk, lock, \* what is loaded; the autoclaim lock
          table, filled,    \* htab_table, as the paths at its indices; htab_filled
          ids,              \* what htab_hash has returned for each path
          faults

shared == <<init_count, winusb, usbdk, lock>>
htab == <<table, filled, ids>>
vars == <<ctx, shared, htab, faults>>

NoTable == [i \in 1..HTAB_SIZE |-> "no table"]
Empty == [i \in 1..HTAB_SIZE |-> "none"]
Closed == [state |-> "none", thread |-> "none", backend |-> "none"]

MayFail == faults < Faults /\ faults' = faults + 1
Works == UNCHANGED faults
\* default_context_lock
Unlocked == \A c \in Ctxs : ctx[c].state # "exiting"
Loaded(on) == winusb' = on /\ lock' = on

-----------------------------------------------------------------------------
\* The first context brings in what the contexts share; UsbDk may be missing.
InitFirst(c) ==
  /\ Unlocked /\ ctx[c].state = "none" /\ init_count = 0
  /\ \/ /\ Works /\ init_count' = 1 /\ Loaded(TRUE) /\ usbdk' \in BOOLEAN
        /\ table' = Empty /\ filled' = 0
        /\ ctx' = [ctx EXCEPT ![c] = [state |-> "live", thread |-> "running", backend |-> "winusb"]]
     \* Whatever failed, up to the thread, what was made is undone.
     \/ MayFail /\ UNCHANGED <<ctx, shared, table, filled>>
  /\ ids' = [p \in Paths |-> 0]

\* Another context has its own port and thread.  If one of them fails it stays counted.
InitNext(c) ==
  /\ Unlocked /\ ctx[c].state = "none" /\ init_count > 0
  /\ init_count' = init_count + 1
  /\ \/ Works /\ ctx' = [ctx EXCEPT ![c] = [state |-> "live", thread |-> "running", backend |-> "winusb"]]
     \/ MayFail /\ UNCHANGED ctx
  /\ UNCHANGED <<winusb, usbdk, lock, htab>>

\* windows_exit: the thread is told to end by a packet without an OVERLAPPED;
ExitPost(c) ==
  /\ Unlocked /\ ctx[c].state = "live"
  /\ ctx' = [ctx EXCEPT ![c].state = "exiting"]
  /\ UNCHANGED <<shared, htab, faults>>

\* windows_iocp_thread ends, when it is told to or when the port fails;
ThreadEnds(c) ==
  /\ ctx[c].thread = "running"
  /\ \/ ctx[c].state = "exiting" /\ Works
     \/ MayFail
  /\ ctx' = [ctx EXCEPT ![c].thread = "ended"]
  /\ UNCHANGED <<shared, htab>>

\* it is waited for, and the last context takes down what they share.
ExitJoin(c) ==
  /\ ctx[c].state = "exiting" /\ ctx[c].thread = "ended"
  /\ ctx' = [ctx EXCEPT ![c] = Closed]
  /\ init_count' = init_count - 1
  /\ IF init_count = 1
     THEN Loaded(FALSE) /\ usbdk' = FALSE /\ table' = NoTable /\ filled' = 0 /\ ids' = [p \in Paths |-> 0]
     ELSE UNCHANGED <<winusb, usbdk, lock, htab>>
  /\ UNCHANGED faults

\* windows_set_option: LIBUSB_OPTION_USE_USBDK
UseUsbDk(c) ==
  /\ ctx[c].state = "live" /\ usbdk
  /\ ctx' = [ctx EXCEPT ![c].backend = "usbdk"]
  /\ UNCHANGED <<shared, htab, faults>>

-----------------------------------------------------------------------------
\* htab_hash: from its first index on, backwards by the second hash function, modulo the
\* prime size; index 0 stands for none.
First(p) == IF Hash[p] % HTAB_SIZE = 0 THEN 1 ELSE Hash[p] % HTAB_SIZE
Stride(p) == 1 + (First(p) % (HTAB_SIZE - 2))
Probe(p, k) == ((First(p) - 1 - k * Stride(p)) % HTAB_SIZE) + 1

\* The search ends at the path itself or at a free entry.
Stops(p, i) == table[i] \in {p, "none"}

\* The path of a device of some context is looked up, or entered.
EnterPath(p) ==
  /\ \E c \in Ctxs : ctx[c].state = "live"
  /\ LET found == {k \in 0..HTAB_SIZE-1 : Stops(p, Probe(p, k))}
         at == IF found = {} THEN First(p) ELSE Probe(p, Min(found))
     IN IF found # {} /\ table[at] # "none"
        THEN ids' = [ids EXCEPT ![p] = at] /\ UNCHANGED <<table, filled, faults>>
        ELSE \/ /\ filled < HTAB_SIZE /\ Works
                /\ table' = [table EXCEPT ![at] = p] /\ filled' = filled + 1
                /\ ids' = [ids EXCEPT ![p] = at]
             \/ /\ IF filled >= HTAB_SIZE THEN Works ELSE MayFail
                /\ ids' = [ids EXCEPT ![p] = 0] /\ UNCHANGED <<table, filled>>
  /\ UNCHANGED <<ctx, shared>>

-----------------------------------------------------------------------------
Init ==
  /\ ctx = [c \in Ctxs |-> Closed] /\ init_count = 0
  /\ winusb = FALSE /\ usbdk = FALSE /\ lock = FALSE
  /\ table = NoTable /\ filled = 0 /\ ids = [p \in Paths |-> 0] /\ faults = 0

Next ==
  \/ \E c \in Ctxs : InitFirst(c) \/ InitNext(c) \/ ExitPost(c) \/ ThreadEnds(c) \/ ExitJoin(c) \/ UseUsbDk(c)
  \/ \E p \in Paths : EnterPath(p)

Spec == Init /\ [][Next]_vars

-----------------------------------------------------------------------------
\* Properties.

TypeOK ==
  /\ init_count \in 0..(Cardinality(Ctxs) + Faults) /\ filled \in 0..HTAB_SIZE
  /\ \A c \in Ctxs : ctx[c].state \in {"none", "live", "exiting"}
  /\ winusb \in BOOLEAN /\ usbdk \in BOOLEAN /\ lock \in BOOLEAN

\* As long as there is a context, what the contexts share is there, though an
\* initialisation that failed stays counted (windows_init undoes only the first); and no
\* thread is left behind by a context.
SharedWhileUsed ==
  /\ \A c \in Ctxs : ctx[c].state # "none" => winusb /\ lock /\ table # NoTable
  /\ init_count >= Cardinality({c \in Ctxs : ctx[c].state # "none"})
  /\ \A c \in Ctxs : ctx[c].backend = "usbdk" => usbdk
  /\ \A c \in Ctxs : ctx[c].thread # "none" => ctx[c].state # "none"

\* While contexts last, two paths never have the same number, a path keeps the one it
\* was given, and a path without one met a full table or a lack of memory.
IdsAreUnique ==
  /\ \A p, q \in Paths : p # q /\ ids[p] # 0 => ids[p] # ids[q]
  /\ \A p \in Paths : ids[p] # 0 => table[ids[p]] = p
  /\ table # NoTable => filled = Cardinality({i \in 1..HTAB_SIZE : table[i] # "none"})
=============================================================================
