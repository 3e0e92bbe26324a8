------------------------- MODULE UsbContextsProofs -------------------------
(***************************************************************************)
(* Proofs about UsbContexts, for any number of threads, contexts, calls    *)
(* and failures: users of contexts are independent, init_count and the     *)
(* monitor follow the contexts that look for devices, and the monitor is   *)
(* not freed while its thread waits on it or a poll has read it.           *)
(***************************************************************************)
EXTENDS UsbContexts, FiniteSetTheorems, TLAPS

USE DEF lockVars, threadVars, ctxVars, defaultVars, udevVars, vars, Goto, Works, MayFail

-----------------------------------------------------------------------------
\* Where the thread with default_context_lock is: it initialises a context, with
\* err_io_exit and err_free_ctx, or exits one.
Starting == {"io", "backend", "start", "scan", "done", "err_io", "err_free",
             "err_stop", "err_join", "err_forget"}
Exiting  == {"exit", "stop", "join", "forget", "free"}
Critical == Starting \cup Exiting

Mine(t) == IF own[t] = Default THEN default ELSE own[t]
Users == {t \in Threads : own[t] = Default}

States == {"unused", "init", "live", "freed"}
Shapes ==
  /\ lock \in Threads \cup {NoOne} /\ hotplug \in Threads \cup {Monitor, NoOne}
  /\ pc \in [Threads -> Critical \cup {"idle", "poll"}]
  /\ own \in [Threads -> Ctxs \cup {NoCtx, Default}] /\ cur \in [Threads -> Ctxs \cup {NoCtx}]
  /\ ctx \in [Ctxs -> [state : States, noDiscovery : BOOLEAN]]
  /\ active \subseteq Ctxs /\ default \in Ctxs \cup {NoCtx} /\ fallback \in Ctxs \cup {NoCtx}
  /\ refcnt \in Nat /\ option \in BOOLEAN

\* The lock is held through an initialisation and an exit, and only then a thread
\* works on a context: the one it calls its own.
LockInv ==
  \A t \in Threads :
    /\ pc[t] \in Critical <=> lock = t
    /\ pc[t] \in Critical => own[t] # NoCtx /\ cur[t] = Mine(t)
    /\ pc[t] \notin Critical => cur[t] = NoCtx
    /\ pc[t] = "poll" => own[t] # NoCtx

\* A context belongs to one thread, or is the default context.
OwnInv ==
  /\ \A t \in Threads : own[t] # NoCtx =>
       Mine(t) \in Ctxs /\ ctx[Mine(t)].state = IF pc[t] \in Starting THEN "init" ELSE "live"
  /\ \A t, u \in Threads : own[t] \in Ctxs => own[t] # default /\ (own[u] = own[t] => u = t)
  /\ default = NoCtx <=> Users = {}

\* default_context_refcnt counts the users of the default context; the last one has
\* subtracted itself before it works on it.
RefInv ==
  /\ \A t \in Threads : pc[t] \in Exiting /\ own[t] = Default => Users = {t}
  /\ refcnt = IF \E t \in Threads : pc[t] \in Exiting /\ own[t] = Default THEN 0 ELSE Cardinality(Users)

FallbackInv == fallback # NoCtx => fallback # default /\ ctx[fallback].state = "live"

ActiveInv ==
  /\ \A c \in active : ctx[c].state \in {"init", "live"}
  /\ \A t \in Threads : pc[t] \in Exiting \cup {"io", "err_free"} => cur[t] \notin active

UsersInv == Shapes /\ LockInv /\ OwnInv /\ RefInv /\ FallbackInv /\ ActiveInv

\* The contexts init_count counts: those that are live and look for devices, and the
\* one that was just scanned for, but not the one that op_exit has subtracted.
Place == IF lock = NoOne THEN "idle" ELSE pc[lock]
Worked == IF lock = NoOne THEN NoCtx ELSE cur[lock]
Counted == {c \in Ctxs : /\ ~ctx[c].noDiscovery
                         /\ \/ ctx[c].state = "live" /\ ~(c = Worked /\ Place \in Exiting \ {"exit"})
                            \/ c = Worked /\ Place = "done"}

Looks == {"start", "scan", "err_stop", "err_join", "err_forget", "stop", "join", "forget"}
CountInv ==
  /\ initCount = Cardinality(Counted)
  /\ Place \in Looks => ~ctx[Worked].noDiscovery

Udev(m, c) == udev = [monitor |-> m, control |-> c]
Runs == thread \in {"running", "ended"}

\* The monitor and its thread, told from where the thread with the lock is.
MonitorInv ==
  /\ Place \in {"idle", "io", "backend", "done", "err_io", "err_free", "exit", "free"} =>
       IF initCount > 0 THEN Udev("open", FALSE) /\ Runs ELSE Udev("none", FALSE) /\ thread = "none"
  /\ Place = "start" => initCount = 0 /\ Udev("none", FALSE) /\ thread = "none"
  /\ Place = "scan" => Udev("open", FALSE) /\ Runs
  /\ Place \in {"stop", "err_stop"} => initCount = 0 /\ Udev("open", FALSE) /\ Runs
  /\ Place \in {"join", "err_join"} => initCount = 0 /\ Udev("open", TRUE) /\ Runs
  /\ Place \in {"forget", "err_forget"} => initCount = 0 /\ Udev("freed", TRUE) /\ thread = "ended"

ScanInv == initCount \in Nat /\ CountInv /\ MonitorInv

\* A thread that polls has a context that looks for devices.
PollInv ==
  /\ DOMAIN polled = Threads
  /\ \A t \in Threads : /\ polled[t] = "open" => pc[t] = "poll"
                        /\ pc[t] = "poll" => ~ctx[Mine(t)].noDiscovery

-----------------------------------------------------------------------------
LEMMA UsersFinite ==
  ASSUME ContextsAssumption
  PROVE  IsFiniteSet(Users) /\ Cardinality(Users) \in Nat /\ Cardinality(Users) =< Cardinality(Threads)
BY FS_Subset, FS_CardinalityType DEF ContextsAssumption, Users

\* The steps that only move a thread, within an initialisation or within an exit.
Moves(t) ==
  /\ \E l \in Critical :
       /\ pc' = [pc EXCEPT ![t] = l]
       /\ (pc[t] \in Starting /\ l \in Starting) \/ (pc[t] \in Exiting /\ l \in Exiting)
       /\ l \in Exiting \cup {"io", "err_free"} => cur[t] \notin active'
  /\ \/ pc[t] \in Starting /\ active' = active \cup {cur[t]}
     \/ active' = active \ {cur[t]}
     \/ active' = active
  /\ UNCHANGED <<lockVars, own, cur, ctx, defaultVars>>

LEMMA TheMoves ==
  ASSUME ContextsAssumption, UsersInv, NEW t \in Threads,
         \/ IoInit(t) \/ BackendInit(t) \/ StartMonitor(t) \/ Scan(t) \/ InitUndone(t)
         \/ BackendExit(t) \/ StopSignal(t) \/ StopJoin(t) \/ StopForget(t)
  PROVE  Moves(t)
<1> USE DEF Moves, Critical, Starting, Exiting
<1>0. pc \in [Threads -> Critical \cup {"idle", "poll"}]
  BY DEF UsersInv, Shapes
<1>1. CASE IoInit(t)
  BY <1>0, <1>1 DEF IoInit, UsersInv, ActiveInv
<1>2. CASE BackendInit(t)
  BY <1>0, <1>2 DEF BackendInit
<1>3. CASE StartMonitor(t)
  BY <1>0, <1>3 DEF StartMonitor
<1>4. CASE Scan(t)
  BY <1>0, <1>4 DEF Scan
<1>5. CASE InitUndone(t)
  BY <1>0, <1>5 DEF InitUndone
<1>6. CASE BackendExit(t)
  BY <1>0, <1>6 DEF BackendExit, UsersInv, ActiveInv
<1>7. CASE StopSignal(t)
  <2>1. CASE pc[t] = "stop"
    BY <1>0, <1>7, <2>1 DEF StopSignal, UsersInv, ActiveInv
  <2>2. CASE pc[t] = "err_stop"
    BY <1>0, <1>7, <2>2 DEF StopSignal
  <2> QED
    BY <1>7, <2>1, <2>2 DEF StopSignal
<1>8. CASE StopJoin(t)
  <2>1. CASE pc[t] = "join"
    BY <1>0, <1>8, <2>1 DEF StopJoin, UsersInv, ActiveInv
  <2>2. CASE pc[t] = "err_join"
    BY <1>0, <1>8, <2>2 DEF StopJoin
  <2> QED
    BY <1>8, <2>1, <2>2 DEF StopJoin
<1>9. CASE StopForget(t)
  BY <1>0, <1>9 DEF StopForget, UsersInv, ActiveInv
<1> QED
  BY <1>1, <1>2, <1>3, <1>4, <1>5, <1>6, <1>7, <1>8, <1>9

LEMMA MovesKeep ==
  ASSUME ContextsAssumption, UsersInv, NEW t \in Threads, Moves(t)
  PROVE  UsersInv'
<1> USE DEF Critical, Starting, Exiting
<1>1. PICK l \in Critical :
        /\ pc' = [pc EXCEPT ![t] = l]
        /\ (pc[t] \in Starting /\ l \in Starting) \/ (pc[t] \in Exiting /\ l \in Exiting)
        /\ l \in Exiting \cup {"io", "err_free"} => cur[t] \notin active'
  BY DEF Moves
<1>2. /\ \/ pc[t] \in Starting /\ active' = active \cup {cur[t]}
         \/ active' = active \ {cur[t]}
         \/ active' = active
      /\ UNCHANGED <<lockVars, own, cur, ctx, defaultVars>>
  BY DEF Moves
<1>3. cur[t] \in Ctxs /\ cur[t] = Mine(t) /\ lock = t
      /\ ctx[cur[t]].state = IF pc[t] \in Starting THEN "init" ELSE "live"
  BY <1>1 DEF UsersInv, LockInv, OwnInv
<1>4. \A u \in Threads : pc'[u] = IF u = t THEN l ELSE pc[u]
  BY <1>1 DEF UsersInv, Shapes
<1>5. \A u \in Threads : /\ pc'[u] \in Starting <=> pc[u] \in Starting
                         /\ pc'[u] \in Exiting <=> pc[u] \in Exiting
                         /\ pc'[u] = "poll" => pc[u] = "poll"
  BY <1>1, <1>4
<1>6. Users' = Users /\ \A u \in Threads : Mine(u)' = Mine(u)
  BY <1>2 DEF Users, Mine
<1>7. Shapes'
  BY <1>1, <1>2, <1>3 DEF UsersInv, Shapes
<1>8. LockInv'
  BY <1>2, <1>5, <1>6 DEF UsersInv, LockInv
<1>9. OwnInv'
  BY <1>2, <1>5, <1>6 DEF UsersInv, OwnInv
<1>10. RefInv'
  BY <1>2, <1>5, <1>6 DEF UsersInv, RefInv
<1>11. FallbackInv'
  BY <1>2 DEF UsersInv, FallbackInv
<1>12. ActiveInv'
  <2>1. \A c \in active' : ctx'[c].state \in {"init", "live"}
    BY <1>2, <1>3 DEF UsersInv, ActiveInv
  <2>2. \A u \in Threads : u # t => pc[u] \notin Critical
    BY <1>3 DEF UsersInv, LockInv
  <2>3. pc'[t] \in Exiting \cup {"io", "err_free"} => cur'[t] \notin active'
    BY <1>1, <1>2, <1>4
  <2> QED
    BY <2>1, <2>2, <2>3, <1>4 DEF ActiveInv
<1> QED
  BY <1>7, <1>8, <1>9, <1>10, <1>11, <1>12 DEF UsersInv

\* libusb_init_context: one more user of the default context.
LEMMA ReuseKeeps ==
  ASSUME ContextsAssumption, UsersInv, NEW t \in Threads, ReuseDefault(t)
  PROVE  UsersInv'
<1> USE DEF Critical, Starting, Exiting
<1>1. /\ pc[t] = "idle" /\ own[t] = NoCtx /\ lock = NoOne /\ refcnt > 0
      /\ refcnt' = refcnt + 1 /\ own' = [own EXCEPT ![t] = Default]
      /\ UNCHANGED <<lockVars, pc, cur, ctxVars, default, fallback, option>>
  BY DEF ReuseDefault
<1>2. \A u \in Threads : pc[u] \notin Critical
  BY <1>1 DEF UsersInv, LockInv, ContextsAssumption
<1>3. Users' = Users \cup {t} /\ t \notin Users
  BY <1>1 DEF Users, UsersInv, Shapes, ContextsAssumption
<1>4. refcnt = Cardinality(Users) /\ refcnt' = Cardinality(Users')
  BY <1>1, <1>2, <1>3, UsersFinite, FS_AddElement DEF UsersInv, RefInv
<1>5. PICK v \in Threads : own[v] = Default
  BY <1>1, <1>4, FS_EmptySet DEF Users
<1>6. default \in Ctxs /\ ctx[default].state = "live"
  BY <1>2, <1>5 DEF UsersInv, OwnInv, Mine, ContextsAssumption
<1>7. \A u \in Threads : own'[u] = IF u = t THEN Default ELSE own[u]
  BY <1>1 DEF UsersInv, Shapes
<1>8. \A u \in Threads : Mine(u)' = IF u = t THEN default ELSE Mine(u)
  BY <1>1, <1>7 DEF Mine
<1>9. Shapes'
  BY <1>1 DEF UsersInv, Shapes
<1>10. LockInv'
  BY <1>1, <1>2, <1>7, <1>8 DEF UsersInv, LockInv, ContextsAssumption
<1>11. OwnInv'
  BY <1>1, <1>2, <1>3, <1>6, <1>7, <1>8 DEF UsersInv, OwnInv, ContextsAssumption
<1>12. RefInv'
  BY <1>1, <1>2, <1>4 DEF UsersInv, RefInv
<1>13. FallbackInv' /\ ActiveInv'
  BY <1>1 DEF UsersInv, FallbackInv, ActiveInv
<1> QED
  BY <1>9, <1>10, <1>11, <1>12, <1>13 DEF UsersInv

LEMMA AllocateKeeps ==
  ASSUME ContextsAssumption, UsersInv, NEW t \in Threads, Allocate(t)
  PROVE  UsersInv'
<1> USE DEF Critical, Starting, Exiting
<1> DEFINE c == CHOOSE x \in Ctxs : ctx[x].state = "unused"
<1>1. /\ pc[t] = "idle" /\ own[t] = NoCtx /\ lock = NoOne
      /\ lock' = t /\ pc' = [pc EXCEPT ![t] = "io"]
      /\ cur' = [cur EXCEPT ![t] = c]
      /\ UNCHANGED <<hotplug, active, fallback, option>>
  BY DEF Allocate
<1>2. c \in Ctxs /\ ctx[c].state = "unused"
  BY DEF Allocate
<1>3. PICK asDefault \in BOOLEAN, asked \in BOOLEAN :
        /\ asDefault => refcnt = 0
        /\ ctx' = [ctx EXCEPT ![c] = [state |-> "init", noDiscovery |-> option \/ asked]]
        /\ own' = [own EXCEPT ![t] = IF asDefault THEN Default ELSE c]
        /\ IF asDefault THEN default' = c /\ refcnt' = 1 ELSE UNCHANGED <<default, refcnt>>
  BY DEF Allocate
<1> HIDE DEF c
<1>4. \A u \in Threads : pc[u] \notin Critical
  BY <1>1 DEF UsersInv, LockInv, ContextsAssumption
<1>5. refcnt = Cardinality(Users)
  BY <1>4 DEF UsersInv, RefInv
<1>6. asDefault => Users = {} /\ default = NoCtx
  BY <1>3, <1>5, UsersFinite, FS_EmptySet DEF UsersInv, OwnInv
<1>7. \A u \in Threads : /\ own'[u] = IF u = t THEN IF asDefault THEN Default ELSE c ELSE own[u]
                         /\ pc'[u] = IF u = t THEN "io" ELSE pc[u]
                         /\ cur'[u] = IF u = t THEN c ELSE cur[u]
  BY <1>1, <1>3 DEF UsersInv, Shapes
<1>8. \A d \in Ctxs : /\ ctx'[d].state = IF d = c THEN "init" ELSE ctx[d].state
                      /\ ctx'[d] \in [state : States, noDiscovery : BOOLEAN]
  BY <1>2, <1>3 DEF UsersInv, Shapes, States
<1>9. \A u \in Threads : own[u] # NoCtx => Mine(u) \in Ctxs /\ ctx[Mine(u)].state = "live" /\ Mine(u) # c
  BY <1>2, <1>4 DEF UsersInv, OwnInv
<1>10. \A u \in Threads : u # t /\ own[u] # NoCtx => Mine(u)' = Mine(u) /\ Mine(u) \in Ctxs
  BY <1>3, <1>6, <1>7, <1>9 DEF Mine, Users
<1>11. Mine(t)' = c
  BY <1>2, <1>3, <1>7 DEF Mine, ContextsAssumption
<1>12. Users' = IF asDefault THEN {t} ELSE Users
  BY <1>1, <1>2, <1>6, <1>7 DEF Users, ContextsAssumption
<1>13. Shapes'
  <2>1. default' \in Ctxs \cup {NoCtx} /\ refcnt' \in Nat
    BY <1>2, <1>3 DEF UsersInv, Shapes
  <2>2. ctx' \in [Ctxs -> [state : States, noDiscovery : BOOLEAN]]
    BY <1>2, <1>3, <1>8 DEF UsersInv, Shapes
  <2>3. own' \in [Threads -> Ctxs \cup {NoCtx, Default}] /\ cur' \in [Threads -> Ctxs \cup {NoCtx}]
    BY <1>1, <1>2, <1>3 DEF UsersInv, Shapes
  <2> QED
    BY <1>1, <2>1, <2>2, <2>3 DEF UsersInv, Shapes
<1>14. LockInv'
  BY <1>1, <1>2, <1>3, <1>4, <1>7, <1>11 DEF UsersInv, LockInv, ContextsAssumption
<1>15. OwnInv'
  <2>1. \A u \in Threads : own'[u] # NoCtx =>
          Mine(u)' \in Ctxs /\ ctx'[Mine(u)'].state = IF pc'[u] \in Starting THEN "init" ELSE "live"
    BY <1>2, <1>4, <1>7, <1>8, <1>9, <1>10, <1>11
  <2>2. \A u \in Threads : own[u] \in Ctxs => own[u] # c
    BY <1>9 DEF Mine, ContextsAssumption
  <2>3. default # c
    <3>1. CASE Users = {}
      BY <1>2, <3>1 DEF UsersInv, OwnInv, ContextsAssumption
    <3>2. CASE Users # {}
      BY <1>9, <3>2 DEF Users, Mine, ContextsAssumption
    <3> QED
      BY <3>1, <3>2
  <2>4. \A u, v \in Threads : own'[u] \in Ctxs => own'[u] # default' /\ (own'[v] = own'[u] => v = u)
    BY <1>2, <1>3, <1>7, <2>2, <2>3 DEF UsersInv, OwnInv, ContextsAssumption
  <2>5. default' = NoCtx <=> Users' = {}
    BY <1>2, <1>3, <1>12 DEF UsersInv, OwnInv, ContextsAssumption
  <2> QED
    BY <2>1, <2>4, <2>5 DEF OwnInv
<1>16. RefInv'
  <2>1. \A u \in Threads : pc'[u] \notin Exiting
    BY <1>4, <1>7
  <2>2. refcnt' = Cardinality(Users')
    BY <1>3, <1>5, <1>12, FS_Singleton
  <2> QED
    BY <2>1, <2>2 DEF RefInv
<1>17. FallbackInv'
  BY <1>1, <1>2, <1>3, <1>8 DEF UsersInv, FallbackInv, Shapes
<1>18. ActiveInv'
  <2>1. c \notin active
    BY <1>2 DEF UsersInv, ActiveInv
  <2>2. \A d \in active' : ctx'[d].state \in {"init", "live"}
    BY <1>1, <1>8 DEF UsersInv, ActiveInv, Shapes
  <2> QED
    BY <1>1, <1>4, <1>7, <2>1, <2>2 DEF ActiveInv
<1> QED
  BY <1>13, <1>14, <1>15, <1>16, <1>17, <1>18 DEF UsersInv

LEMMA InitDoneKeeps ==
  ASSUME ContextsAssumption, UsersInv, NEW t \in Threads, InitDone(t)
  PROVE  UsersInv'
<1> USE DEF Critical, Starting, Exiting
<1>1. /\ pc[t] = "done" /\ pc' = [pc EXCEPT ![t] = "idle"]
      /\ ctx' = [ctx EXCEPT ![cur[t]].state = "live"]
      /\ fallback' = IF own[t] # Default /\ fallback = NoCtx THEN cur[t] ELSE fallback
      /\ lock' = NoOne /\ cur' = [cur EXCEPT ![t] = NoCtx]
      /\ UNCHANGED <<hotplug, own, active, default, refcnt, option>>
  BY DEF InitDone
<1>2. /\ lock = t /\ cur[t] = Mine(t) /\ own[t] # NoCtx /\ cur[t] \in Ctxs
      /\ ctx[cur[t]].state = "init"
  BY <1>1 DEF UsersInv, LockInv, OwnInv
<1>3. \A u \in Threads : u # t => pc[u] \notin Critical
  BY <1>2 DEF UsersInv, LockInv
<1>4. \A u \in Threads : /\ pc'[u] = IF u = t THEN "idle" ELSE pc[u]
                         /\ cur'[u] = IF u = t THEN NoCtx ELSE cur[u]
                         /\ Mine(u)' = Mine(u)
  BY <1>1 DEF UsersInv, Shapes, Mine
<1>5. \A d \in Ctxs : /\ ctx'[d].state = IF d = cur[t] THEN "live" ELSE ctx[d].state
                      /\ ctx'[d] \in [state : States, noDiscovery : BOOLEAN]
  BY <1>1, <1>2 DEF UsersInv, Shapes, States
<1>6. Users' = Users
  BY <1>1 DEF Users
<1>7. Shapes'
  BY <1>1, <1>2, <1>5 DEF UsersInv, Shapes, States
<1>8. LockInv'
  BY <1>1, <1>3, <1>4 DEF UsersInv, LockInv, ContextsAssumption
<1>9. OwnInv'
  BY <1>1, <1>2, <1>3, <1>4, <1>5, <1>6 DEF UsersInv, OwnInv
<1>10. RefInv'
  BY <1>1, <1>3, <1>4, <1>6 DEF UsersInv, RefInv
<1>11. FallbackInv'
  <2>1. own[t] # Default => cur[t] # default
    BY <1>2 DEF Mine, UsersInv, OwnInv
  <2> QED
    BY <1>1, <1>2, <1>5, <2>1 DEF UsersInv, FallbackInv, Shapes
<1>12. ActiveInv'
  BY <1>1, <1>3, <1>4, <1>5 DEF UsersInv, ActiveInv, Shapes
<1> QED
  BY <1>7, <1>8, <1>9, <1>10, <1>11, <1>12 DEF UsersInv

\* A context is freed: one whose initialisation failed, or one that is exited.
LEMMA FreesKeep ==
  ASSUME ContextsAssumption, UsersInv, NEW t \in Threads, InitFailed(t) \/ ExitDone(t)
  PROVE  UsersInv'
<1> USE DEF Critical, Starting, Exiting
<1>1. /\ pc[t] \in {"err_free", "free"} /\ pc' = [pc EXCEPT ![t] = "idle"]
      /\ ctx' = [ctx EXCEPT ![cur[t]].state = "freed"]
      /\ lock' = NoOne /\ cur' = [cur EXCEPT ![t] = NoCtx] /\ own' = [own EXCEPT ![t] = NoCtx]
      /\ default' = IF own[t] = Default THEN NoCtx ELSE default
      /\ pc[t] = "err_free" => refcnt' = (IF own[t] = Default THEN 0 ELSE refcnt) /\ fallback' = fallback
      /\ pc[t] = "free" => refcnt' = refcnt /\ fallback' = (IF fallback = own[t] THEN NoCtx ELSE fallback)
      /\ UNCHANGED <<hotplug, active, option>>
  BY DEF InitFailed, ExitDone
<1>2. /\ lock = t /\ cur[t] = Mine(t) /\ own[t] # NoCtx /\ cur[t] \in Ctxs
      /\ ctx[cur[t]].state = IF pc[t] = "err_free" THEN "init" ELSE "live"
      /\ cur[t] \notin active
  BY <1>1 DEF UsersInv, LockInv, OwnInv, ActiveInv
<1>3. \A u \in Threads : u # t => pc[u] \notin Critical
  BY <1>2 DEF UsersInv, LockInv
<1>4. \A u \in Threads : /\ pc'[u] = IF u = t THEN "idle" ELSE pc[u]
                         /\ cur'[u] = IF u = t THEN NoCtx ELSE cur[u]
                         /\ own'[u] = IF u = t THEN NoCtx ELSE own[u]
  BY <1>1 DEF UsersInv, Shapes
<1>5. \A d \in Ctxs : /\ ctx'[d].state = IF d = cur[t] THEN "freed" ELSE ctx[d].state
                      /\ ctx'[d] \in [state : States, noDiscovery : BOOLEAN]
  BY <1>1, <1>2 DEF UsersInv, Shapes, States
<1>6. own[t] = Default => Users = {t}
  <2>1. CASE pc[t] = "free"
    BY <2>1 DEF UsersInv, RefInv
  <2>2. CASE pc[t] = "err_free" /\ own[t] = Default
    <3>1. cur[t] = default
      BY <1>2, <2>2 DEF Mine
    <3>2. \A u \in Threads : own[u] = Default => u = t
      BY <1>2, <1>3, <2>2, <3>1 DEF UsersInv, OwnInv, Mine, ContextsAssumption
    <3> QED
      BY <2>2, <3>2 DEF Users
  <2> QED
    BY <1>1, <2>1, <2>2
<1>7. Users' = (IF own[t] = Default THEN {} ELSE Users)
  BY <1>4, <1>6 DEF Users, ContextsAssumption
<1>8. \A u \in Threads : u # t /\ own[u] # NoCtx => Mine(u)' = Mine(u) /\ Mine(u) # cur[t]
  <2> SUFFICES ASSUME NEW u \in Threads, u # t, own[u] # NoCtx PROVE Mine(u)' = Mine(u) /\ Mine(u) # cur[t]
    OBVIOUS
  <2>1. ~(own[u] = Default /\ own[t] = Default)
    BY <1>6 DEF Users
  <2>2. own[u] \in Ctxs \cup {Default} /\ own[t] \in Ctxs \cup {Default}
    BY <1>2 DEF UsersInv, Shapes
  <2>3. Mine(u) # Mine(t)
    BY <2>1, <2>2 DEF Mine, UsersInv, OwnInv
  <2> QED
    BY <1>1, <1>2, <1>4, <2>1, <2>3 DEF Mine
<1>9. Shapes'
  BY <1>1, <1>2, <1>5 DEF UsersInv, Shapes, States
<1>10. LockInv'
  BY <1>1, <1>3, <1>4, <1>8 DEF UsersInv, LockInv, ContextsAssumption
<1>11. OwnInv'
  <2>1. \A u \in Threads : own'[u] # NoCtx =>
          Mine(u)' \in Ctxs /\ ctx'[Mine(u)'].state = IF pc'[u] \in Starting THEN "init" ELSE "live"
    BY <1>4, <1>5, <1>8 DEF UsersInv, OwnInv
  <2>2. \A u, v \in Threads : own'[u] \in Ctxs => own'[u] # default' /\ (own'[v] = own'[u] => v = u)
    BY <1>1, <1>4 DEF UsersInv, OwnInv, ContextsAssumption
  <2>3. default' = NoCtx <=> Users' = {}
    BY <1>1, <1>7 DEF UsersInv, OwnInv
  <2> QED
    BY <2>1, <2>2, <2>3 DEF OwnInv
<1>12. RefInv'
  <2>1. \A u \in Threads : pc'[u] \notin Exiting
    BY <1>3, <1>4
  <2>2. refcnt' = Cardinality(Users')
    <3>1. CASE own[t] = Default
      <4>1. refcnt' = 0
        BY <1>1, <3>1 DEF UsersInv, RefInv
      <4> QED
        BY <1>7, <3>1, <4>1, FS_EmptySet
    <3>2. CASE own[t] # Default
      <4>1. ~\E u \in Threads : pc[u] \in Exiting /\ own[u] = Default
        BY <1>3, <3>2
      <4> QED
        BY <1>1, <1>7, <3>2, <4>1 DEF UsersInv, RefInv
    <3> QED
      BY <3>1, <3>2
  <2> QED
    BY <2>1, <2>2 DEF RefInv
<1>13. FallbackInv'
  <2>1. fallback # NoCtx => fallback \in Ctxs /\ fallback # default /\ ctx[fallback].state = "live"
    BY DEF UsersInv, FallbackInv, Shapes
  <2>2. ASSUME fallback' # NoCtx PROVE fallback' = fallback /\ fallback # cur[t]
    BY <1>1, <1>2, <2>1, <2>2 DEF Mine
  <2> QED
    BY <1>1, <1>5, <2>1, <2>2 DEF FallbackInv
<1>14. ActiveInv'
  BY <1>1, <1>2, <1>3, <1>4, <1>5 DEF UsersInv, ActiveInv, Shapes
<1> QED
  BY <1>9, <1>10, <1>11, <1>12, <1>13, <1>14 DEF UsersInv

\* libusb_exit takes one user away, or begins with the last.
LEMMA ExitsKeep ==
  ASSUME ContextsAssumption, UsersInv, NEW t \in Threads, ExitShared(t) \/ Exit(t)
  PROVE  UsersInv'
<1> USE DEF Critical, Starting, Exiting
<1>1. pc[t] = "idle" /\ lock = NoOne /\ own[t] # NoCtx
  BY DEF ExitShared, Exit, ContextsAssumption
<1>2. \A u \in Threads : pc[u] \notin Critical
  BY <1>1 DEF UsersInv, LockInv, ContextsAssumption
<1>3. refcnt = Cardinality(Users)
  BY <1>2 DEF UsersInv, RefInv
<1>4. CASE ExitShared(t)
  <2>1. /\ own[t] = Default /\ refcnt > 1 /\ refcnt' = refcnt - 1
        /\ own' = [own EXCEPT ![t] = NoCtx]
        /\ UNCHANGED <<lockVars, pc, cur, ctxVars, default, fallback, option>>
    BY <1>4 DEF ExitShared
  <2>2. \A u \in Threads : own'[u] = IF u = t THEN NoCtx ELSE own[u]
    BY <2>1 DEF UsersInv, Shapes
  <2>3. Users' = Users \ {t} /\ t \in Users
    BY <2>1, <2>2 DEF Users, ContextsAssumption
  <2>4. refcnt' = Cardinality(Users')
    BY <1>3, <2>1, <2>3, UsersFinite, FS_RemoveElement
  <2>5. Users' # {}
    BY <2>1, <2>4, <1>3, UsersFinite, FS_EmptySet
  <2>6. \A u \in Threads : u # t => Mine(u)' = Mine(u)
    BY <2>1, <2>2 DEF Mine
  <2>7. Shapes'
    BY <2>1 DEF UsersInv, Shapes
  <2>8. LockInv'
    BY <1>1, <1>2, <2>1, <2>2, <2>6 DEF UsersInv, LockInv
  <2>9. OwnInv'
    BY <1>2, <2>1, <2>2, <2>3, <2>5, <2>6 DEF UsersInv, OwnInv, ContextsAssumption
  <2>10. RefInv'
    BY <1>2, <2>1, <2>4 DEF RefInv
  <2>11. FallbackInv' /\ ActiveInv'
    BY <2>1 DEF UsersInv, FallbackInv, ActiveInv
  <2> QED
    BY <2>7, <2>8, <2>9, <2>10, <2>11 DEF UsersInv
<1>5. CASE Exit(t)
  <2>1. /\ own[t] = Default => refcnt = 1
        /\ active' = active \ {Mine(t)} /\ cur' = [cur EXCEPT ![t] = Mine(t)]
        /\ refcnt' = IF own[t] = Default THEN 0 ELSE refcnt
        /\ lock' = t /\ pc' = [pc EXCEPT ![t] = "exit"]
        /\ UNCHANGED <<hotplug, own, ctx, default, fallback, option>>
    BY <1>5 DEF Exit, Mine
  <2>2. Mine(t) \in Ctxs /\ Users' = Users /\ \A u \in Threads : Mine(u)' = Mine(u)
    BY <1>1, <2>1 DEF UsersInv, OwnInv, Users, Mine
  <2>3. \A u \in Threads : /\ pc'[u] = IF u = t THEN "exit" ELSE pc[u]
                           /\ cur'[u] = IF u = t THEN Mine(t) ELSE cur[u]
    BY <2>1 DEF UsersInv, Shapes
  <2>4. own[t] = Default => Users = {t}
    <3> SUFFICES ASSUME own[t] = Default PROVE Users = {t}
      OBVIOUS
    <3>1. Cardinality(Users) = 1 /\ t \in Users
      BY <1>3, <2>1 DEF Users
    <3>2. PICK x : Users = {x}
      BY <3>1, UsersFinite, FS_Singleton
    <3> QED
      BY <3>1, <3>2
  <2>5. Shapes'
    BY <2>1, <2>2 DEF UsersInv, Shapes
  <2>6. LockInv'
    BY <1>1, <1>2, <2>1, <2>2, <2>3 DEF UsersInv, LockInv, ContextsAssumption
  <2>7. OwnInv'
    BY <1>2, <2>1, <2>2, <2>3 DEF UsersInv, OwnInv
  <2>8. RefInv'
    <3>1. \A u \in Threads : pc'[u] \in Exiting <=> u = t
      BY <1>2, <2>3
    <3> QED
      BY <1>3, <2>1, <2>2, <2>4, <3>1 DEF RefInv
  <2>9. FallbackInv' /\ ActiveInv'
    BY <1>2, <2>1, <2>3 DEF UsersInv, FallbackInv, ActiveInv
  <2> QED
    BY <2>5, <2>6, <2>7, <2>8, <2>9 DEF UsersInv
<1> QED
  BY <1>4, <1>5

\* Neither do options, polls and the monitor thread disturb anyone.
LEMMA OthersKeep ==
  ASSUME ContextsAssumption, UsersInv,
         \/ \E t \in Threads : SetDefaultOption(t) \/ PollEnter(t) \/ PollLeave(t)
         \/ MonitorEnter \/ MonitorLeave \/ MonitorEnds \/ UNCHANGED vars
  PROVE  UsersInv'
<1> USE DEF Critical, Starting, Exiting
<1>1. ASSUME NEW t \in Threads, SetDefaultOption(t) PROVE UsersInv'
  <2>1. /\ option' = TRUE /\ UNCHANGED <<lockVars, threadVars, active, default, refcnt, fallback>>
        /\ ctx' = IF Implicit = NoCtx THEN ctx ELSE [ctx EXCEPT ![Implicit].noDiscovery = TRUE]
    BY <1>1 DEF SetDefaultOption
  <2>2. Implicit # NoCtx => Implicit \in Ctxs
    BY DEF Implicit, UsersInv, Shapes
  <2>3. \A c \in Ctxs : ctx'[c].state = ctx[c].state /\ ctx'[c] \in [state : States, noDiscovery : BOOLEAN]
    BY <2>1, <2>2 DEF UsersInv, Shapes
  <2>4. DOMAIN ctx' = Ctxs /\ ctx' = [c \in Ctxs |-> ctx'[c]]
    BY <2>1 DEF UsersInv, Shapes
  <2>5. Shapes'
    BY <2>1, <2>3, <2>4 DEF UsersInv, Shapes
  <2>6. Users' = Users /\ \A u \in Threads : Mine(u)' = Mine(u)
    BY <2>1 DEF Users, Mine
  <2>7. LockInv' /\ OwnInv' /\ RefInv'
    BY <2>1, <2>3, <2>6 DEF UsersInv, LockInv, OwnInv, RefInv
  <2>8. FallbackInv' /\ ActiveInv'
    BY <2>1, <2>3 DEF UsersInv, Shapes, FallbackInv, ActiveInv
  <2> QED
    BY <2>5, <2>7, <2>8 DEF UsersInv
<1>2. ASSUME NEW t \in Threads, PollEnter(t) \/ PollLeave(t) PROVE UsersInv'
  <2>1. PICK l \in {"idle", "poll"} : pc' = [pc EXCEPT ![t] = l]
    BY <1>2 DEF PollEnter, PollLeave
  <2>2. /\ UNCHANGED <<lock, own, cur, calls, ctxVars, defaultVars>>
        /\ pc[t] \in {"idle", "poll"} /\ own[t] # NoCtx
        /\ hotplug' \in Threads \cup {NoOne}
    BY <1>2 DEF PollEnter, PollLeave, UsersInv, LockInv
  <2>3. \A u \in Threads : pc'[u] = IF u = t THEN l ELSE pc[u]
    BY <2>1 DEF UsersInv, Shapes
  <2>4. \A u \in Threads : /\ pc'[u] \in Starting <=> pc[u] \in Starting
                           /\ pc'[u] \in Exiting <=> pc[u] \in Exiting
                           /\ pc'[u] \in {"io", "err_free"} <=> pc[u] \in {"io", "err_free"}
                           /\ pc'[u] = "poll" => own[u] # NoCtx
    BY <2>2, <2>3 DEF UsersInv, LockInv
  <2>5. Users' = Users /\ \A u \in Threads : Mine(u)' = Mine(u)
    BY <2>2 DEF Users, Mine
  <2>6. Shapes'
    BY <2>1, <2>2 DEF UsersInv, Shapes
  <2>7. LockInv' /\ OwnInv' /\ RefInv'
    BY <2>2, <2>4, <2>5 DEF UsersInv, LockInv, OwnInv, RefInv
  <2>8. FallbackInv' /\ ActiveInv'
    BY <2>2, <2>4 DEF UsersInv, FallbackInv, ActiveInv
  <2> QED
    BY <2>6, <2>7, <2>8 DEF UsersInv
<1>3. CASE MonitorEnter \/ MonitorLeave \/ MonitorEnds \/ UNCHANGED vars
  <2>1. UNCHANGED <<lock, pc, own, cur, ctx, active, default, refcnt, fallback, option>>
        /\ hotplug' \in {hotplug, Monitor, NoOne}
    BY <1>3 DEF MonitorEnter, MonitorLeave, MonitorEnds
  <2>2. Users' = Users /\ \A u \in Threads : Mine(u)' = Mine(u)
    BY <2>1 DEF Users, Mine
  <2>3. Shapes'
    BY <2>1 DEF UsersInv, Shapes
  <2>4. LockInv' /\ OwnInv' /\ RefInv' /\ FallbackInv' /\ ActiveInv'
    BY <2>1, <2>2 DEF UsersInv, LockInv, OwnInv, RefInv, FallbackInv, ActiveInv
  <2> QED
    BY <2>3, <2>4 DEF UsersInv
<1> QED
  BY <1>1, <1>2, <1>3

LEMMA UsersInductive ==
  ASSUME ContextsAssumption
  PROVE  /\ Init => UsersInv
         /\ UsersInv /\ [Next]_vars => UsersInv'
<1>1. ASSUME Init PROVE UsersInv
  <2> USE <1>1 DEF Init
  <2>1. Shapes
    BY DEF Shapes, Fresh, States
  <2>2. Users = {} /\ Cardinality(Users) = 0
    BY FS_EmptySet DEF Users, ContextsAssumption
  <2>3. LockInv
    BY DEF LockInv, ContextsAssumption, Critical, Starting, Exiting
  <2>4. OwnInv
    BY <2>2 DEF OwnInv, ContextsAssumption
  <2>5. RefInv
    BY <2>2 DEF RefInv, Exiting
  <2>6. FallbackInv /\ ActiveInv
    BY DEF FallbackInv, ActiveInv, Exiting
  <2> QED
    BY <2>1, <2>3, <2>4, <2>5, <2>6 DEF UsersInv
<1>2. ASSUME UsersInv, [Next]_vars PROVE UsersInv'
  <2>1. ASSUME NEW t \in Threads, Begin(t) PROVE UsersInv'
    BY <1>2, <2>1, ReuseKeeps, AllocateKeeps, OthersKeep DEF Begin
  <2>2. ASSUME NEW t \in Threads, Go(t) PROVE UsersInv'
    <3>1. CASE \/ IoInit(t) \/ BackendInit(t) \/ StartMonitor(t) \/ Scan(t) \/ InitUndone(t)
               \/ BackendExit(t) \/ StopSignal(t) \/ StopJoin(t) \/ StopForget(t)
      BY <1>2, <3>1, TheMoves, MovesKeep
    <3>2. CASE InitDone(t) \/ InitFailed(t) \/ ExitDone(t) \/ PollLeave(t)
      BY <1>2, <3>2, InitDoneKeeps, FreesKeep, OthersKeep
    <3> QED
      BY <2>2, <3>1, <3>2 DEF Go
  <2>3. ASSUME NEW t \in Threads, ExitShared(t) \/ Exit(t) PROVE UsersInv'
    BY <1>2, <2>3, ExitsKeep
  <2>4. CASE MonitorEnter \/ MonitorLeave \/ MonitorEnds \/ UNCHANGED vars
    BY <1>2, <2>4, OthersKeep
  <2> QED
    BY <1>2, <2>1, <2>2, <2>3, <2>4 DEF Next
<1> QED
  BY <1>1, <1>2

LEMMA UsersInvHolds == ContextsAssumption => (Spec => []UsersInv)
<1> SUFFICES ASSUME ContextsAssumption PROVE Spec => []UsersInv
  OBVIOUS
<1> QED
  BY UsersInductive, PTL DEF Spec

\* One user's libusb_exit leaves the contexts of the others alone (libusb_init_context
\* and libusb_exit of core.c), for any number of threads and contexts and whatever fails.
THEOREM UsersDoNotInterfere == ContextsAssumption => (Spec => []UsersAreIndependent)
<1> SUFFICES ASSUME ContextsAssumption PROVE Spec => []UsersAreIndependent
  OBVIOUS
<1>1. ASSUME UsersInv PROVE UsersAreIndependent
  <2>1. \A t \in Threads : pc[t] \in {"idle", "poll"} /\ own[t] # NoCtx =>
          Mine(t) # NoCtx /\ ctx[Mine(t)].state = "live"
    BY <1>1 DEF UsersInv, OwnInv, ContextsAssumption, Starting
  <2>2. ASSUME lock = NoOne
        PROVE  /\ \A t \in Threads : pc[t] \notin Critical
               /\ refcnt = Cardinality(Users)
               /\ default # NoCtx => default \in Live
               /\ fallback # NoCtx => fallback \in Live
    <3>1. \A t \in Threads : pc[t] \notin Critical
      BY <1>1, <2>2 DEF UsersInv, LockInv, ContextsAssumption
    <3>2. refcnt = Cardinality(Users)
      BY <1>1, <3>1 DEF UsersInv, RefInv, Critical
    <3>3. ASSUME default # NoCtx PROVE default \in Live
      <4>1. PICK t \in Threads : own[t] = Default
        BY <1>1, <3>3 DEF UsersInv, OwnInv, Users
      <4>2. default \in Ctxs /\ ctx[default].state = "live"
        BY <1>1, <3>1, <4>1 DEF UsersInv, OwnInv, Mine, ContextsAssumption, Critical
      <4> QED
        BY <4>2 DEF Live
    <3>4. fallback # NoCtx => fallback \in Live
      BY <1>1 DEF UsersInv, FallbackInv, Shapes, Live
    <3> QED
      BY <3>1, <3>2, <3>3, <3>4
  <2>3. \A c \in active : ctx[c].state \in {"init", "live"}
    BY <1>1 DEF UsersInv, ActiveInv
  <2> QED
    BY <2>1, <2>2, <2>3 DEF UsersAreIndependent, Mine, Users
<1> QED
  BY <1>1, UsersInvHolds, PTL

-----------------------------------------------------------------------------
\* The thread that holds default_context_lock, and what it works on.
LEMMA TheHolder ==
  ASSUME ContextsAssumption, UsersInv
  PROVE  /\ lock # NoOne => lock \in Threads /\ Place = pc[lock] /\ Worked = cur[lock] /\ Worked \in Ctxs
                            /\ Place \in Critical
                            /\ ctx[Worked].state = IF Place \in Starting THEN "init" ELSE "live"
         /\ lock = NoOne => Place = "idle" /\ Worked = NoCtx
         /\ \A t \in Threads : pc[t] \in Critical => lock = t /\ lock # NoOne
         /\ IsFiniteSet(Counted) /\ Cardinality(Counted) =< Cardinality(Ctxs)
<1>1. \A t \in Threads : (pc[t] \in Critical <=> lock = t) /\ t # NoOne
  BY DEF UsersInv, LockInv, ContextsAssumption
<1>2. lock \in Threads \cup {NoOne}
  BY DEF UsersInv, Shapes
<1>3. \A t \in Threads : pc[t] \in Critical =>
        cur[t] \in Ctxs /\ ctx[cur[t]].state = IF pc[t] \in Starting THEN "init" ELSE "live"
  BY DEF UsersInv, LockInv, OwnInv
<1>4. IsFiniteSet(Counted) /\ Cardinality(Counted) =< Cardinality(Ctxs)
  BY FS_Subset DEF Counted, ContextsAssumption
<1> QED
  BY <1>1, <1>2, <1>3, <1>4 DEF Place, Worked

\* libusb_init_context outside the lock: a context that is not counted.
LEMMA AllocateScans ==
  ASSUME ContextsAssumption, UsersInv, UsersInv', ScanInv, NEW t \in Threads, Allocate(t)
  PROVE  ScanInv'
<1> USE DEF Critical, Starting, Exiting
<1> DEFINE c == CHOOSE x \in Ctxs : ctx[x].state = "unused"
<1>1. /\ lock = NoOne /\ lock' = t /\ pc' = [pc EXCEPT ![t] = "io"] /\ cur' = [cur EXCEPT ![t] = c]
      /\ UNCHANGED udevVars
  BY DEF Allocate
<1>2. c \in Ctxs /\ ctx[c].state = "unused"
  BY DEF Allocate
<1>3. PICK asked \in BOOLEAN :
        ctx' = [ctx EXCEPT ![c] = [state |-> "init", noDiscovery |-> option \/ asked]]
  BY DEF Allocate
<1> HIDE DEF c
<1>4. Place = "idle" /\ Worked = NoCtx /\ Place' = "io" /\ Worked' = c
  BY <1>1, TheHolder DEF Place, Worked, UsersInv, Shapes, ContextsAssumption
<1>5. \A d \in Ctxs : d # c => ctx'[d] = ctx[d]
  BY <1>2, <1>3 DEF UsersInv, Shapes
<1>9. ctx'[c].state = "init"
  BY <1>2, <1>3 DEF UsersInv, Shapes
<1>6. Counted' = Counted
  BY <1>2, <1>4, <1>5, <1>9 DEF Counted, ContextsAssumption
<1>7. CountInv'
  BY <1>1, <1>4, <1>6 DEF ScanInv, CountInv, Looks
<1>8. MonitorInv'
  BY <1>1, <1>4 DEF ScanInv, MonitorInv, Udev, Runs
<1> QED
  BY <1>1, <1>7, <1>8 DEF ScanInv

\* The end of a call: a context is live and counted as before, or is freed uncounted.
LEMMA EndsScan ==
  ASSUME ContextsAssumption, UsersInv, UsersInv', ScanInv, NEW t \in Threads,
         InitDone(t) \/ InitFailed(t) \/ ExitDone(t)
  PROVE  ScanInv'
<1> USE DEF Critical, Starting, Exiting
<1>1. /\ lock' = NoOne /\ UNCHANGED udevVars
      /\ \/ pc[t] = "done" /\ ctx' = [ctx EXCEPT ![cur[t]].state = "live"]
         \/ pc[t] \in {"err_free", "free"} /\ ctx' = [ctx EXCEPT ![cur[t]].state = "freed"]
  BY DEF InitDone, InitFailed, ExitDone
<1>2. Place = pc[t] /\ Worked = cur[t] /\ cur[t] \in Ctxs /\ Place' = "idle" /\ Worked' = NoCtx
      /\ ctx[cur[t]].state = IF Place \in Starting THEN "init" ELSE "live"
  BY <1>1, TheHolder DEF Place, Worked
<1>3. \A d \in Ctxs : /\ ctx'[d].noDiscovery = ctx[d].noDiscovery
                      /\ ctx'[d].state = IF d = cur[t] THEN IF pc[t] = "done" THEN "live" ELSE "freed"
                                         ELSE ctx[d].state
  BY <1>1, <1>2 DEF UsersInv, Shapes
<1>4. Counted' = Counted
  BY <1>1, <1>2, <1>3 DEF Counted, ContextsAssumption
<1>5. CountInv'
  BY <1>1, <1>2, <1>4 DEF ScanInv, CountInv, Looks
<1>6. MonitorInv'
  BY <1>1, <1>2 DEF ScanInv, MonitorInv, Udev, Runs
<1> QED
  BY <1>1, <1>5, <1>6 DEF ScanInv

LEMMA ExitScans ==
  ASSUME ContextsAssumption, UsersInv, UsersInv', ScanInv, NEW t \in Threads, Exit(t)
  PROVE  ScanInv'
<1> USE DEF Critical, Starting, Exiting
<1>1. /\ lock = NoOne /\ lock' = t /\ pc' = [pc EXCEPT ![t] = "exit"] /\ UNCHANGED <<ctx, udevVars>>
  BY DEF Exit
<1>2. Place = "idle" /\ Worked = NoCtx /\ Place' = "exit"
      /\ Worked' \in Ctxs /\ ctx'[Worked'].state = "live"
  <2>1. Place = "idle" /\ Worked = NoCtx /\ Place' = "exit"
    BY <1>1, TheHolder DEF Place, UsersInv, Shapes, ContextsAssumption
  <2>2. pc'[t] = "exit"
    BY <1>1 DEF UsersInv, Shapes
  <2>3. cur'[t] = Mine(t)' /\ Mine(t)' \in Ctxs /\ ctx'[Mine(t)'].state = "live"
    BY <2>2 DEF UsersInv, LockInv, OwnInv
  <2>4. Worked' = cur'[t]
    BY <1>1 DEF Worked, ContextsAssumption
  <2> QED
    BY <2>1, <2>3, <2>4
<1>3. Counted' = Counted
  BY <1>1, <1>2 DEF Counted
<1> QED
  BY <1>1, <1>2, <1>3 DEF ScanInv, CountInv, MonitorInv, Looks, Udev, Runs

\* The steps inside the lock but op_init's scan and op_exit: nothing is counted.
LEMMA MovesScan ==
  ASSUME ContextsAssumption, UsersInv, UsersInv', ScanInv, NEW t \in Threads,
         \/ IoInit(t) \/ BackendInit(t) \/ StartMonitor(t) \/ InitUndone(t)
         \/ StopSignal(t) \/ StopJoin(t) \/ StopForget(t)
  PROVE  ScanInv'
<1> USE DEF Critical, Starting, Exiting
<1>1. /\ lock' = lock /\ cur' = cur /\ ctx' = ctx /\ initCount' = initCount
      /\ pc[t] \in Critical
      /\ \E l \in Critical : pc' = [pc EXCEPT ![t] = l]
  BY DEF IoInit, BackendInit, StartMonitor, InitUndone, StopSignal, StopJoin, StopForget
<1>2. lock = t /\ lock # NoOne /\ Place = pc[t] /\ Worked = cur[t] /\ Worked \in Ctxs
      /\ ctx[Worked].state = IF Place \in Starting THEN "init" ELSE "live"
  BY <1>1, TheHolder
<1>3. Place' = pc'[t] /\ Worked' = Worked
  BY <1>1, <1>2 DEF Place, Worked
<1>4. t \in DOMAIN pc
  BY DEF UsersInv, Shapes
<1> DEFINE Good(l) == l = "done" => ctx[Worked].noDiscovery
           Same(l) == l \in Exiting \ {"exit"} <=> Place \in Exiting \ {"exit"}
<1>5. Good(Place') /\ Same(Place') /\ Place # "done" /\ (Place' \in Looks => ~ctx[Worked].noDiscovery)
  <2>1. CASE IoInit(t)
    BY <1>2, <1>3, <1>4, <2>1 DEF IoInit, Looks
  <2>2. CASE BackendInit(t)
    BY <1>2, <1>3, <1>4, <2>2 DEF BackendInit, Looks
  <2>3. CASE StartMonitor(t)
    BY <1>2, <1>3, <1>4, <2>3 DEF StartMonitor, Looks, ScanInv, CountInv
  <2>4. CASE InitUndone(t)
    BY <1>2, <1>3, <1>4, <2>4 DEF InitUndone, Looks
  <2>5. CASE StopSignal(t)
    BY <1>2, <1>3, <1>4, <2>5 DEF StopSignal, Looks, ScanInv, CountInv
  <2>6. CASE StopJoin(t)
    BY <1>2, <1>3, <1>4, <2>6 DEF StopJoin, Looks, ScanInv, CountInv
  <2>7. CASE StopForget(t)
    BY <1>2, <1>3, <1>4, <2>7 DEF StopForget, Looks, ScanInv, CountInv
  <2> QED
    BY <2>1, <2>2, <2>3, <2>4, <2>5, <2>6, <2>7
<1>6. Counted' = Counted
  BY <1>1, <1>2, <1>3, <1>5 DEF Counted
<1>7. CountInv'
  BY <1>1, <1>3, <1>5, <1>6 DEF ScanInv, CountInv
<1>8. MonitorInv'
  <2> USE DEF MonitorInv, Udev, Runs
  <2>0. MonitorInv
    BY DEF ScanInv
  <2>1. CASE IoInit(t)
    BY <1>2, <1>3, <1>4, <2>0, <2>1 DEF IoInit
  <2>2. CASE BackendInit(t)
    BY <1>2, <1>3, <1>4, <2>0, <2>2 DEF BackendInit, ScanInv
  <2>3. CASE StartMonitor(t)
    BY <1>2, <1>3, <1>4, <2>0, <2>3 DEF StartMonitor
  <2>4. CASE InitUndone(t)
    BY <1>2, <1>3, <1>4, <2>0, <2>4 DEF InitUndone
  <2>5. CASE StopSignal(t)
    <3>1. Place \in {"stop", "err_stop"} /\ Place' \in {"join", "err_join"}
      BY <1>2, <1>3, <1>4, <2>5 DEF StopSignal
    <3>2. initCount' = 0 /\ (Runs)'
      BY <2>0, <2>5, <3>1 DEF StopSignal
    <3>3. Udev("open", TRUE)'
      <4>1. udev = [monitor |-> "open", control |-> FALSE]
        BY <2>0, <3>1
      <4>2. udev' = [[monitor |-> "open", control |-> FALSE] EXCEPT !.control = TRUE]
        BY <2>5, <4>1 DEF StopSignal
      <4> QED
        BY <4>2
    <3> QED
      BY <3>1, <3>2, <3>3
  <2>6. CASE StopJoin(t)
    <3>1. Place \in {"join", "err_join"} /\ Place' \in {"forget", "err_forget"}
      BY <1>2, <1>3, <1>4, <2>6 DEF StopJoin
    <3>2. initCount' = 0 /\ (thread = "ended")'
      BY <2>0, <2>6, <3>1 DEF StopJoin
    <3>3. Udev("freed", TRUE)'
      <4>1. udev = [monitor |-> "open", control |-> TRUE]
        BY <2>0, <3>1
      <4>2. udev' = [[monitor |-> "open", control |-> TRUE] EXCEPT !.monitor = "freed"]
        BY <2>6, <4>1 DEF StopJoin
      <4> QED
        BY <4>2
    <3> QED
      BY <3>1, <3>2, <3>3
  <2>7. CASE StopForget(t)
    BY <1>2, <1>3, <1>4, <2>0, <2>7 DEF StopForget, NoUdev
  <2> QED
    BY <2>1, <2>2, <2>3, <2>4, <2>5, <2>6, <2>7
<1> QED
  BY <1>1, <1>7, <1>8 DEF ScanInv

\* The first scan counts a context that looks for devices, op_exit takes it away.
LEMMA CountsScan ==
  ASSUME ContextsAssumption, UsersInv, UsersInv', ScanInv, NEW t \in Threads, Scan(t) \/ BackendExit(t)
  PROVE  ScanInv'
<1> USE DEF Critical, Starting, Exiting
<1>1. /\ lock' = lock /\ cur' = cur /\ ctx' = ctx /\ udev' = udev /\ thread' = thread
      /\ pc[t] \in {"scan", "exit"}
  BY DEF Scan, BackendExit
<1>2. lock = t /\ lock # NoOne /\ Place = pc[t] /\ Worked = cur[t] /\ Worked \in Ctxs
      /\ ctx[Worked].state = IF Place \in Starting THEN "init" ELSE "live"
  BY <1>1, TheHolder
<1>3. Place' = pc'[t] /\ Worked' = Worked /\ t \in DOMAIN pc
  BY <1>1, <1>2 DEF Place, Worked, UsersInv, Shapes
<1>4. initCount = Cardinality(Counted) /\ initCount \in Nat /\ IsFiniteSet(Counted)
      /\ (Place \in Looks => ~ctx[Worked].noDiscovery)
  BY TheHolder DEF ScanInv, CountInv
<1>5. CASE Scan(t)
  <2>1. pc[t] = "scan" /\ ~ctx[Worked].noDiscovery /\ Udev("open", FALSE) /\ Runs
    BY <1>2, <1>4, <1>5 DEF Scan, Looks, ScanInv, MonitorInv
  <2>2. CASE initCount' = initCount + 1 /\ pc' = [pc EXCEPT ![t] = "done"]
    <3>1. Place' = "done"
      BY <1>3, <2>2
    <3>2. Worked \notin Counted /\ Counted' = Counted \cup {Worked}
      BY <1>1, <1>2, <1>3, <2>1, <3>1 DEF Counted
    <3>3. initCount' = Cardinality(Counted')
      BY <1>4, <2>2, <3>2, FS_AddElement
    <3> QED
      BY <1>1, <1>4, <2>1, <2>2, <3>1, <3>3 DEF ScanInv, CountInv, MonitorInv, Looks, Udev, Runs
  <2>3. CASE initCount' = initCount /\ pc' = [pc EXCEPT ![t] = IF initCount = 0 THEN "err_stop" ELSE "err_io"]
    <3>1. Place' = IF initCount = 0 THEN "err_stop" ELSE "err_io"
      BY <1>3, <2>3
    <3>2. Counted' = Counted
      BY <1>1, <1>2, <1>3, <2>1, <3>1 DEF Counted
    <3> QED
      BY <1>1, <1>3, <1>4, <2>1, <2>3, <3>1, <3>2 DEF ScanInv, CountInv, MonitorInv, Looks, Udev, Runs
  <2> QED
    BY <1>5, <2>2, <2>3 DEF Scan
<1>6. CASE BackendExit(t)
  <2>1. Place = "exit" /\ ctx[Worked].state = "live"
    BY <1>2, <1>6 DEF BackendExit
  <2>2. IF initCount > 0 THEN Udev("open", FALSE) /\ Runs ELSE Udev("none", FALSE) /\ thread = "none"
    BY <2>1 DEF ScanInv, MonitorInv
  <2>3. CASE ctx[Worked].noDiscovery
    <3>1. initCount' = initCount /\ Place' = "free"
      BY <1>2, <1>3, <1>6, <2>3 DEF BackendExit
    <3>2. Counted' = Counted
      BY <1>1, <1>2, <1>3, <2>1, <2>3, <3>1 DEF Counted
    <3> QED
      BY <1>1, <1>4, <2>2, <3>1, <3>2 DEF ScanInv, CountInv, MonitorInv, Looks, Udev, Runs
  <2>4. CASE ~ctx[Worked].noDiscovery
    <3>1. initCount' = initCount - 1 /\ Place' = IF initCount = 1 THEN "stop" ELSE "free"
      BY <1>2, <1>3, <1>6, <2>4 DEF BackendExit
    <3>2. Worked \in Counted /\ Counted' = Counted \ {Worked}
      BY <1>1, <1>2, <1>3, <2>1, <2>4, <3>1 DEF Counted
    <3>3. initCount' = Cardinality(Counted') /\ initCount > 0
      BY <1>4, <3>1, <3>2, FS_RemoveElement, FS_EmptySet
    <3> QED
      BY <1>1, <1>3, <1>4, <2>2, <2>4, <3>1, <3>3 DEF ScanInv, CountInv, MonitorInv, Looks, Udev, Runs
  <2> QED
    BY <2>3, <2>4
<1> QED
  BY <1>5, <1>6

LEMMA OthersScan ==
  ASSUME ContextsAssumption, ~SetsLive, UsersInv, ScanInv,
         \/ \E t \in Threads : \/ ReuseDefault(t) \/ ExitShared(t)
                              \/ SetDefaultOption(t) \/ PollEnter(t) \/ PollLeave(t)
         \/ MonitorEnter \/ MonitorLeave \/ MonitorEnds \/ UNCHANGED vars
  PROVE  ScanInv'
<1> USE DEF Critical, Starting, Exiting
<1>1. /\ UNCHANGED <<lock, cur, ctx, initCount, udev>>
      /\ thread' = thread \/ (thread = "running" /\ thread' = "ended")
      /\ pc' = pc \/ \E t \in Threads, l \in {"idle", "poll"} : pc[t] \in {"idle", "poll"} /\ pc' = [pc EXCEPT ![t] = l]
  BY DEF ReuseDefault, ExitShared, SetDefaultOption, PollEnter, PollLeave, MonitorEnter, MonitorLeave, MonitorEnds
<1>2. lock # NoOne => pc'[lock] = pc[lock]
  <2>1. lock # NoOne => pc[lock] \notin {"idle", "poll"}
    BY TheHolder
  <2> QED
    BY <1>1, <2>1 DEF UsersInv, Shapes
<1>3. Place' = Place /\ Worked' = Worked
  BY <1>1, <1>2 DEF Place, Worked
<1>4. Counted' = Counted
  BY <1>1, <1>3 DEF Counted
<1>5. Runs' = Runs /\ (thread = "none" => thread' = "none") /\ (thread = "ended" => thread' = "ended")
  BY <1>1 DEF Runs
<1>6. MonitorInv'
  BY <1>1, <1>3, <1>5 DEF ScanInv, MonitorInv, Udev
<1> QED
  BY <1>1, <1>3, <1>4, <1>6 DEF ScanInv, CountInv

LEMMA ScanInvHolds == ContextsAssumption /\ ~SetsLive => (Spec => []ScanInv)
<1> SUFFICES ASSUME ContextsAssumption, ~SetsLive PROVE Spec => []ScanInv
  OBVIOUS
<1>1. Init => ScanInv
  <2> SUFFICES ASSUME Init PROVE ScanInv
    OBVIOUS
  <2>1. Place = "idle" /\ Worked = NoCtx
    BY DEF Init, Place, Worked
  <2>2. Counted = {}
    BY <2>1 DEF Init, Counted, Fresh, Exiting
  <2> QED
    BY <2>1, <2>2, FS_EmptySet DEF Init, ScanInv, CountInv, MonitorInv, Looks, Udev, NoUdev
<1>2. UsersInv /\ UsersInv' /\ ScanInv /\ [Next]_vars => ScanInv'
  <2> SUFFICES ASSUME UsersInv, UsersInv', ScanInv, [Next]_vars PROVE ScanInv'
    OBVIOUS
  <2>1. ASSUME NEW t \in Threads, Begin(t) PROVE ScanInv'
    BY <2>1, AllocateScans, OthersScan DEF Begin
  <2>2. ASSUME NEW t \in Threads, Go(t) PROVE ScanInv'
    BY <2>2, MovesScan, CountsScan, EndsScan, OthersScan DEF Go
  <2>3. ASSUME NEW t \in Threads, ExitShared(t) \/ Exit(t) PROVE ScanInv'
    BY <2>3, ExitScans, OthersScan
  <2>4. CASE MonitorEnter \/ MonitorLeave \/ MonitorEnds \/ UNCHANGED vars
    BY <2>4, OthersScan
  <2> QED
    BY <2>1, <2>2, <2>3, <2>4 DEF Next
<1> QED
  BY <1>1, <1>2, UsersInvHolds, PTL DEF Spec

\* Between two calls init_count is the number of contexts that look for devices, and
\* the monitor and its thread exist exactly as long as there is one (op_init, op_exit,
\* linux_udev_start_event_monitor and _stop_event_monitor), unless the option of
\* a context in use is changed.
THEOREM MonitorFollowsContexts == ContextsAssumption /\ ~SetsLive => (Spec => [](TypeOK /\ MonitorWhileNeeded))
<1> SUFFICES ASSUME ContextsAssumption, ~SetsLive PROVE Spec => [](TypeOK /\ MonitorWhileNeeded)
  OBVIOUS
<1>1. ASSUME UsersInv, ScanInv PROVE TypeOK /\ MonitorWhileNeeded
  <2>1. refcnt \in 0..Cardinality(Threads)
    BY <1>1, UsersFinite, FS_CardinalityType DEF UsersInv, RefInv, Shapes, ContextsAssumption
  <2>2. initCount \in 0..Cardinality(Ctxs)
    BY <1>1, TheHolder, FS_CardinalityType DEF ScanInv, CountInv, ContextsAssumption
  <2>3. udev.monitor \in {"none", "open", "freed"} /\ thread \in {"none", "running", "ended"}
    <3>1. Place \in Critical \cup {"idle"}
      BY <1>1, TheHolder
    <3> QED
      BY <1>1, <3>1 DEF ScanInv, MonitorInv, Udev, Runs, Critical, Starting, Exiting
  <2>4. TypeOK
    BY <1>1, <2>1, <2>2, <2>3 DEF UsersInv, Shapes, States, TypeOK
  <2>5. ASSUME lock = NoOne
        PROVE  /\ initCount = Cardinality({c \in Live : ~ctx[c].noDiscovery})
               /\ udev.monitor = (IF initCount > 0 THEN "open" ELSE "none")
               /\ (thread = "none") <=> (initCount = 0)
    <3>1. Place = "idle" /\ Worked = NoCtx
      BY <1>1, <2>5, TheHolder
    <3>2. Counted = {c \in Live : ~ctx[c].noDiscovery}
      BY <3>1 DEF Counted, Live, ContextsAssumption, Exiting
    <3> QED
      BY <1>1, <3>1, <3>2 DEF ScanInv, CountInv, MonitorInv, Udev, Runs
  <2> QED
    BY <2>4, <2>5 DEF MonitorWhileNeeded
<1> QED
  BY <1>1, UsersInvHolds, ScanInvHolds, PTL

-----------------------------------------------------------------------------
\* What a thread that polls uses stays a context that looks for devices.
LEMMA PollKept ==
  ASSUME ContextsAssumption, ~SetsLive, ~PollsAlways, UsersInv, UsersInv', PollInv, [Next]_vars
  PROVE  PollInv'
<1> USE DEF Critical, Starting, Exiting
<1> SUFFICES ASSUME NEW u \in Threads
             PROVE  /\ polled'[u] = "open" => pc'[u] = "poll"
                    /\ pc'[u] = "poll" => ~ctx'[Mine(u)'].noDiscovery
  <2>1. DOMAIN polled' = Threads
    <3>1. polled' = polled \/ \E t \in Threads : \E m : polled' = [polled EXCEPT ![t] = m]
      <4>1. CASE \E t \in Threads : PollEnter(t) \/ PollLeave(t)
        BY <4>1 DEF PollEnter, PollLeave
      <4>2. CASE ~\E t \in Threads : PollEnter(t) \/ PollLeave(t)
        BY <4>2 DEF Next, Begin, Go, ReuseDefault, Allocate, SetDefaultOption, ExitShared, Exit, IoInit, BackendInit,
                    StartMonitor, Scan, InitDone, InitUndone, InitFailed, BackendExit, StopSignal, StopJoin,
                    StopForget, ExitDone, MonitorEnter, MonitorLeave, MonitorEnds
      <4> QED
        BY <4>1, <4>2
    <3> QED
      BY <3>1 DEF PollInv
  <2> QED
    BY <2>1 DEF PollInv
<1>0. /\ polled[u] = "open" => pc[u] = "poll"
      /\ pc[u] = "poll" => ~ctx[Mine(u)].noDiscovery
      /\ pc[u] = "poll" => own[u] # NoCtx /\ Mine(u) \in Ctxs /\ ctx[Mine(u)].state = "live"
      /\ pc'[u] = "poll" => own'[u] # NoCtx /\ Mine(u)' \in Ctxs /\ ctx'[Mine(u)'].state = "live"
  BY DEF PollInv, UsersInv, LockInv, OwnInv
<1>1. ASSUME NEW t \in Threads, PollEnter(t) \/ PollLeave(t)
      PROVE  /\ polled'[u] = "open" => pc'[u] = "poll"
             /\ pc'[u] = "poll" => ~ctx'[Mine(u)'].noDiscovery
  <2>1. UNCHANGED <<own, ctx, default>> /\ Mine(u)' = Mine(u)
    BY <1>1 DEF PollEnter, PollLeave, Mine
  <2>2. CASE PollEnter(t)
    <3>1. ~ctx[Mine(t)].noDiscovery /\ pc' = [pc EXCEPT ![t] = "poll"] /\ polled' = [polled EXCEPT ![t] = udev.monitor]
      BY <2>2 DEF PollEnter, Mine
    <3>2. CASE u = t
      BY <2>1, <3>1, <3>2 DEF UsersInv, Shapes
    <3>3. CASE u # t
      BY <1>0, <2>1, <3>1, <3>3
    <3> QED
      BY <3>2, <3>3
  <2>3. CASE PollLeave(t)
    <3>1. pc' = [pc EXCEPT ![t] = "idle"] /\ polled' = [polled EXCEPT ![t] = "none"]
      BY <2>3 DEF PollLeave
    <3>2. CASE u = t
      <4>1. pc'[u] = "idle"
        BY <3>1, <3>2 DEF UsersInv, Shapes
      <4>2. polled'[u] # "open"
        BY <3>1, <3>2 DEF PollInv
      <4> QED
        BY <4>1, <4>2
    <3>3. CASE u # t
      BY <1>0, <2>1, <3>1, <3>3
    <3> QED
      BY <3>2, <3>3
  <2> QED
    BY <1>1, <2>2, <2>3
\* Every other step leaves a thread that polls where it is.
<1>2. ASSUME UNCHANGED polled, pc[u] = "poll" => pc'[u] = "poll" /\ own'[u] = own[u], pc'[u] = "poll" => pc[u] = "poll",
             \/ UNCHANGED <<ctx, default>>
             \/ \E t \in Threads : Allocate(t)
             \/ \E t \in Threads : InitDone(t) \/ InitFailed(t) \/ ExitDone(t)
      PROVE  /\ polled'[u] = "open" => pc'[u] = "poll"
             /\ pc'[u] = "poll" => ~ctx'[Mine(u)'].noDiscovery
  <2> SUFFICES ASSUME pc'[u] = "poll", pc[u] = "poll" PROVE ~ctx'[Mine(u)'].noDiscovery
    BY <1>0, <1>2
  <2>1. own'[u] = own[u] /\ ~ctx[Mine(u)].noDiscovery
    BY <1>0, <1>2
  <2>2. CASE UNCHANGED <<ctx, default>>
    BY <2>1, <2>2 DEF Mine
  <2>3. ASSUME NEW t \in Threads, Allocate(t) PROVE ~ctx'[Mine(u)'].noDiscovery
    <3> DEFINE c == CHOOSE x \in Ctxs : ctx[x].state = "unused"
    <3>1. c \in Ctxs /\ ctx[c].state = "unused" /\ pc' = [pc EXCEPT ![t] = "io"]
      BY <2>3 DEF Allocate
    <3>2. PICK asked \in BOOLEAN :
            ctx' = [ctx EXCEPT ![c] = [state |-> "init", noDiscovery |-> option \/ asked]]
      BY <2>3 DEF Allocate
    <3>3. (default' = c /\ own'[t] = Default) \/ default' = default
      BY <2>3 DEF Allocate, UsersInv, Shapes
    <3> HIDE DEF c
    <3>4. pc'[t] = "io" /\ \A d \in Ctxs : d # c => ctx'[d] = ctx[d]
      BY <3>1, <3>2 DEF UsersInv, Shapes
    <3>5. ctx'[c].state = "init"
      BY <3>1, <3>2 DEF UsersInv, Shapes
    <3>6. Mine(u)' # c
      BY <1>0, <3>5
    <3>7. Mine(u)' = Mine(u)
      BY <2>1, <3>3, <3>6 DEF Mine
    <3> QED
      BY <1>0, <2>1, <3>4, <3>6, <3>7
  <2>4. ASSUME NEW t \in Threads, InitDone(t) \/ InitFailed(t) \/ ExitDone(t) PROVE ~ctx'[Mine(u)'].noDiscovery
    <3>1. default' \in {default, NoCtx}
      BY <2>4 DEF InitDone, InitFailed, ExitDone
    <3>2. \A d \in Ctxs : ctx'[d].noDiscovery = ctx[d].noDiscovery
      BY <2>4 DEF InitDone, InitFailed, ExitDone, UsersInv, Shapes
    <3>3. Mine(u)' = Mine(u)
      BY <1>0, <2>1, <3>1 DEF Mine, ContextsAssumption
    <3> QED
      BY <1>0, <2>1, <3>2, <3>3
  <2> QED
    BY <1>2, <2>2, <2>3, <2>4
<1>3. ASSUME NEW t \in Threads,
             \/ ReuseDefault(t) \/ Allocate(t) \/ SetDefaultOption(t) \/ ExitShared(t) \/ Exit(t)
             \/ IoInit(t) \/ BackendInit(t) \/ StartMonitor(t) \/ Scan(t) \/ InitDone(t) \/ InitUndone(t)
             \/ InitFailed(t) \/ BackendExit(t) \/ StopSignal(t) \/ StopJoin(t) \/ StopForget(t) \/ ExitDone(t)
      PROVE  /\ polled'[u] = "open" => pc'[u] = "poll"
             /\ pc'[u] = "poll" => ~ctx'[Mine(u)'].noDiscovery
  <2> USE DEF ReuseDefault, Allocate, SetDefaultOption, ExitShared, Exit, IoInit, BackendInit, StartMonitor, Scan,
              InitDone, InitUndone, InitFailed, BackendExit, StopSignal, StopJoin, StopForget, ExitDone
  <2>1. UNCHANGED polled /\ pc[t] # "poll"
    BY <1>3
  <2>2. \/ UNCHANGED <<ctx, default>>
        \/ Allocate(t) \/ InitDone(t) \/ InitFailed(t) \/ ExitDone(t)
    BY <1>3
  <2>3. pc' = pc \/ \E l \in Critical \cup {"idle"} : pc' = [pc EXCEPT ![t] = l]
    <3>1. CASE \/ ReuseDefault(t) \/ Allocate(t) \/ SetDefaultOption(t) \/ ExitShared(t) \/ Exit(t)
               \/ IoInit(t) \/ BackendInit(t) \/ StartMonitor(t)
      BY <3>1
    <3>2. CASE \/ Scan(t) \/ InitDone(t) \/ InitUndone(t) \/ InitFailed(t) \/ BackendExit(t)
               \/ StopSignal(t) \/ StopJoin(t) \/ StopForget(t) \/ ExitDone(t)
      BY <3>2
    <3> QED
      BY <1>3, <3>1, <3>2
  <2>4. own' = own \/ \E o : own' = [own EXCEPT ![t] = o]
    BY <1>3
  <2>5. pc[u] = "poll" => pc'[u] = "poll" /\ own'[u] = own[u]
    BY <2>1, <2>3, <2>4 DEF UsersInv, Shapes
  <2>6. pc'[u] = "poll" => pc[u] = "poll"
    BY <2>3 DEF UsersInv, Shapes
  <2> QED
    BY <1>2, <2>1, <2>2, <2>5, <2>6
<1>4. CASE MonitorEnter \/ MonitorLeave \/ MonitorEnds \/ UNCHANGED vars
  BY <1>0, <1>4 DEF MonitorEnter, MonitorLeave, MonitorEnds, Mine
<1> QED
  BY <1>1, <1>3, <1>4 DEF Next, Begin, Go

\* libusb_get_device_list polls a monitor that is not freed meanwhile, and neither is
\* the one its thread waits on, although linux_udev_stop_event_monitor does not take
\* linux_hotplug_lock to free it: as long as only threads poll whose context looks for
\* devices, and the option of a context in use is not changed.
THEOREM MonitorIsAlive ==
  ContextsAssumption /\ ~SetsLive /\ ~PollsAlways => (Spec => []MonitorNotFreed)
<1> SUFFICES ASSUME ContextsAssumption, ~SetsLive, ~PollsAlways PROVE Spec => []MonitorNotFreed
  OBVIOUS
<1>1. Init => PollInv
  BY DEF Init, PollInv
<1>2. UsersInv /\ UsersInv' /\ PollInv /\ [Next]_vars => PollInv'
  BY PollKept
<1>3. ASSUME UsersInv, ScanInv, PollInv PROVE MonitorNotFreed
  <2>1. Place \in Critical \cup {"idle"}
    BY <1>3, TheHolder
  <2>2. thread = "running" => udev.monitor = "open"
    BY <1>3, <2>1 DEF ScanInv, MonitorInv, Udev, Runs, Critical, Starting, Exiting
  <2>3. ASSUME NEW t \in Threads, polled[t] = "open" PROVE udev.monitor = "open"
    <3>1. /\ pc[t] = "poll" /\ own[t] # NoCtx /\ Mine(t) \in Ctxs /\ ctx[Mine(t)].state = "live"
          /\ ~ctx[Mine(t)].noDiscovery
      BY <1>3, <2>3 DEF PollInv, UsersInv, LockInv, OwnInv, Starting
    <3>2. ~(Mine(t) = Worked /\ Place \in Exiting)
      <4> SUFFICES ASSUME Mine(t) = Worked, Place \in Exiting PROVE FALSE
        OBVIOUS
      <4>1. lock \in Threads /\ pc[lock] \in Exiting /\ Worked = cur[lock] /\ lock # t
        BY <1>3, <3>1, TheHolder DEF Exiting
      <4>2. own[lock] # NoCtx /\ Worked = Mine(lock)
        BY <1>3, <4>1 DEF UsersInv, LockInv, Critical
      <4>3. own[lock] \in Ctxs \cup {Default} /\ own[t] \in Ctxs \cup {Default}
        BY <1>3, <3>1, <4>1, <4>2 DEF UsersInv, Shapes
      <4>4. own[lock] = Default /\ own[t] = Default
        BY <1>3, <4>1, <4>2, <4>3 DEF UsersInv, OwnInv, Mine
      <4>5. Users = {lock}
        BY <1>3, <4>1, <4>4 DEF UsersInv, RefInv
      <4> QED
        BY <4>1, <4>4, <4>5 DEF Users
    <3>3. Mine(t) \in Counted
      BY <3>1, <3>2 DEF Counted, Exiting
    <3>4. initCount > 0
      BY <1>3, <3>3, TheHolder, FS_EmptySet DEF ScanInv, CountInv
    <3> QED
      BY <1>3, <2>1, <3>4 DEF ScanInv, MonitorInv, Udev, Critical, Starting, Exiting
  <2> QED
    BY <2>2, <2>3 DEF MonitorNotFreed
<1> QED
  BY <1>1, <1>2, <1>3, UsersInvHolds, ScanInvHolds, PTL DEF Spec
=============================================================================
