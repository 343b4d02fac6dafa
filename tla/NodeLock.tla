------------------------------ MODULE NodeLock ------------------------------
(***************************************************************************)
(* Who holds the one lock around Node, from the start of run_node to the   *)
(* end of the process: the main thread, the RPC requests and the Ctrl+C    *)
(* task.  The lock (parking_lot's RwLock) blocks the thread that asks for  *)
(* it, so an RPC request or the Ctrl+C task keeps a worker thread of the   *)
(* tokio runtime while it waits, and a thread that asks for the lock it    *)
(* holds waits forever.                                                    *)
(***************************************************************************)
EXTENDS Naturals, FiniteSets

CONSTANTS
    Requests,     \* RPC requests that may come
    Writing,      \* those that take the lock for writing (block, transaction)
    Workers       \* worker threads of the tokio runtime

ASSUME LockAssumption ==
    /\ IsFiniteSet(Requests) /\ Writing \subseteq Requests
    /\ {"main", "ctrl_c", "none"} \cap Requests = {}
    /\ Workers \in Nat \ {0}

VARIABLES
    main,      \* where the main thread is in run_node
    request,   \* where each RPC request is
    ctrlC,     \* where the Ctrl+C task is
    writer,    \* who holds the lock for writing, or "none"
    readers,   \* who holds it for reading
    shutdown,  \* SHUTDOWN
    saving,    \* SAVING_STATE
    saved,     \* has the shutdown saved the mempool and flushed?
    process    \* "up", "exited", or "killed" by a signal nobody handled

vars == <<main, request, ctrlC, writer, readers, shutdown, saving, saved, process>>

Up == process = "up"
Waiting == {r \in Requests : request[r] = "wait"}
Serving == {r \in Requests : request[r] = "serve"}
Busy == Cardinality(Waiting \cup Serving)
            + (IF ctrlC \in {"wait", "save"} THEN 1 ELSE 0)
WorkerFree == Busy < Workers

WriteFree == writer = "none" /\ readers = {}
ReadFree == writer = "none"

-----------------------------------------------------------------------------
(* The main thread: node and RPC server first, then a bond under the write   *)
(* lock, the Ctrl+C task, a banner under the read lock, the main loop under  *)
(* the write lock until it ends.                                             *)
StartRpc ==
    /\ main = "start" /\ main' = "bond"
    /\ UNCHANGED <<request, ctrlC, writer, readers, shutdown, saving, saved, process>>
LockForBond ==
    /\ main = "bond" /\ WriteFree
    /\ writer' = "main" /\ main' = "bonding"
    /\ UNCHANGED <<request, ctrlC, readers, shutdown, saving, saved, process>>

(* Variant: the guard of the bond lives to the end of run_node. *)
SpawnCtrlCKeepingLock ==
    /\ main = "bonding"
    /\ ctrlC' = "spawned" /\ main' = "banner"
    /\ UNCHANGED <<request, writer, readers, shutdown, saving, saved, process>>
SpawnCtrlC ==
    /\ main = "bonding"
    /\ writer' = "none"
    /\ ctrlC' = "spawned" /\ main' = "banner"
    /\ UNCHANGED <<request, readers, shutdown, saving, saved, process>>
LockForBanner ==
    /\ main = "banner" /\ ReadFree
    /\ readers' = readers \cup {"main"} /\ main' = "showing"
    /\ UNCHANGED <<request, ctrlC, writer, shutdown, saving, saved, process>>
ShowBanner ==
    /\ main = "showing"
    /\ readers' = readers \ {"main"} /\ main' = "enter"
    /\ UNCHANGED <<request, ctrlC, writer, shutdown, saving, saved, process>>

(* Variant: the loop starts without waiting for the lock. *)
EnterLoopUnlocked ==
    /\ main = "enter"
    /\ writer' = "main" /\ main' = "loop"
    /\ UNCHANGED <<request, ctrlC, readers, shutdown, saving, saved, process>>
EnterLoop ==
    /\ main = "enter" /\ WriteFree
    /\ writer' = "main" /\ main' = "loop"
    /\ UNCHANGED <<request, ctrlC, readers, shutdown, saving, saved, process>>

(* GetBlocks, Blocks, Share, Block and Transaction are handled inside the    *)
(* loop, and so is the request for blocks that sync sends: each asks for the *)
(* lock the loop holds.                                                      *)
HandleMessage ==
    /\ main = "loop"
    /\ main' = IF WriteFree THEN "loop" ELSE "stuck"
    /\ UNCHANGED <<request, ctrlC, writer, readers, shutdown, saving, saved, process>>

(* Variant: the save at the end of the loop asks for the lock again. *)
LeaveLoopRelocking ==
    /\ main = "loop" /\ shutdown /\ WriteFree
    /\ saving' = TRUE /\ saved' = TRUE
    /\ writer' = "none" /\ main' = "returned"
    /\ UNCHANGED <<request, ctrlC, readers, shutdown, process>>

(* The loop tests SHUTDOWN once per iteration, saves unless a save is under  *)
(* way, and returns; the lock is released.                                   *)
LeaveLoop ==
    /\ main = "loop" /\ shutdown
    /\ saving' = TRUE
    /\ saved' = (saved \/ ~saving)
    /\ writer' = "none" /\ main' = "returned"
    /\ UNCHANGED <<request, ctrlC, readers, shutdown, process>>

(* main returns: the runtime waits for what its workers are running.         *)
ExitMain ==
    /\ main = "returned" /\ Up /\ Busy = 0
    /\ process' = "exited"
    /\ UNCHANGED <<main, request, ctrlC, writer, readers, shutdown, saving, saved>>

-----------------------------------------------------------------------------
(* An RPC request: it comes, a worker runs its handler up to the lock, the   *)
(* lock is granted, the answer is sent and the lock released.                *)
Arrive(r) ==
    /\ Up /\ main # "start" /\ request[r] = "none"
    /\ request' = [request EXCEPT ![r] = "ready"]
    /\ UNCHANGED <<main, ctrlC, writer, readers, shutdown, saving, saved, process>>
Poll(r) ==
    /\ Up /\ main # "returned"
    /\ request[r] = "ready" /\ WorkerFree
    /\ request' = [request EXCEPT ![r] = "wait"]
    /\ UNCHANGED <<main, ctrlC, writer, readers, shutdown, saving, saved, process>>
(* Variant: the requests that change the node take the lock for reading. *)
GrantShared(r) ==
    /\ Up /\ request[r] = "wait" /\ ReadFree
    /\ readers' = readers \cup {r}
    /\ request' = [request EXCEPT ![r] = "serve"]
    /\ UNCHANGED <<main, ctrlC, writer, shutdown, saving, saved, process>>
Grant(r) ==
    /\ Up /\ request[r] = "wait"
    /\ \/ r \in Writing /\ WriteFree /\ writer' = r /\ UNCHANGED readers
       \/ r \notin Writing /\ ReadFree /\ readers' = readers \cup {r} /\ UNCHANGED writer
    /\ request' = [request EXCEPT ![r] = "serve"]
    /\ UNCHANGED <<main, ctrlC, shutdown, saving, saved, process>>
Answer(r) ==
    /\ Up /\ request[r] = "serve"
    /\ request' = [request EXCEPT ![r] = "answered"]
    /\ writer' = IF writer = r THEN "none" ELSE writer
    /\ readers' = readers \ {r}
    /\ UNCHANGED <<main, ctrlC, shutdown, saving, saved, process>>

-----------------------------------------------------------------------------
(* The Ctrl+C task.  Its first poll registers the handler; until then the    *)
(* signal ends the process.  Once signalled it needs a worker, sets SHUTDOWN,*)
(* waits for the lock, saves, sleeps and exits.                              *)
Arm ==
    /\ Up /\ main # "returned"
    /\ ctrlC = "spawned" /\ WorkerFree
    /\ ctrlC' = "armed"
    /\ UNCHANGED <<main, request, writer, readers, shutdown, saving, saved, process>>
Signal ==
    /\ Up
    /\ \/ ctrlC \in {"none", "spawned"} /\ process' = "killed" /\ UNCHANGED ctrlC
       \/ ctrlC = "armed" /\ ctrlC' = "signalled" /\ UNCHANGED process
    /\ UNCHANGED <<main, request, writer, readers, shutdown, saving, saved>>
SetShutdown ==
    /\ Up /\ main # "returned"
    /\ ctrlC = "signalled" /\ WorkerFree
    /\ shutdown' = TRUE /\ ctrlC' = "wait"
    /\ UNCHANGED <<main, request, writer, readers, saving, saved, process>>
LockForSave ==
    /\ Up /\ ctrlC = "wait" /\ WriteFree
    /\ writer' = "ctrl_c" /\ saving' = TRUE /\ ctrlC' = "save"
    /\ UNCHANGED <<main, request, readers, shutdown, saved, process>>
(* Variant: it does not save when a save is under way, its own included. *)
SaveStateOnce ==
    /\ Up /\ ctrlC = "save"
    /\ saved' = (saved \/ ~saving) /\ writer' = "none" /\ ctrlC' = "sleep"
    /\ UNCHANGED <<main, request, readers, shutdown, saving, process>>
SaveState ==
    /\ Up /\ ctrlC = "save"
    /\ saved' = TRUE /\ writer' = "none" /\ ctrlC' = "sleep"
    /\ UNCHANGED <<main, request, readers, shutdown, saving, process>>
ExitCtrlC ==
    /\ Up /\ main # "returned"
    /\ ctrlC = "sleep" /\ WorkerFree
    /\ process' = "exited"
    /\ UNCHANGED <<main, request, ctrlC, writer, readers, shutdown, saving, saved>>

-----------------------------------------------------------------------------
Init ==
    /\ main = "start" /\ ctrlC = "none"
    /\ request = [r \in Requests |-> "none"]
    /\ writer = "none" /\ readers = {}
    /\ shutdown = FALSE /\ saving = FALSE /\ saved = FALSE
    /\ process = "up"

Main ==
    /\ Up
    /\ \/ StartRpc \/ LockForBond \/ SpawnCtrlC \/ LockForBanner \/ ShowBanner
       \/ EnterLoop \/ LeaveLoop \/ ExitMain
Request(r) == Poll(r) \/ Grant(r) \/ Answer(r)
CtrlC == Arm \/ SetShutdown \/ LockForSave \/ SaveState \/ ExitCtrlC

Next ==
    \/ Main
    \/ Up /\ HandleMessage
    \/ \E r \in Requests : Arrive(r) \/ Request(r)
    \/ CtrlC
    \/ Signal

(* Threads and tasks that can run do: the operating system and tokio         *)
(* schedule them, and the lock goes to a waiting thread when it is free.     *)
(* Requests, messages and signals need never come.                           *)
Fairness ==
    /\ WF_vars(Main)
    /\ \A r \in Requests : WF_vars(Request(r))
    /\ WF_vars(CtrlC)
Spec == Init /\ [][Next]_vars /\ Fairness

-----------------------------------------------------------------------------
(* Properties.                                                               *)

(* Every variable holds a value of its kind, and the lock is held for        *)
(* reading or for writing, never both.                                       *)
LockTypeOK ==
    /\ main \in {"start", "bond", "bonding", "banner", "showing", "enter", "loop",
                 "stuck", "returned"}
    /\ request \in [Requests -> {"none", "ready", "wait", "serve", "answered"}]
    /\ ctrlC \in {"none", "spawned", "armed", "signalled", "wait", "save", "sleep"}
    /\ writer \in Requests \cup {"none", "main", "ctrl_c"}
    /\ readers \subseteq (Requests \ Writing) \cup {"main"}
    /\ writer # "none" => readers = {}
    /\ shutdown \in BOOLEAN /\ saving \in BOOLEAN /\ saved \in BOOLEAN
    /\ process \in {"up", "exited", "killed"}

(* No request or save looks at the node while the loop works on it, so none  *)
(* sees a block half applied; the same lock keeps every request waiting as   *)
(* long as the loop runs.                                                    *)
LoopIsAlone == main = "loop" => Serving = {} /\ ctrlC # "save"

(* A process that exits after Ctrl+C has saved: whichever of the loop and    *)
(* the Ctrl+C task comes first does it, and none relies on the other having  *)
(* done it when it only began.                                               *)
ExitSaved == process = "exited" => saved

(* The start does not get stuck on requests that come before the loop. *)
LoopIsReached == <>(main \in {"loop", "returned"} \/ ~Up)

(* Ctrl+C, once the handler is registered, ends the process, but for two     *)
(* states from which it never ends: the main thread waits for its own lock,  *)
(* or every worker thread of the runtime waits for the loop's lock with a    *)
(* request, so that none is left to run the Ctrl+C task and set SHUTDOWN.    *)
Starved ==
    main = "loop" /\ ctrlC = "signalled" /\ Cardinality(Waiting) = Workers
ShutdownUnlessStuck == ctrlC = "signalled" ~> ~Up \/ main = "stuck" \/ Starved

(* Ctrl+C, once the handler is registered, ends the process: the shutdown is *)
(* graceful.                                                                 *)
ShutdownCompletes == ctrlC = "signalled" ~> ~Up
=============================================================================
