--------------------------- MODULE NodeLockProofs ---------------------------
(***************************************************************************)
(* The lock and the save at shutdown, for any requests and worker threads. *)
(***************************************************************************)
EXTENDS NodeLock, TLAPS

(* Who holds the lock is said by where the threads are.                      *)
HolderKnown ==
    /\ main \in {"bonding", "loop", "stuck"} <=> writer = "main"
    /\ main = "showing" <=> "main" \in readers
    /\ ctrlC = "save" <=> writer = "ctrl_c"
    /\ \A r \in Requests : request[r] = "serve" <=> writer = r \/ r \in readers

(* A save that has begun and is not done is that of the Ctrl+C task, which   *)
(* then holds the lock.                                                      *)
SaveKnown ==
    /\ saving /\ ~saved => ctrlC = "save"
    /\ main = "returned" \/ ctrlC = "sleep" => saved

(* The inductive invariant.                                                  *)
LockInv == LockTypeOK /\ HolderKnown /\ SaveKnown /\ ExitSaved

-----------------------------------------------------------------------------
LEMMA LockInit == Init => LockInv
BY LockAssumption DEF LockAssumption, Init, LockInv, LockTypeOK, HolderKnown, SaveKnown, ExitSaved

LEMMA MainKeeps == LockInv /\ Up /\ (Main \/ HandleMessage) => LockInv'
<1> SUFFICES ASSUME LockInv, Up, Main \/ HandleMessage PROVE LockInv'
  OBVIOUS
<1> USE LockAssumption DEF LockAssumption, Up, LockInv, LockTypeOK, HolderKnown, SaveKnown, ExitSaved
<1>1. CASE StartRpc
  BY <1>1 DEF StartRpc
<1>2. CASE LockForBond
  BY <1>2 DEF LockForBond, WriteFree
<1>3. CASE SpawnCtrlC
  BY <1>3 DEF SpawnCtrlC
<1>4. CASE LockForBanner
  BY <1>4 DEF LockForBanner, ReadFree
<1>5. CASE ShowBanner
  BY <1>5 DEF ShowBanner
<1>6. CASE EnterLoop
  BY <1>6 DEF EnterLoop, WriteFree
<1>7. CASE LeaveLoop
  BY <1>7 DEF LeaveLoop
<1>8. CASE ExitMain
  BY <1>8 DEF ExitMain
<1>9. CASE HandleMessage
  BY <1>9 DEF HandleMessage
<1> QED BY <1>1, <1>2, <1>3, <1>4, <1>5, <1>6, <1>7, <1>8, <1>9 DEF Main

LEMMA RequestKeeps ==
    ASSUME LockInv, NEW r \in Requests, Arrive(r) \/ Request(r) PROVE LockInv'
<1> USE LockAssumption DEF LockAssumption, Up, LockInv, LockTypeOK, HolderKnown, SaveKnown, ExitSaved
<1>1. CASE Arrive(r)
  BY <1>1 DEF Arrive
<1>2. CASE Poll(r)
  BY <1>2 DEF Poll
<1>3. CASE Grant(r)
  BY <1>3 DEF Grant, WriteFree, ReadFree
<1>4. CASE Answer(r)
  BY <1>4 DEF Answer
<1> QED BY <1>1, <1>2, <1>3, <1>4 DEF Request

LEMMA CtrlCKeeps == LockInv /\ (CtrlC \/ Signal) => LockInv'
<1> SUFFICES ASSUME LockInv, CtrlC \/ Signal PROVE LockInv'
  OBVIOUS
<1> USE LockAssumption DEF LockAssumption, Up, LockInv, LockTypeOK, HolderKnown, SaveKnown, ExitSaved
<1>1. CASE Arm
  BY <1>1 DEF Arm
<1>2. CASE Signal
  BY <1>2 DEF Signal
<1>3. CASE SetShutdown
  BY <1>3 DEF SetShutdown
<1>4. CASE LockForSave
  BY <1>4 DEF LockForSave, WriteFree
<1>5. CASE SaveState
  BY <1>5 DEF SaveState
<1>6. CASE ExitCtrlC
  BY <1>6 DEF ExitCtrlC
<1> QED BY <1>1, <1>2, <1>3, <1>4, <1>5, <1>6 DEF CtrlC

LEMMA LockStep == LockInv /\ [Next]_vars => LockInv'
<1> SUFFICES ASSUME LockInv, [Next]_vars PROVE LockInv'
  OBVIOUS
<1>1. CASE UNCHANGED vars
  BY <1>1 DEF vars, LockInv, LockTypeOK, HolderKnown, SaveKnown, ExitSaved
<1>2. CASE Main \/ (Up /\ HandleMessage)
  <2>1. Up
    BY <1>2 DEF Main
  <2> QED BY <1>2, <2>1, MainKeeps
<1> QED BY <1>1, <1>2, RequestKeeps, CtrlCKeeps DEF Next

(* For any requests and workers: the holders of the lock are those that can  *)
(* hold it, and no thread waits that is not one of the program's.            *)
THEOREM LockTypeCorrect == Spec => []LockTypeOK
<1>1. LockInv => LockTypeOK
  BY DEF LockInv
<1> QED BY LockInit, LockStep, <1>1, PTL DEF Spec

(* For any requests and workers: no request and no save is served while the  *)
(* main loop works on the node (run_node's lock, RpcServer::start).          *)
THEOREM LoopAlone == Spec => []LoopIsAlone
<1>1. LockInv => LoopIsAlone
  BY LockAssumption DEF LockAssumption, LockInv, LockTypeOK, HolderKnown, LoopIsAlone, Serving
<1> QED BY LockInit, LockStep, <1>1, PTL DEF Spec

(* For any requests and workers: a process that exits after Ctrl+C has saved,*)
(* whichever of the loop and the Ctrl+C task does it.                        *)
THEOREM ExitHasSaved == Spec => []ExitSaved
<1>1. LockInv => ExitSaved
  BY DEF LockInv
<1> QED BY LockInit, LockStep, <1>1, PTL DEF Spec
=============================================================================
