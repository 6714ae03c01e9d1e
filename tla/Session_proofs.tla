--------------------------- MODULE Session_proofs ---------------------------
(***************************************************************************)
(* Theorems about Session for any set of sessions and any move ways.       *)
(*                                                                         *)
(* The argument: HandleInv ties every live inference thread to the handle  *)
(* DMLFrame holds or has stored, which leaves room for one; ReadyInv adds  *)
(* that ThreadReady is TRUE only when that one is at its last step;        *)
(* ResourceInv adds what a session has acquired by each line of its start. *)
(***************************************************************************)
EXTENDS Session, TLAPS

Released == {"unborn", "resetHandle", "ended"}

(* A live inference thread is the one whose handle is stored, or the one   *)
(* whose handle is about to be (a fault may have ended the process before  *)
(* it was); meanwhile the variable is empty.                               *)
HandleInv ==
  /\ \A s \in Sessions :
       Alive(s) => \/ dml_thread = s
                   \/ ui \in {"store", "gone"} /\ reg = s /\ dml_thread = NoThread
  /\ ui \in {"create", "store"} => dml_thread = NoThread
  /\ ui = "verify" => dml_thread \in {reg, NoThread}

(* From the moment the start panel is drawn to the creation of the thread  *)
(* no thread but one at its last step is left.                             *)
ReadyInv ==
  /\ threadReady => \A s \in Sessions : dml[s] \in Released
  /\ ui \in {"start", "ready", "test", "create"} => \A s \in Sessions : dml[s] \in Released
  /\ ui \in {"test", "create"} => ~threadReady

ResourceInv ==
  /\ \A s \in Sessions :
       dml[s] \in {"event", "initMove", "spawn"} \cup LoopPC => captured
  /\ \A s \in Sessions : dml[s] \in {"initMove", "spawn"} \cup LoopPC => lock_event
  /\ \A s \in Sessions : dml[s] \in LoopPC => lock[s] # "unborn"
  /\ \A s \in Sessions :
       (dml[s] = "spawn" \/ lock[s] # "unborn") /\ fit
         => moveR # "null" /\ moveClose # "null"

-----------------------------------------------------------------------------
(* What a step of each thread leaves alone. *)
LEMMA LockStepFrame ==
  ASSUME NEW s \in Sessions, LockRun(s)
  PROVE  /\ UNCHANGED <<uiVars, signlVars, dml_thread, dml, lock_event, captured>>
         /\ UNCHANGED <<moveR, moveClose, fit>>
         /\ lock[s] # "unborn"
         /\ \E pc \in LockPC \ {"unborn"} : lock' = [lock EXCEPT ![s] = pc]
PROOF
  BY DEF LockRun, LockCheck, LockWait, LockWake, LockDecide, LockMove, LockClose,
         LockForget, LockAt, LockTo, LockPC, eventVars, mwVars, NtClose, MoveClose,
         YjsMoveClose, CustomizeFree, ForgetLg, ghosts

LEMMA FaultFrame ==
  ASSUME NEW s \in Sessions, Fault(s)
  PROVE  /\ UNCHANGED <<reg, signlVars, dml_thread, dml, lock, eventVars, captured>>
         /\ UNCHANGED <<moveR, moveClose, fit>>
         /\ ui # "gone" /\ ui' = "gone"
         /\ UNCHANGED mwVars \/ (NullInit /\ dml[s] = "initMove")
PROOF
  BY DEF Fault, NullInitCall, NullCall, EndOfProcess, NullInit, KeepPointers, DmlAt, LockAt,
         mwVars, ghosts

(* Opening and closing keep the counts of open ports natural numbers. *)
LEMMA PortsType ==
  ASSUME MWTypeOK, NEW d \in Devices, Opened(d) \/ Closed(d) \/ UNCHANGED ports
  PROVE  ports' \in [Devices -> Nat]
PROOF BY DEF MWTypeOK, Opened, Closed

LEMMA LeftType ==
  ASSUME MWTypeOK, NEW d \in Devices, Closed(d) \/ UNCHANGED left
  PROVE  left' \subseteq Devices
PROOF BY DEF MWTypeOK, Closed

LEMMA MoveWayType ==
  ASSUME MWTypeOK,
         \/ \E way \in MoveWays, ok \in BOOLEAN : InitMove(way, ok)
         \/ NtClose \/ MoveClose \/ ForgetLg \/ Abandon \/ NullInit \/ UNCHANGED mwVars
  PROVE  MWTypeOK'
PROOF
  <1>1. CASE \E way \in MoveWays, ok \in BOOLEAN : InitMove(way, ok)
    <2>1. PICK way \in MoveWays, ok \in BOOLEAN : InitMove(way, ok)
      BY <1>1
    <2>2. CASE way = "ghub" /\ ok /\ InitLogitech
      BY <2>2, PortsType DEF MWTypeOK, InitLogitech, PointTo, Ways, Devices
    <2>3. CASE way = "yjs" /\ InitYiJianShu(ok)
      BY <2>3, PortsType DEF MWTypeOK, InitYiJianShu, PointTo, KeepPointers, Ways, Devices
    <2>4. CASE way = "sendinput" /\ ok /\ InitSendInput
      BY <2>4 DEF MWTypeOK, InitSendInput, PointTo, Ways
    <2>5. CASE way = "custom" /\ Customize(ok)
      <3>1. /\ conitor' \in BOOLEAN /\ UNCHANGED <<Lg, yjs, left>>
            /\ Opened("custom") \/ UNCHANGED ports
            /\ moveR' \in {moveR, "custom", "null"} /\ moveClose' \in {moveClose, "custom", "null"}
            /\ fit' \in BOOLEAN
        BY <2>5 DEF MWTypeOK, Customize, KeepPointers, Export
      <3> QED BY <3>1, PortsType DEF MWTypeOK, Ways, Devices
    <2>6. CASE way = "unknown" /\ ok /\ InitUnknown
      BY <2>6 DEF MWTypeOK, InitUnknown, KeepPointers
    <2> QED BY <2>1, <2>2, <2>3, <2>4, <2>5, <2>6 DEF InitMove
  <1>2. CASE NtClose
    BY <1>2, PortsType, LeftType DEF MWTypeOK, NtClose, Devices, Ways
  <1>3. CASE MoveClose
    <2>1. CASE YjsMoveClose
      BY <2>1, PortsType, LeftType DEF MWTypeOK, YjsMoveClose, Devices, Ways
    <2>2. CASE CustomizeFree
      BY <2>2, PortsType, LeftType DEF MWTypeOK, CustomizeFree, Devices, Ways
    <2>3. CASE UNCHANGED mwVars
      BY <2>3 DEF MWTypeOK, mwVars, ghosts
    <2> QED BY <1>3, <2>1, <2>2, <2>3 DEF MoveClose
  <1>4. CASE ForgetLg \/ UNCHANGED mwVars
    BY <1>4 DEF MWTypeOK, ForgetLg, mwVars, ghosts
  <1>5. CASE Abandon \/ NullInit
    BY <1>5 DEF MWTypeOK, Abandon, NullInit, KeepPointers, ghosts
  <1> QED BY <1>1, <1>2, <1>3, <1>4, <1>5

LEMMA InitType == Init => TypeOK
PROOF
  <1> SUFFICES ASSUME Init PROVE TypeOK
    OBVIOUS
  <1>1. MWTypeOK
    BY DEF Init, MWInit, MWTypeOK
  <1>2. "frame" \in UIPC /\ "unborn" \in DmlPC /\ "unborn" \in LockPC
    BY DEF UIPC, DmlPC, LockPC
  <1> QED BY <1>1, <1>2 DEF Init, TypeOK

LEMMA TypeStep == TypeOK /\ [Next]_vars => TypeOK'
PROOF
  <1> SUFFICES ASSUME TypeOK, [Next]_vars PROVE TypeOK'
    OBVIOUS
  <1> USE DEF TypeOK, signlVars, uiVars, eventVars
  <1>1. CASE UIStep
    <2> MWTypeOK' /\ dml' \in [Sessions -> DmlPC]
      BY <1>1, MoveWayType DEF UIStep, FrameTop, Panel, PressCreate, PressExit,
         FrameNotReady, FrameTest, FrameCreate, FrameStore, FrameVerify, LeaveMain,
         KeepSession, DmlPC, InitPC
    <2> QED
      BY <1>1 DEF UIStep, FrameTop, Panel, PressCreate, PressExit, FrameNotReady,
         FrameTest, FrameCreate, FrameStore, FrameVerify, LeaveMain, KeepSession, UIPC
  <1>2. ASSUME NEW s \in Sessions, DmlSetUp(s) PROVE TypeOK'
    <2>1. CASE InitMoveWay(s)
      BY <2>1, MoveWayType DEF InitMoveWay, DmlTo, DmlPC, InitPC, FreePC
    <2>2. CASE InitDML(s) \/ CaptureResource(s) \/ CreateLockEvent(s) \/ CreateLockThread(s)
      BY <2>2, MoveWayType DEF InitDML, CaptureResource, CreateLockEvent, CreateLockThread,
         DmlTo, DmlPC, InitPC, LoopPC, FreePC, LockPC
    <2> QED BY <1>2, <2>1, <2>2 DEF DmlSetUp
  <1>3. ASSUME NEW s \in Sessions, DmlRun(s) PROVE TypeOK'
    BY <1>3, MoveWayType DEF DmlRun, LoopTest, Detect, LockStart, CaptureRelease, DmlRelease,
       ResetStop, ResetReady, ResetHandle, DmlTo, DmlPC, LoopPC, FreePC
  <1>4. ASSUME NEW s \in Sessions, LockRun(s) PROVE TypeOK'
    <2>1. MWTypeOK'
      BY <1>4, MoveWayType DEF LockRun, LockCheck, LockWait, LockWake, LockDecide, LockMove,
         LockClose, LockForget
    <2>2. signalled' \in BOOLEAN
      BY <1>4 DEF LockRun, LockCheck, LockWait, LockWake, LockDecide, LockMove,
         LockClose, LockForget
    <2> QED BY <1>4, <2>1, <2>2, LockStepFrame
  <1>5. ASSUME NEW s \in Sessions, Fault(s) PROVE TypeOK'
    BY <1>5, FaultFrame, MoveWayType DEF UIPC
  <1>6. CASE UNCHANGED vars
    BY <1>6, MoveWayType DEF vars
  <1> QED BY <1>1, <1>2, <1>3, <1>4, <1>5, <1>6 DEF Next

(* Every variable keeps its type, whatever the number of sessions. *)
THEOREM TypeCorrect == Spec => []TypeOK
PROOF BY InitType, TypeStep, PTL DEF Spec

-----------------------------------------------------------------------------
LEMMA HandleStep == TypeOK /\ HandleInv /\ [Next]_vars => HandleInv'
PROOF
  <1> SUFFICES ASSUME TypeOK, HandleInv, [Next]_vars PROVE HandleInv'
    OBVIOUS
  <1> USE NoThreadAssumption DEF HandleInv, TypeOK, Alive, signlVars, uiVars
  <1>1. CASE FrameTop \/ Panel \/ PressCreate \/ PressExit \/ FrameNotReady \/ LeaveMain
    BY <1>1 DEF FrameTop, Panel, PressCreate, PressExit, FrameNotReady, LeaveMain, KeepSession
  <1>2. CASE FrameTest
    BY <1>2 DEF FrameTest, KeepSession
  <1>3. CASE FrameCreate
    BY <1>3 DEF FrameCreate
  <1>4. CASE FrameStore
    BY <1>4 DEF FrameStore, KeepSession
  <1>5. CASE FrameVerify
    BY <1>5 DEF FrameVerify, KeepSession
  <1>6. ASSUME NEW s \in Sessions, DmlSetUp(s) PROVE HandleInv'
    <2>1. UNCHANGED <<ui, reg, dml_thread>> /\ Alive(s)
      BY <1>6 DEF DmlSetUp, InitDML, CaptureResource, CreateLockEvent, InitMoveWay,
         CreateLockThread, DmlAt
    <2>2. \E pc \in DmlPC : dml' = [dml EXCEPT ![s] = pc]
      BY <1>6 DEF DmlSetUp, InitDML, CaptureResource, CreateLockEvent, InitMoveWay,
         CreateLockThread, DmlTo, DmlPC, InitPC, LoopPC, FreePC
    <2> QED BY <2>1, <2>2
  <1>7. ASSUME NEW s \in Sessions, DmlRun(s), ~ResetHandle(s) PROVE HandleInv'
    <2>1. UNCHANGED <<ui, reg, dml_thread>> /\ Alive(s)
      BY <1>7 DEF DmlRun, LoopTest, Detect, LockStart, CaptureRelease, DmlRelease,
         ResetStop, ResetReady, DmlAt
    <2>2. \E pc \in DmlPC : dml' = [dml EXCEPT ![s] = pc]
      BY <1>7 DEF DmlRun, LoopTest, Detect, LockStart, CaptureRelease, DmlRelease,
         ResetStop, ResetReady, DmlTo, DmlPC, LoopPC, FreePC
    <2> QED BY <2>1, <2>2
  <1>8. ASSUME NEW s \in Sessions, ResetHandle(s) PROVE HandleInv'
    BY <1>8 DEF ResetHandle, DmlAt, DmlTo
  <1>9. ASSUME NEW s \in Sessions, LockRun(s) PROVE HandleInv'
    BY <1>9, LockStepFrame
  <1>10. ASSUME NEW s \in Sessions, Fault(s) PROVE HandleInv'
    BY <1>10, FaultFrame
  <1>11. CASE UNCHANGED vars
    BY <1>11 DEF vars
  <1> QED BY <1>1, <1>2, <1>3, <1>4, <1>5, <1>6, <1>7, <1>8, <1>9, <1>10, <1>11
           DEF Next, UIStep

LEMMA HandleHolds == Spec => [](TypeOK /\ HandleInv)
PROOF
  <1>1. Init => HandleInv
    BY NoThreadAssumption DEF Init, HandleInv, Alive
  <1> QED BY <1>1, InitType, TypeStep, HandleStep, PTL DEF Spec

LEMMA OneAlive == TypeOK /\ HandleInv => SlotExclusive
PROOF BY NoThreadAssumption DEF TypeOK, HandleInv, SlotExclusive, Alive

(* Two inference threads never run at the same time, although the handle   *)
(* that is to prevent it is written by both sides without a lock.          *)
THEOREM OneInferenceThread == Spec => []SlotExclusive
PROOF BY HandleHolds, OneAlive, PTL

-----------------------------------------------------------------------------
LEMMA ReadyStep ==
  TypeOK /\ HandleInv /\ ReadyInv /\ [Next]_vars => ReadyInv'
PROOF
  <1> SUFFICES ASSUME TypeOK, HandleInv, ReadyInv, [Next]_vars PROVE ReadyInv'
    OBVIOUS
  <1> USE NoThreadAssumption DEF ReadyInv, TypeOK, Released, signlVars, uiVars
  <1>1. CASE FrameTop \/ PressExit \/ LeaveMain
    <2>1. ui' \in {"panel", "closing", "frame", "gone"} /\ UNCHANGED <<threadReady, dml>>
      BY <1>1 DEF FrameTop, PressExit, LeaveMain, KeepSession
    <2> QED BY <2>1
  <1>2. CASE PressCreate
    BY <1>2 DEF PressCreate, KeepSession
  <1>3. CASE Panel
    <2>1. CASE threadReady
      BY <1>3, <2>1 DEF Panel, KeepSession
    <2>2. CASE ~threadReady
      <3>1. ui' \in {"exit", "frame"}
        BY <1>3, <2>2 DEF Panel
      <3> QED BY <1>3, <3>1 DEF Panel, KeepSession
    <2> QED BY <2>1, <2>2
  <1>4. CASE FrameNotReady
    BY <1>4 DEF FrameNotReady, KeepSession
  <1>5. CASE FrameTest
    BY <1>5 DEF FrameTest, KeepSession
  <1>6. CASE FrameCreate
    BY <1>6 DEF FrameCreate
  <1>7. CASE FrameStore
    BY <1>7 DEF FrameStore, KeepSession
  <1>8. CASE FrameVerify
    <2>1. PICK handle \in {reg, dml_thread} :
            threadReady' = IF handle = NoThread THEN TRUE ELSE threadReady
      BY <1>8 DEF FrameVerify
    <2>2. CASE handle = NoThread
      <3>1. dml_thread = NoThread
        BY <1>8, <2>2 DEF FrameVerify, HandleInv
      <3>2. \A s \in Sessions : dml[s] \in {"unborn", "ended"}
        BY <1>8, <3>1 DEF FrameVerify, HandleInv, Alive
      <3> QED BY <1>8, <3>2 DEF FrameVerify, KeepSession
    <2>3. CASE handle # NoThread
      BY <1>8, <2>1, <2>3 DEF FrameVerify, KeepSession
    <2> QED BY <2>2, <2>3
  <1>9. ASSUME NEW s \in Sessions, DmlSetUp(s) PROVE ReadyInv'
    <2>1. /\ UNCHANGED <<ui, threadReady>>
          /\ dml[s] \notin Released
          /\ \E pc \in DmlPC : dml' = [dml EXCEPT ![s] = pc]
      BY <1>9 DEF DmlSetUp, InitDML, CaptureResource, CreateLockEvent, InitMoveWay,
         CreateLockThread, DmlAt, DmlTo, DmlPC, InitPC, LoopPC, FreePC
    <2> QED BY <2>1
  <1>10. ASSUME NEW s \in Sessions, DmlRun(s), ~ResetReady(s), ~ResetHandle(s)
        PROVE ReadyInv'
    <2>1. /\ UNCHANGED <<ui, threadReady>>
          /\ dml[s] \notin Released
          /\ \E pc \in DmlPC : dml' = [dml EXCEPT ![s] = pc]
      BY <1>10 DEF DmlRun, LoopTest, Detect, LockStart, CaptureRelease, DmlRelease,
         ResetStop, DmlAt, DmlTo, DmlPC, LoopPC, FreePC
    <2> QED BY <2>1
  <1>11. ASSUME NEW s \in Sessions, ResetReady(s) PROVE ReadyInv'
    <2>1. \A t \in Sessions : t # s => dml[t] \in {"unborn", "ended"}
      BY <1>11, OneAlive DEF ResetReady, DmlAt, SlotExclusive, Alive
    <2> QED BY <1>11, <2>1 DEF ResetReady, DmlAt, DmlTo
  <1>12. ASSUME NEW s \in Sessions, ResetHandle(s) PROVE ReadyInv'
    BY <1>12 DEF ResetHandle, DmlAt, DmlTo
  <1>13. ASSUME NEW s \in Sessions, LockRun(s) PROVE ReadyInv'
    BY <1>13, LockStepFrame
  <1>14. ASSUME NEW s \in Sessions, Fault(s) PROVE ReadyInv'
    BY <1>14, FaultFrame
  <1>15. CASE UNCHANGED vars
    BY <1>15 DEF vars
  <1> QED
    BY <1>1, <1>2, <1>3, <1>4, <1>5, <1>6, <1>7, <1>8, <1>9, <1>10, <1>11,
       <1>12, <1>13, <1>14, <1>15
       DEF Next, UIStep

LEMMA ReadyHolds == Spec => []ReadyInv
PROOF
  <1>1. Init => ReadyInv
    BY DEF Init, ReadyInv, Released
  <1> QED BY <1>1, HandleHolds, ReadyStep, PTL DEF Spec

(* Whenever the start panel may be drawn, the last session has released    *)
(* the capture and the model it used.                                      *)
THEOREM ReadyOnlyWhenReleased == Spec => []ReadyMeansReleased
PROOF
  <1>1. ReadyInv => ReadyMeansReleased
    BY DEF ReadyInv, ReadyMeansReleased, Released
  <1> QED BY <1>1, ReadyHolds, PTL

-----------------------------------------------------------------------------
(* Only a failing CreateLockEvent clears the event and only the end of a   *)
(* loop drops the capture; a fit start leaves both pointers set.           *)
LEMMA InitMovePoints ==
  ASSUME NEW way \in Chosen, NEW ok \in BOOLEAN, InitMove(way, ok)
  PROVE  IF ok THEN fit' => moveR' # "null" /\ moveClose' # "null"
               ELSE UNCHANGED <<moveR, moveClose, fit>>
PROOF
  <1>1. CASE way = "custom" /\ ok
    BY <1>1 DEF InitMove, Customize, Export
  <1>2. CASE way # "custom" \/ ~ok
    BY <1>2 DEF InitMove, InitLogitech, InitYiJianShu, InitSendInput, InitUnknown, Customize,
       PointTo, KeepPointers
  <1> QED BY <1>1, <1>2

LEMMA ResourceStep ==
  TypeOK /\ HandleInv /\ ResourceInv /\ [Next]_vars => ResourceInv'
PROOF
  <1> SUFFICES ASSUME TypeOK, HandleInv, ResourceInv, [Next]_vars PROVE ResourceInv'
    OBVIOUS
  <1> USE DEF ResourceInv, TypeOK, LoopPC
  <1>1. CASE UIStep
    <2>1. UNCHANGED <<lock, captured, lock_event, moveR, moveClose, fit>>
      BY <1>1 DEF UIStep, FrameTop, Panel, PressCreate, PressExit, FrameNotReady,
         FrameTest, FrameCreate, FrameStore, FrameVerify, LeaveMain, KeepSession,
         eventVars, mwVars, ghosts
    <2>2. \A s \in Sessions : dml'[s] = dml[s] \/ dml'[s] = "initDML"
      BY <1>1 DEF UIStep, FrameTop, Panel, PressCreate, PressExit, FrameNotReady,
         FrameTest, FrameCreate, FrameStore, FrameVerify, LeaveMain, KeepSession
    <2> QED BY <2>1, <2>2
  <1>2. ASSUME NEW s \in Sessions, DmlSetUp(s) PROVE ResourceInv'
    <2> USE DEF DmlAt, DmlTo, eventVars, mwVars, ghosts
    <2>1. CASE InitDML(s)
      BY <2>1 DEF InitDML
    <2>2. CASE CaptureResource(s)
      BY <2>2 DEF CaptureResource
    <2>3. CASE CreateLockEvent(s)
      <3>1. \A t \in Sessions : t # s => dml[t] \in {"unborn", "ended"}
        BY <2>3, OneAlive DEF CreateLockEvent, SlotExclusive, Alive
      <3> QED BY <2>3, <3>1 DEF CreateLockEvent
    <2>4. CASE InitMoveWay(s)
      <3>1. PICK way \in MoveWays, ok \in BOOLEAN :
              InitMove(way, ok) /\ dml' = [dml EXCEPT ![s] = IF ok THEN "spawn" ELSE "release"]
        BY <2>4 DEF InitMoveWay
      <3>2. IF ok THEN fit' => moveR' # "null" /\ moveClose' # "null"
                  ELSE UNCHANGED <<moveR, moveClose, fit>>
        BY <3>1, MoveWaysAssumption, InitMovePoints
      <3>3. CASE ok
        BY <2>4, <3>1, <3>2, <3>3 DEF InitMoveWay
      <3>4. CASE ~ok
        BY <2>4, <3>1, <3>2, <3>4 DEF InitMoveWay
      <3> QED BY <3>3, <3>4
    <2>5. CASE CreateLockThread(s)
      BY <2>5 DEF CreateLockThread, Abandon, KeepPointers
    <2> QED BY <1>2, <2>1, <2>2, <2>3, <2>4, <2>5 DEF DmlSetUp
  <1>3. ASSUME NEW s \in Sessions, DmlRun(s), ~CaptureRelease(s) PROVE ResourceInv'
    <2>1. UNCHANGED <<lock, captured, lock_event, moveR, moveClose, fit>>
      BY <1>3 DEF DmlRun, LoopTest, Detect, LockStart, DmlRelease, ResetStop, ResetReady,
         ResetHandle, eventVars, mwVars, ghosts
    <2>2. \/ dml[s] \in LoopPC /\ \E pc \in DmlPC : dml' = [dml EXCEPT ![s] = pc]
          \/ \E pc \in FreePC \cup {"ended"} : dml' = [dml EXCEPT ![s] = pc]
      BY <1>3 DEF DmlRun, LoopTest, Detect, LockStart, DmlRelease, ResetStop, ResetReady,
         ResetHandle, DmlAt, DmlTo, DmlPC, FreePC
    <2>3. \A t \in Sessions : dml'[t] = "spawn" => dml[t] = "spawn" \/ dml[t] \in LoopPC
      BY <2>2 DEF FreePC
    <2> QED BY <2>1, <2>2, <2>3 DEF FreePC
  <1>4. ASSUME NEW s \in Sessions, CaptureRelease(s) PROVE ResourceInv'
    <2>1. \A t \in Sessions : t # s => dml[t] \in {"unborn", "ended"}
      BY <1>4, OneAlive DEF CaptureRelease, DmlAt, SlotExclusive, Alive
    <2> QED BY <1>4, <2>1 DEF CaptureRelease, DmlAt, DmlTo, eventVars, mwVars, ghosts
  <1>5. ASSUME NEW s \in Sessions, LockRun(s) PROVE ResourceInv'
    BY <1>5, LockStepFrame
  <1>6. ASSUME NEW s \in Sessions, Fault(s) PROVE ResourceInv'
    BY <1>6, FaultFrame DEF eventVars
  <1>7. CASE UNCHANGED vars
    BY <1>7 DEF vars, eventVars, mwVars, ghosts
  <1> QED BY <1>1, <1>2, <1>3, <1>4, <1>5, <1>6, <1>7 DEF Next

LEMMA ResourceHolds == Spec => []ResourceInv
PROOF
  <1>1. Init => ResourceInv
    BY DEF Init, ResourceInv, LoopPC
  <1> QED BY <1>1, HandleHolds, ResourceStep, PTL DEF Spec

(* The detection loop never grabs from a released duplication and never    *)
(* signals an event that is not there.                                     *)
THEOREM LoopHasItsResources == Spec => []RunningHasItsResources
PROOF
  <1>1. ResourceInv => RunningHasItsResources
    BY DEF ResourceInv, RunningHasItsResources
  <1> QED BY <1>1, ResourceHolds, PTL

(* A lock thread, even one left over from an earlier session, calls        *)
(* through a null MoveR or MoveClose only after a start that InitMove let  *)
(* pass: of a way its switch does not know or of a DLL without             *)
(* CustomizeMove or CustomizeFree (move-way.cpp:160-176, 182-209).         *)
THEOREM PointersSet == Spec => []LockAfterInit
PROOF
  <1>1. ResourceInv => LockAfterInit
    BY DEF ResourceInv, LockAfterInit, LockAlive
  <1> QED BY <1>1, ResourceHolds, PTL

-----------------------------------------------------------------------------
(* A stop is not taken back before the loop it was meant for has seen it.  *)
THEOREM StopNotTakenBack == Spec => StopIsKept
PROOF
  <1>1. ASSUME TypeOK, HandleInv, [Next]_vars, NEW s \in Sessions, dml[s] \in LoopPC,
               dml'[s] \in LoopPC, ~threadStopSignl
        PROVE  ~threadStopSignl'
    <2> USE DEF signlVars, uiVars
    <2>1. CASE UIStep
      BY <1>1, <2>1 DEF UIStep, FrameTop, Panel, PressCreate, PressExit, FrameNotReady,
         FrameTest, FrameCreate, FrameStore, FrameVerify, LeaveMain
    <2>2. ASSUME NEW t \in Sessions, DmlSetUp(t) PROVE ~threadStopSignl'
      BY <1>1, <2>2 DEF DmlSetUp, InitDML, CaptureResource, CreateLockEvent, InitMoveWay,
         CreateLockThread
    <2>3. ASSUME NEW t \in Sessions, DmlRun(t), ~ResetStop(t) PROVE ~threadStopSignl'
      BY <1>1, <2>3 DEF DmlRun, LoopTest, Detect, LockStart, CaptureRelease, DmlRelease,
         ResetReady, ResetHandle
    <2>4. ASSUME NEW t \in Sessions, ResetStop(t) PROVE FALSE
      <3>1. Alive(s) /\ Alive(t) /\ dml[t] = "resetStop"
        BY <1>1, <2>4 DEF ResetStop, DmlAt, Alive, LoopPC
      <3>2. s = t
        BY <1>1, <3>1, OneAlive DEF SlotExclusive
      <3> QED BY <1>1, <3>1, <3>2 DEF LoopPC
    <2>5. ASSUME NEW t \in Sessions, LockRun(t) PROVE ~threadStopSignl'
      BY <1>1, <2>5, LockStepFrame
    <2>6. ASSUME NEW t \in Sessions, Fault(t) PROVE ~threadStopSignl'
      BY <1>1, <2>6, FaultFrame
    <2>7. CASE UNCHANGED vars
      BY <1>1, <2>7 DEF vars
    <2> QED BY <1>1, <2>1, <2>2, <2>3, <2>4, <2>5, <2>6, <2>7 DEF Next
  <1>2. TypeOK /\ HandleInv /\ [Next]_vars =>
          [\A s \in Sessions : dml[s] \in LoopPC /\ dml'[s] \in LoopPC /\ ~threadStopSignl
                                 => ~threadStopSignl']_vars
    BY <1>1
  <1> QED BY <1>2, HandleHolds, PTL DEF Spec, StopIsKept

-----------------------------------------------------------------------------
(* The session threads implement the abstract slot: a successful           *)
(* CreateThread is Acquire, the reset of the handle is Release, every other*)
(* step is a stutter.                                                      *)
LEMMA SlotStep == TypeOK /\ HandleInv /\ [Next]_vars => [Slot!SlotNext]_<<Holders, Used>>
PROOF
  <1> SUFFICES ASSUME TypeOK, HandleInv, [Next]_vars
               PROVE  Slot!SlotNext \/ UNCHANGED <<Holders, Used>>
    OBVIOUS
  <1> USE DEF Holders, Used, Alive
  <1>1. CASE FrameCreate
    <2>1. CASE UNCHANGED dml
      BY <2>1
    <2>2. ASSUME NEW s \in Sessions, dml[s] = "unborn", dml' = [dml EXCEPT ![s] = "initDML"]
          PROVE  Slot!Acquire(s)
      <3>1. Holders = {}
        BY <1>1, NoThreadAssumption DEF FrameCreate, HandleInv
      <3>2. Holders' = {s} /\ Used' = Used \cup {s} /\ s \notin Used
        BY <2>2, <3>1 DEF TypeOK
      <3> QED BY <3>1, <3>2 DEF Slot!Acquire
    <2> QED BY <1>1, <2>1, <2>2 DEF FrameCreate, Slot!SlotNext
  <1>2. CASE UIStep /\ ~FrameCreate
    <2>1. UNCHANGED dml
      BY <1>2 DEF UIStep, FrameTop, Panel, PressCreate, PressExit, FrameNotReady,
         FrameTest, FrameStore, FrameVerify, LeaveMain, KeepSession
    <2> QED BY <2>1
  <1>3. ASSUME NEW s \in Sessions, DmlSetUp(s) PROVE UNCHANGED <<Holders, Used>>
    <2>1. Alive(s) /\ \E pc \in DmlPC \ {"unborn", "ended"} : dml' = [dml EXCEPT ![s] = pc]
      BY <1>3 DEF DmlSetUp, InitDML, CaptureResource, CreateLockEvent, InitMoveWay,
         CreateLockThread, DmlAt, DmlTo, DmlPC, InitPC, LoopPC, FreePC
    <2> QED BY <2>1 DEF TypeOK
  <1>4. ASSUME NEW s \in Sessions, DmlRun(s), ~ResetHandle(s) PROVE UNCHANGED <<Holders, Used>>
    <2>1. Alive(s) /\ \E pc \in DmlPC \ {"unborn", "ended"} : dml' = [dml EXCEPT ![s] = pc]
      BY <1>4 DEF DmlRun, LoopTest, Detect, LockStart, CaptureRelease, DmlRelease,
         ResetStop, ResetReady, DmlAt, DmlTo, DmlPC, LoopPC, FreePC
    <2> QED BY <2>1 DEF TypeOK
  <1>5. ASSUME NEW s \in Sessions, ResetHandle(s) PROVE Slot!Release(s)
    <2>1. s \in Holders /\ Holders' = Holders \ {s} /\ Used' = Used
      BY <1>5 DEF ResetHandle, DmlAt, DmlTo, TypeOK
    <2> QED BY <2>1 DEF Slot!Release
  <1>6. ASSUME NEW s \in Sessions, LockRun(s) PROVE UNCHANGED <<Holders, Used>>
    <2>1. UNCHANGED dml
      BY <1>6, LockStepFrame
    <2> QED BY <2>1
  <1>7. ASSUME NEW s \in Sessions, Fault(s) PROVE UNCHANGED <<Holders, Used>>
    <2>1. UNCHANGED dml
      BY <1>7, FaultFrame
    <2> QED BY <2>1
  <1>8. CASE UNCHANGED vars
    <2>1. UNCHANGED dml
      BY <1>8 DEF vars
    <2> QED BY <2>1
  <1> QED BY <1>1, <1>2, <1>3, <1>4, <1>5, <1>6, <1>7, <1>8 DEF Next, Slot!SlotNext

(* Whatever the interleaving, what the buttons, DMLFrame and DMLThread do  *)
(* together is what the one-slot specification allows.                     *)
THEOREM SessionImplementsSlot == Spec => ImplementsSlot
PROOF
  <1>1. Init => Slot!SlotInit
    BY DEF Init, Slot!SlotInit, Holders, Used, Alive
  <1> QED
    BY <1>1, SlotStep, HandleHolds, PTL DEF Spec, ImplementsSlot, Slot!SlotSpec, Slot!svars

-----------------------------------------------------------------------------
(* A session that has the device for itself uses it as MoveClient says.    *)
(* Its lock thread does not exist before the line that creates it, so that *)
(* the line of InitMove is the client's idle phase.                        *)
LockAfterSetUp ==
  \A s \in Sessions : dml[s] \in {"unborn"} \cup InitPC => lock[s] = "unborn"

LEMMA SetUpStep == TypeOK /\ LockAfterSetUp /\ [Next]_vars => LockAfterSetUp'
PROOF
  <1> SUFFICES ASSUME TypeOK, LockAfterSetUp, [Next]_vars PROVE LockAfterSetUp'
    OBVIOUS
  <1> USE DEF LockAfterSetUp, InitPC, TypeOK
  <1>1. CASE UIStep
    <2>1. lock' = lock /\ \A s \in Sessions : dml'[s] = dml[s] \/ dml[s] = "unborn"
      BY <1>1 DEF UIStep, FrameTop, Panel, PressCreate, PressExit, FrameNotReady,
         FrameTest, FrameCreate, FrameStore, FrameVerify, LeaveMain, KeepSession
    <2> QED BY <2>1
  <1>2. ASSUME NEW s \in Sessions, DmlSetUp(s), ~CreateLockThread(s) PROVE LockAfterSetUp'
    <2>1. /\ lock' = lock /\ dml[s] \in InitPC
          /\ \A t \in Sessions \ {s} : dml'[t] = dml[t]
      BY <1>2 DEF DmlSetUp, InitDML, CaptureResource, CreateLockEvent, InitMoveWay, DmlAt, DmlTo
    <2> QED BY <2>1
  <1>3. ASSUME NEW s \in Sessions, CreateLockThread(s) PROVE LockAfterSetUp'
    <2>1. /\ dml'[s] \in {"loop", "release"}
          /\ \A t \in Sessions \ {s} : dml'[t] = dml[t] /\ lock'[t] = lock[t]
      BY <1>3 DEF CreateLockThread, DmlTo
    <2> QED BY <2>1
  <1>4. ASSUME NEW s \in Sessions, DmlRun(s) PROVE LockAfterSetUp'
    <2>1. lock' = lock /\ \E pc \in LoopPC \cup FreePC \cup {"ended"} : dml' = [dml EXCEPT ![s] = pc]
      BY <1>4 DEF DmlRun, LoopTest, Detect, LockStart, CaptureRelease, DmlRelease,
         ResetStop, ResetReady, ResetHandle, DmlTo, LoopPC, FreePC
    <2> QED BY <2>1 DEF LoopPC, FreePC
  <1>5. ASSUME NEW s \in Sessions, LockRun(s) PROVE LockAfterSetUp'
    BY <1>5, LockStepFrame
  <1>6. ASSUME NEW s \in Sessions, Fault(s) PROVE LockAfterSetUp'
    BY <1>6, FaultFrame
  <1>7. CASE UNCHANGED vars
    BY <1>7 DEF vars
  <1> QED BY <1>1, <1>2, <1>3, <1>4, <1>5, <1>6, <1>7 DEF Next

LEMMA SetUpHolds == Spec => [](TypeOK /\ LockAfterSetUp)
PROOF
  <1>1. Init => LockAfterSetUp
    BY DEF Init, LockAfterSetUp
  <1> QED BY <1>1, InitType, TypeStep, SetUpStep, PTL DEF Spec

(* Only a lock thread whose inference thread has ended shares the device   *)
(* with a later session (lock-module.cpp:264).                             *)
THEOREM OnlyLeftOversShareTheDevice == Spec => []OnlyLeftOversShare
PROOF
  <1>1. TypeOK /\ HandleInv /\ LockAfterSetUp => OnlyLeftOversShare
    <2> SUFFICES ASSUME TypeOK, HandleInv, LockAfterSetUp,
                        NEW s \in Sessions, NEW t \in Sessions,
                        UsesDevice(s), UsesDevice(t), s # t
                 PROVE  LeftOver(s) \/ LeftOver(t)
      BY DEF OnlyLeftOversShare
    <2>1. ~Alive(s) \/ ~Alive(t)
      BY OneAlive DEF SlotExclusive
    <2>2. \A u \in Sessions : UsesDevice(u) /\ ~Alive(u) => LeftOver(u)
      BY DEF UsesDevice, Alive, LockAlive, LeftOver, LockAfterSetUp
    <2> QED BY <2>1, <2>2
  <1> QED BY <1>1, HandleHolds, SetUpHolds, PTL

LEMMA CaptureStep ==
  TypeOK /\ HandleInv /\ LockAfterSetUp /\ CaptureGivenBack /\ [Next]_vars => CaptureGivenBack'
PROOF
  <1> SUFFICES ASSUME TypeOK, HandleInv, LockAfterSetUp, CaptureGivenBack, [Next]_vars
               PROVE  CaptureGivenBack'
    OBVIOUS
  <1> USE DEF CaptureGivenBack, TypeOK, FreePC
  <1>1. CASE UIStep
    <2>1. /\ UNCHANGED <<lock, captured>>
          /\ \A s \in Sessions : dml'[s] = dml[s] \/ dml'[s] = "initDML"
      BY <1>1 DEF UIStep, FrameTop, Panel, PressCreate, PressExit, FrameNotReady,
         FrameTest, FrameCreate, FrameStore, FrameVerify, LeaveMain, KeepSession
    <2> QED BY <2>1
  <1>2. ASSUME NEW s \in Sessions, CaptureResource(s) PROVE CaptureGivenBack'
    <2>1. /\ dml[s] = "capture" /\ lock[s] = "unborn" /\ lock' = lock
          /\ \A t \in Sessions \ {s} : dml'[t] = dml[t]
      BY <1>2 DEF CaptureResource, DmlAt, DmlTo, LockAfterSetUp, InitPC
    <2>2. \A t \in Sessions \ {s} : dml[t] \in {"unborn", "ended"}
      BY <2>1, OneAlive DEF SlotExclusive, Alive
    <2> QED BY <2>1, <2>2
  <1>3. ASSUME NEW s \in Sessions, DmlSetUp(s), ~CaptureResource(s), ~CreateLockThread(s)
        PROVE  CaptureGivenBack'
    <2>1. /\ lock[s] = "unborn" /\ UNCHANGED <<lock, captured>>
          /\ \A t \in Sessions \ {s} : dml'[t] = dml[t]
      BY <1>3 DEF DmlSetUp, InitDML, CreateLockEvent, InitMoveWay, DmlAt, DmlTo,
         LockAfterSetUp, InitPC
    <2> QED BY <2>1
  <1>4. ASSUME NEW s \in Sessions, CreateLockThread(s) PROVE CaptureGivenBack'
    <2>1. /\ captured' = captured /\ (dml'[s] = "loop" \/ lock'[s] = "unborn")
          /\ \A t \in Sessions \ {s} : dml'[t] = dml[t] /\ lock'[t] = lock[t]
      BY <1>4 DEF CreateLockThread, DmlAt, DmlTo, LockAfterSetUp, InitPC
    <2> QED BY <2>1
  <1>5. ASSUME NEW s \in Sessions, DmlRun(s) PROVE CaptureGivenBack'
    <2>1. CASE CaptureRelease(s)
      BY <2>1 DEF CaptureRelease
    <2>2. CASE ~CaptureRelease(s)
      <3>1. /\ UNCHANGED <<lock, captured>>
            /\ \A t \in Sessions \ {s} : dml'[t] = dml[t]
            /\ \/ dml'[s] \in {"loop", "detect", "signal", "capRelease", "ended"}
               \/ dml[s] \in FreePC \ {"capRelease"}
        BY <1>5, <2>2 DEF DmlRun, LoopTest, Detect, LockStart, DmlRelease, ResetStop,
           ResetReady, ResetHandle, DmlAt, DmlTo
      <3> QED BY <3>1
    <2> QED BY <2>1, <2>2
  <1>6. ASSUME NEW s \in Sessions, LockRun(s) PROVE CaptureGivenBack'
    BY <1>6, LockStepFrame
  <1>7. ASSUME NEW s \in Sessions, Fault(s) PROVE CaptureGivenBack'
    BY <1>7, FaultFrame
  <1>8. CASE UNCHANGED vars
    BY <1>8 DEF vars
  <1> QED BY <1>1, <1>2, <1>3, <1>4, <1>5, <1>6, <1>7, <1>8 DEF Next

(* Whatever starts, fails or ends meanwhile, a session that has run its    *)
(* loop holds no desktop duplication while it frees the rest.              *)
THEOREM RunsGiveTheCaptureBack == Spec => []CaptureGivenBack
PROOF
  <1>1. Init => CaptureGivenBack
    BY DEF Init, CaptureGivenBack
  <1> QED BY <1>1, HandleHolds, SetUpHolds, CaptureStep, PTL DEF Spec

LEMMA PhaseKept ==
  ASSUME UNCHANGED <<lock, mwVars>>, ui = "gone" <=> ui' = "gone",
         \A s \in Sessions : dml[s] = "spawn" <=> dml'[s] = "spawn"
  PROVE  UNCHANGED Client!cvars
PROOF BY DEF Phase, LockAlive, Client!cvars, Client!mwVars, Client!ghosts, mwVars, ghosts

LEMMA PhaseOfUser ==
  ASSUME NEW s \in Sessions, UsesDevice(s), OneUser, ui # "gone"
  PROVE  Phase = IF lock[s] = "forget" THEN "forget"
                 ELSE IF LockAlive(s) \/ dml[s] = "spawn" THEN "ready" ELSE "idle"
PROOF BY DEF OneUser, UsesDevice, LockAlive, Phase

(* MoveClient drives the same singleton. *)
LEMMA SameCalls ==
  /\ \A way \in Chosen, ok \in BOOLEAN : InitMove(way, ok) => Client!InitMove(way, ok)
  /\ NtClose => Client!NtClose
  /\ MoveClose => Client!MoveClose
  /\ ForgetLg => Client!ForgetLg
  /\ Abandon => Client!Abandon
  /\ NullInit => Client!NullInit
PROOF
  <1>1. \A way \in Chosen, ok \in BOOLEAN : InitMove(way, ok) => Client!InitMove(way, ok)
    BY DEF InitMove, InitLogitech, InitYiJianShu, InitSendInput, InitUnknown, Customize, Export,
       Opened, PointTo, KeepPointers, Client!InitMove, Client!InitLogitech, Client!InitYiJianShu,
       Client!InitSendInput, Client!InitUnknown, Client!Customize, Client!Export, Client!Opened,
       Client!PointTo, Client!KeepPointers
  <1>2. NtClose => Client!NtClose
    BY DEF NtClose, CloseIsTwoSteps, Closed, Client!NtClose, Client!CloseIsTwoSteps, Client!Closed
  <1>3. MoveClose => Client!MoveClose
    BY DEF MoveClose, CloseIsTwoSteps, YjsMoveClose, CustomizeFree, Closed, mwVars, ghosts,
       Client!MoveClose, Client!CloseIsTwoSteps, Client!YjsMoveClose, Client!CustomizeFree,
       Client!Closed, Client!mwVars, Client!ghosts
  <1>4. ForgetLg => Client!ForgetLg
    BY DEF ForgetLg, ghosts, Client!ForgetLg, Client!ghosts
  <1>5. (Abandon => Client!Abandon) /\ (NullInit => Client!NullInit)
    BY DEF Abandon, NullInit, KeepPointers, ghosts, Devices, Ways, Client!Abandon, Client!NullInit,
       Client!KeepPointers, Client!ghosts, Client!Devices, Client!Ways
  <1> QED BY <1>1, <1>2, <1>3, <1>4, <1>5

(* The end of the process, in whatever phase, is the client's. *)
LEMMA GoneStep ==
  ASSUME ui # "gone", ui' = "gone",
         UNCHANGED mwVars \/ (Phase = "idle" /\ NullInit)
  PROVE  Client!CNext
PROOF
  <1>1. Phase # "gone" /\ Phase' = "gone"
    BY DEF Phase
  <1> QED BY <1>1, SameCalls DEF Client!CNext, Client!EndProcess, Client!mwVars, Client!ghosts,
             mwVars, ghosts

LEMMA ClientStep ==
  ASSUME TypeOK, LockAfterSetUp, OneUser, [Next]_vars
  PROVE  Client!CNext \/ UNCHANGED Client!cvars
PROOF
  <1> USE DEF TypeOK
  <1>1. CASE UIStep
    <2>1. UNCHANGED <<lock, mwVars>> /\ \A s \in Sessions : dml[s] = "spawn" <=> dml'[s] = "spawn"
      BY <1>1 DEF UIStep, FrameTop, Panel, PressCreate, PressExit, FrameNotReady,
         FrameTest, FrameCreate, FrameStore, FrameVerify, LeaveMain, KeepSession
    <2>2. ui # "gone"
      BY <1>1 DEF UIStep, FrameTop, Panel, PressCreate, PressExit, FrameNotReady,
         FrameTest, FrameCreate, FrameStore, FrameVerify, LeaveMain
    <2>3. CASE ui' = "gone"
      BY <2>1, <2>2, <2>3, GoneStep
    <2> QED BY <2>1, <2>2, <2>3, PhaseKept
  <1>2. ASSUME NEW s \in Sessions, DmlSetUp(s), ~InitMoveWay(s), ~CreateLockThread(s)
        PROVE  UNCHANGED Client!cvars
    <2>1. /\ UNCHANGED <<ui, lock, mwVars>>
          /\ \A t \in Sessions : dml[t] = "spawn" <=> dml'[t] = "spawn"
      BY <1>2 DEF DmlSetUp, InitDML, CaptureResource, CreateLockEvent, DmlAt, DmlTo, uiVars
    <2> QED BY <2>1, PhaseKept
  <1>3. ASSUME NEW s \in Sessions, InitMoveWay(s) PROVE Client!CNext
    <2>1. PICK way \in MoveWays, ok \in BOOLEAN :
            InitMove(way, ok) /\ dml' = [dml EXCEPT ![s] = IF ok THEN "spawn" ELSE "release"]
      BY <1>3 DEF InitMoveWay, DmlTo
    <2>2. dml[s] = "initMove" /\ lock[s] = "unborn" /\ lock' = lock /\ ui # "gone" /\ ui' = ui
      BY <1>3 DEF InitMoveWay, DmlAt, LockAfterSetUp, InitPC, uiVars
    <2>3. Phase = "idle"
      BY <2>2, PhaseOfUser DEF UsesDevice, LockAlive
    <2>4. \A t \in Sessions : ~LockAlive(t) /\ lock[t] # "forget" /\ (t # s => dml[t] # "spawn")
      BY <2>2 DEF OneUser, UsesDevice, LockAlive
    <2>5. Phase' = IF ok THEN "ready" ELSE "idle"
      BY <2>1, <2>2, <2>4 DEF Phase, LockAlive
    <2>6. way \in Chosen /\ Client!InitMove(way, ok)
      BY <2>1, SameCalls, MoveWaysAssumption
    <2>7. Client!Start(way, ok)
      BY <2>3, <2>5, <2>6 DEF Client!Start
    <2> QED BY <2>6, <2>7 DEF Client!CNext, Client!Chosen, Client!Ways, Chosen, Ways
  <1>4. ASSUME NEW s \in Sessions, CreateLockThread(s)
        PROVE  Client!CNext \/ UNCHANGED Client!cvars
    <2>1. dml[s] = "spawn" /\ lock[s] = "unborn" /\ ui # "gone" /\ ui' = ui
      BY <1>4 DEF CreateLockThread, DmlAt, LockAfterSetUp, InitPC, uiVars
    <2>2. Phase = "ready"
      BY <2>1, PhaseOfUser DEF UsesDevice, LockAlive
    <2>3. \A t \in Sessions : ~LockAlive(t) /\ lock[t] # "forget" /\ (t # s => dml[t] # "spawn")
      BY <2>1 DEF OneUser, UsesDevice, LockAlive
    <2>4. CASE dml' = [dml EXCEPT ![s] = "loop"] /\ lock' = [lock EXCEPT ![s] = "check"]
               /\ UNCHANGED mwVars
      <3>1. Phase' = "ready"
        BY <2>1, <2>3, <2>4 DEF Phase, LockAlive
      <3> QED BY <2>2, <2>4, <3>1 DEF Client!cvars, Client!mwVars, Client!ghosts, mwVars, ghosts
    <2>5. CASE dml' = [dml EXCEPT ![s] = "release"] /\ UNCHANGED lock /\ Abandon
      <3>1. Phase' = "idle"
        BY <2>1, <2>3, <2>5 DEF Phase, LockAlive
      <3> QED BY <2>2, <2>5, <3>1, SameCalls DEF Client!CNext, Client!StartFails
    <2> QED BY <1>4, <2>4, <2>5 DEF CreateLockThread, DmlTo
  <1>5. ASSUME NEW s \in Sessions, DmlRun(s) PROVE UNCHANGED Client!cvars
    <2>1. /\ UNCHANGED <<ui, lock, mwVars>>
          /\ \A t \in Sessions : dml[t] = "spawn" <=> dml'[t] = "spawn"
      BY <1>5 DEF DmlRun, LoopTest, Detect, LockStart, CaptureRelease, DmlRelease,
         ResetStop, ResetReady, ResetHandle, DmlAt, DmlTo, uiVars
    <2> QED BY <2>1, PhaseKept
  <1>6. ASSUME NEW s \in Sessions, LockRun(s) PROVE Client!CNext \/ UNCHANGED Client!cvars
    <2>0. /\ LockAlive(s) /\ ui # "gone"
          /\ dml' = dml /\ ui' = ui
          /\ \A t \in Sessions \ {s} : lock'[t] = lock[t]
      BY <1>6, LockStepFrame DEF LockRun, LockCheck, LockWait, LockWake, LockDecide, LockMove,
         LockClose, LockForget, LockAt, LockAlive, uiVars
    <2>1. \A t \in Sessions \ {s} : ~LockAlive(t) /\ dml[t] # "spawn"
      BY <2>0 DEF OneUser, UsesDevice
    <2>2. dml[s] # "spawn"
      BY <2>0 DEF LockAfterSetUp, InitPC, LockAlive
    <2>3. Phase = IF lock[s] = "forget" THEN "forget" ELSE "ready"
      BY <2>0, PhaseOfUser DEF UsesDevice
    <2>4. Phase' = IF lock'[s] = "forget" THEN "forget"
                   ELSE IF lock'[s] \notin {"unborn", "ended"} THEN "ready" ELSE "idle"
      BY <2>0, <2>1, <2>2 DEF Phase, LockAlive
    <2>5. CASE LockClose(s)
      <3>1. lock[s] = "close"
        BY <2>5 DEF LockClose, LockAt
      <3>2. CASE NtClose /\ LockTo(s, "forget")
        <4>1. lock'[s] = "forget"
          BY <3>2 DEF LockTo
        <4> QED BY <2>3, <2>4, <3>1, <3>2, <4>1, SameCalls DEF Client!StopNtClose, Client!CNext
      <3>3. CASE MoveClose /\ LockTo(s, "ended")
        <4>1. lock'[s] = "ended"
          BY <3>3 DEF LockTo
        <4> QED BY <2>3, <2>4, <3>1, <3>3, <4>1, SameCalls DEF Client!StopClose, Client!CNext
      <3> QED BY <2>5, <3>2, <3>3 DEF LockClose
    <2>6. CASE LockForget(s)
      <3>1. lock[s] = "forget" /\ lock'[s] = "ended"
        BY <2>6 DEF LockForget, LockAt, LockTo
      <3> QED BY <2>3, <2>4, <2>6, <3>1, SameCalls DEF LockForget, Client!StopForget, Client!CNext
    <2>7. CASE ~LockClose(s) /\ ~LockForget(s)
      <3>1. /\ lock[s] # "forget" /\ lock'[s] \notin {"forget", "unborn", "ended"}
            /\ UNCHANGED mwVars
        BY <1>6, <2>7 DEF LockRun, LockCheck, LockWait, LockWake, LockDecide, LockMove, LockAt, LockTo
      <3> QED BY <2>3, <2>4, <3>1 DEF Client!cvars, Client!mwVars, Client!ghosts, mwVars, ghosts
    <2> QED BY <2>5, <2>6, <2>7
  <1>7. ASSUME NEW s \in Sessions, Fault(s) PROVE Client!CNext
    <2>1. ui # "gone" /\ ui' = "gone" /\ (UNCHANGED mwVars \/ (NullInit /\ dml[s] = "initMove"))
      BY <1>7, FaultFrame
    <2>2. CASE UNCHANGED mwVars
      BY <2>1, <2>2, GoneStep
    <2>3. CASE NullInit /\ dml[s] = "initMove"
      <3>1. Phase = "idle"
        BY <2>1, <2>3, PhaseOfUser DEF UsesDevice, LockAlive, LockAfterSetUp, InitPC
      <3> QED BY <2>1, <2>3, <3>1, GoneStep
    <2> QED BY <2>1, <2>2, <2>3
  <1>8. CASE UNCHANGED vars
    <2>1. UNCHANGED <<ui, lock, dml, mwVars>>
      BY <1>8 DEF vars, uiVars
    <2> QED BY <2>1, PhaseKept
  <1> QED BY <1>1, <1>2, <1>3, <1>4, <1>5, <1>6, <1>7, <1>8 DEF Next

(* For any number of sessions and any ways: a step taken while one session *)
(* has the device for itself is a step of the client, the failure to       *)
(* create its lock thread and the calls through null included              *)
(* (lock-module.cpp:264, 281-286).                                         *)
THEOREM OrderlyStepsAreClientSteps == Spec => OrderlyUse
PROOF
  <1>1. TypeOK /\ LockAfterSetUp /\ [Next]_vars =>
          [OneUser => [Client!CNext]_(Client!cvars)]_vars
    BY ClientStep
  <1> QED BY <1>1, SetUpHolds, PTL DEF Spec, OrderlyUse

(* Hence sessions of which each has the device for itself are a client of  *)
(* MoveWay, ...                                                            *)
THEOREM OrderlySessionsAreAClient == Spec /\ []OneUser => Client!CSpec
PROOF
  <1>1. Init => Client!CInit
    BY DEF Init, MWInit, Phase, LockAlive, Client!CInit, Client!MWInit, Client!Devices,
       Client!Ways, Devices, Ways
  <1>2. TypeOK /\ LockAfterSetUp /\ OneUser /\ [Next]_vars => [Client!CNext]_(Client!cvars)
    BY ClientStep
  <1> QED BY <1>1, <1>2, SetUpHolds, PTL DEF Spec, Client!CSpec

MC == INSTANCE MoveClient_proofs WITH phase <- Phase

(* ... and what is proved of a client holds of them: whenever no session   *)
(* uses the device, nothing is open but what a start without a lock thread *)
(* has left, and a session closes the device it holds, but for what a DLL  *)
(* does not export (move-way.cpp:160-176, lock-module.cpp:281-286).        *)
THEOREM OrderlySessionsLeaveNothingOpen ==
  Spec /\ []OneUser => [](Client!NothingHeldWhenIdle /\ Client!HeldDeviceIsTheOneClosed)
PROOF
  <1>1. Client!CSpec => MC!CSpec
    <2>1. Client!CInit => MC!CInit
      BY DEF Client!CInit, Client!MWInit, Client!Devices, Client!Ways,
         MC!CInit, MC!MWInit, MC!Devices, MC!Ways
    <2>2. [Client!CNext]_(Client!cvars) => [MC!CNext]_(MC!cvars)
      <3>1. Client!CNext => MC!CNext
        <4>1. ASSUME NEW way \in Client!Chosen, NEW ok \in BOOLEAN, Client!Start(way, ok)
              PROVE  MC!Start(way, ok)
          BY <4>1 DEF Client!Start, Client!InitMove, Client!InitLogitech, Client!InitYiJianShu,
             Client!InitSendInput, Client!InitUnknown, Client!Customize, Client!Export,
             Client!Opened, Client!PointTo, Client!KeepPointers,
             MC!Start, MC!InitMove, MC!InitLogitech, MC!InitYiJianShu, MC!InitSendInput,
             MC!InitUnknown, MC!Customize, MC!Export, MC!Opened, MC!PointTo, MC!KeepPointers
        <4>2. Client!Chosen = MC!Chosen
          BY DEF Client!Chosen, Client!Ways, MC!Chosen, MC!Ways
        <4>3. (Client!StopNtClose => MC!StopNtClose) /\ (Client!StopForget => MC!StopForget)
          BY DEF Client!StopNtClose, Client!NtClose, Client!CloseIsTwoSteps, Client!Closed,
             Client!StopForget, Client!ForgetLg, Client!ghosts,
             MC!StopNtClose, MC!NtClose, MC!CloseIsTwoSteps, MC!Closed, MC!StopForget,
             MC!ForgetLg, MC!ghosts
        <4>4. Client!StopClose => MC!StopClose
          BY DEF Client!StopClose, Client!MoveClose, Client!CloseIsTwoSteps, Client!YjsMoveClose,
             Client!CustomizeFree, Client!Closed, Client!mwVars, Client!ghosts,
             MC!StopClose, MC!MoveClose, MC!CloseIsTwoSteps, MC!YjsMoveClose,
             MC!CustomizeFree, MC!Closed, MC!mwVars, MC!ghosts
        <4>5. (Client!StartFails => MC!StartFails) /\ (Client!EndProcess => MC!EndProcess)
          BY DEF Client!StartFails, Client!Abandon, Client!EndProcess, Client!NullInit,
             Client!KeepPointers, Client!mwVars, Client!ghosts, Client!Devices, Client!Ways,
             MC!StartFails, MC!Abandon, MC!EndProcess, MC!NullInit, MC!KeepPointers, MC!mwVars,
             MC!ghosts, MC!Devices, MC!Ways
        <4> QED BY <4>1, <4>2, <4>3, <4>4, <4>5 DEF Client!CNext, MC!CNext
      <3> QED BY <3>1 DEF Client!cvars, Client!mwVars, Client!ghosts, MC!cvars, MC!mwVars, MC!ghosts
    <2> QED BY <2>1, <2>2, PTL DEF Client!CSpec, MC!CSpec
  <1>2. MC!NothingHeldWhenIdle /\ MC!HeldDeviceIsTheOneClosed
          => Client!NothingHeldWhenIdle /\ Client!HeldDeviceIsTheOneClosed
    BY DEF Client!NothingHeldWhenIdle, Client!HeldDeviceIsTheOneClosed, Client!Devices,
       Client!Ways, MC!NothingHeldWhenIdle, MC!HeldDeviceIsTheOneClosed, MC!Devices, MC!Ways
  <1> QED
    BY <1>1, <1>2, OrderlySessionsAreAClient, MC!NothingStaysOpen, MC!OpenDeviceIsClosed, PTL
=============================================================================
