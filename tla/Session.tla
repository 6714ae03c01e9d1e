------------------------------ MODULE Session ------------------------------
(***************************************************************************)
(* The threads of the program and the signals between them.                *)
(*                                                                         *)
(* The UI thread runs the frame loop; its Create button starts an inference*)
(* thread (DMLFrame, DMLThread); that one starts a lock thread (InitLock,  *)
(* LockThread).  They talk through unlocked globals: ThreadReady,          *)
(* ThreadStopSignl, ImGuiWinStop, the handle dml_thread, LockMode's event  *)
(* and the MoveWay singleton.  One session is one inference thread with    *)
(* the lock thread it starts; Sessions bounds how often CreateThread       *)
(* succeeds.  A program counter is named for the line the thread is about  *)
(* to execute.                                                             *)
(***************************************************************************)
EXTENDS MoveWay

CONSTANTS Sessions, NoThread, MoveWays

ASSUME NoThreadAssumption == NoThread \notin Sessions
ASSUME MoveWaysAssumption == MoveWays \subseteq Chosen

VARIABLES
  ui,               (* program counter of the UI thread                     *)
  reg,              (* what CreateThread has returned to DMLFrame           *)
  threadReady,      (* Signl::ThreadReady                                   *)
  threadStopSignl,  (* Signl::ThreadStopSignl, FALSE asks the threads to end*)
  imGuiWinStop,     (* Signl::ImGuiWinStop, FALSE once the window is closed *)
  dml_thread,       (* the file-static handle of dml-module.cpp             *)
  dml,              (* program counter of the inference thread of a session *)
  lock,             (* program counter of the lock thread of a session      *)
  lock_event,       (* LockMode::lock_event is not NULL                     *)
  signalled,        (* the state of the auto-reset event behind it          *)
  captured          (* SF_DXGI holds the desktop duplication                *)

signlVars == <<threadReady, threadStopSignl, imGuiWinStop>>
uiVars    == <<ui, reg>>
eventVars == <<lock_event, signalled>>
vars == <<uiVars, signlVars, dml_thread, dml, lock, eventVars, captured, mwVars>>

UIPC   == {"frame", "panel", "start", "exit", "ready", "test", "create",
           "store", "verify", "closing", "gone"}
InitPC == {"initDML", "capture", "event", "initMove", "spawn"}
LoopPC == {"loop", "detect", "signal"}
FreePC == {"capRelease", "release", "resetStop", "resetReady", "resetHandle"}
DmlPC  == {"unborn", "ended"} \cup InitPC \cup LoopPC \cup FreePC
LockPC == {"unborn", "check", "wait", "blocked", "work", "move", "close",
           "forget", "ended"}

Alive(s)     == dml[s] \notin {"unborn", "ended"}
LockAlive(s) == lock[s] \notin {"unborn", "ended"}

(* The condition of both while loops. *)
KeepRunning == threadStopSignl /\ imGuiWinStop

Init ==
  /\ MWInit
  /\ ui = "frame"
  /\ reg = NoThread
  /\ threadReady = TRUE
  /\ threadStopSignl = TRUE
  /\ imGuiWinStop = TRUE
  /\ dml_thread = NoThread
  /\ dml = [s \in Sessions |-> "unborn"]
  /\ lock = [s \in Sessions |-> "unborn"]
  /\ lock_event = FALSE
  /\ signalled = FALSE
  /\ captured = FALSE

-----------------------------------------------------------------------------
(* The UI thread.  It writes its own variables and three of the signals.   *)
KeepSession == UNCHANGED <<dml, lock, eventVars, captured, mwVars>>

(* start_main's while, and ImGui::Begin, which writes FALSE on the click of*)
(* the window's cross; the frame is drawn to its end all the same.         *)
FrameTop ==
  /\ ui = "frame"
  /\ IF imGuiWinStop
       THEN ui' = "panel" /\ imGuiWinStop' \in BOOLEAN
       ELSE ui' = "closing" /\ UNCHANGED imGuiWinStop
  /\ UNCHANGED <<reg, threadReady, threadStopSignl, dml_thread>>
  /\ KeepSession

(* InferenceUI, drawn only while its menu page is open, looks at           *)
(* ThreadReady once and draws one of two panels.                           *)
Panel ==
  /\ ui = "panel"
  /\ ui' \in {IF threadReady THEN "start" ELSE "exit", "frame"}
  /\ UNCHANGED <<reg, signlVars, dml_thread>>
  /\ KeepSession

PressCreate ==
  /\ ui = "start"
  /\ ui' \in {"ready", "frame"}
  /\ UNCHANGED <<reg, signlVars, dml_thread>>
  /\ KeepSession

PressExit ==
  /\ ui = "exit"
  /\ threadStopSignl' \in {threadStopSignl, FALSE}
  /\ ui' = "frame"
  /\ UNCHANGED <<reg, threadReady, imGuiWinStop, dml_thread>>
  /\ KeepSession

(* DMLFrame, one action per access to what it shares. *)
FrameNotReady ==
  /\ ui = "ready"
  /\ threadReady' = FALSE
  /\ ui' = "test"
  /\ UNCHANGED <<reg, threadStopSignl, imGuiWinStop, dml_thread>>
  /\ KeepSession

(* Faulty: a thread is created whether or not there is one. *)
FrameTest_NoTest ==
  /\ ui = "test"
  /\ ui' = "create"
  /\ UNCHANGED <<reg, signlVars, dml_thread>>
  /\ KeepSession

FrameTest ==
  /\ ui = "test"
  /\ ui' = IF dml_thread = NoThread THEN "create" ELSE "frame"
  /\ UNCHANGED <<reg, signlVars, dml_thread>>
  /\ KeepSession

(* CreateThread: the new thread may run before its handle is stored. *)
FrameCreate ==
  /\ ui = "create"
  /\ \/ \E s \in Sessions :
          /\ dml[s] = "unborn"
          /\ dml' = [dml EXCEPT ![s] = "initDML"]
          /\ reg' = s
     \/ reg' = NoThread /\ UNCHANGED dml
  /\ ui' = "store"
  /\ UNCHANGED <<signlVars, dml_thread, lock, eventVars, captured, mwVars>>

(* Faulty: the handle stays in a local variable. *)
FrameStore_LocalOnly ==
  /\ ui = "store"
  /\ ui' = "verify"
  /\ UNCHANGED <<reg, signlVars, dml_thread>>
  /\ KeepSession

FrameStore ==
  /\ ui = "store"
  /\ dml_thread' = reg
  /\ ui' = "verify"
  /\ UNCHANGED <<reg, signlVars>>
  /\ KeepSession

(* The second test of dml_thread races with the thread that resets it: the *)
(* build may use the value it has just stored or load the variable again.  *)
FrameVerify ==
  /\ ui = "verify"
  /\ \E handle \in {reg, dml_thread} :
       threadReady' = IF handle = NoThread THEN TRUE ELSE threadReady
  /\ reg' = NoThread
  /\ ui' = "frame"
  /\ UNCHANGED <<threadStopSignl, imGuiWinStop, dml_thread>>
  /\ KeepSession

(* CloseD3D, then WinMain returns: the process ends, whatever its other    *)
(* threads are doing.                                                      *)
LeaveMain ==
  /\ ui = "closing"
  /\ ui' = "gone"
  /\ UNCHANGED <<reg, signlVars, dml_thread>>
  /\ KeepSession

UIStep ==
  \/ FrameTop \/ Panel \/ PressCreate \/ PressExit
  \/ FrameNotReady \/ FrameTest \/ FrameCreate \/ FrameStore \/ FrameVerify
  \/ LeaveMain

-----------------------------------------------------------------------------
(* The inference thread of session s, DMLThread. *)
DmlAt(s, pc) == ui # "gone" /\ dml[s] = pc
DmlTo(s, pc) == dml' = [dml EXCEPT ![s] = pc]

InitDML(s) ==
  /\ DmlAt(s, "initDML")
  /\ \E pc \in {"capture", "release"} : DmlTo(s, pc)
  /\ UNCHANGED <<uiVars, signlVars, dml_thread, lock, eventVars, captured, mwVars>>

(* Faulty: the error code of CaptureResource is not looked at. *)
CaptureResource_Unchecked(s) ==
  /\ DmlAt(s, "capture")
  /\ DmlTo(s, "event")
  /\ captured' \in {captured, TRUE}
  /\ UNCHANGED <<uiVars, signlVars, dml_thread, lock, eventVars, mwVars>>

CaptureResource(s) ==
  /\ DmlAt(s, "capture")
  /\ \/ DmlTo(s, "event") /\ captured' = TRUE
     \/ DmlTo(s, "release") /\ UNCHANGED captured
  /\ UNCHANGED <<uiVars, signlVars, dml_thread, lock, eventVars, mwVars>>

(* The event is named for the process and never closed, so a later call    *)
(* opens the same object and leaves its state; a failed one loses the      *)
(* handle but not the object.                                              *)
CreateLockEvent(s) ==
  /\ DmlAt(s, "event")
  /\ \/ DmlTo(s, "initMove") /\ lock_event' = TRUE
     \/ DmlTo(s, "release") /\ lock_event' = FALSE
  /\ UNCHANGED <<uiVars, signlVars, dml_thread, lock, signalled, captured, mwVars>>

(* Faulty: the answer of InitMove is not looked at. *)
InitMoveWay_Unchecked(s) ==
  /\ DmlAt(s, "initMove")
  /\ \E way \in MoveWays, ok \in BOOLEAN : InitMove(way, ok)
  /\ DmlTo(s, "spawn")
  /\ UNCHANGED <<uiVars, signlVars, dml_thread, lock, eventVars, captured>>

InitMoveWay(s) ==
  /\ DmlAt(s, "initMove")
  /\ \E way \in MoveWays, ok \in BOOLEAN :
       /\ InitMove(way, ok)
       /\ DmlTo(s, IF ok THEN "spawn" ELSE "release")
  /\ UNCHANGED <<uiVars, signlVars, dml_thread, lock, eventVars, captured>>

(* CreateThread may fail when InitMove has succeeded. *)
CreateLockThread(s) ==
  /\ DmlAt(s, "spawn")
  /\ \/ /\ DmlTo(s, "loop")
        /\ lock' = [lock EXCEPT ![s] = "check"]
        /\ UNCHANGED mwVars
     \/ /\ DmlTo(s, "release")
        /\ Abandon
        /\ UNCHANGED lock
  /\ UNCHANGED <<uiVars, signlVars, dml_thread, eventVars, captured>>

(* Faulty: the loop looks at the window only. *)
LoopTest_WindowOnly(s) ==
  /\ DmlAt(s, "loop")
  /\ DmlTo(s, IF imGuiWinStop THEN "detect" ELSE "capRelease")
  /\ UNCHANGED <<uiVars, signlVars, dml_thread, lock, eventVars, captured, mwVars>>

LoopTest(s) ==
  /\ DmlAt(s, "loop")
  /\ DmlTo(s, IF KeepRunning THEN "detect" ELSE "capRelease")
  /\ UNCHANGED <<uiVars, signlVars, dml_thread, lock, eventVars, captured, mwVars>>

(* BitmapToMat to Postprocess; what they compute is HandOff's matter. *)
Detect(s) ==
  /\ DmlAt(s, "detect")
  /\ DmlTo(s, "signal")
  /\ UNCHANGED <<uiVars, signlVars, dml_thread, lock, eventVars, captured, mwVars>>

LockStart(s) ==
  /\ DmlAt(s, "signal")
  /\ DmlTo(s, "loop")
  /\ signalled' = (lock_event \/ signalled)
  /\ UNCHANGED <<uiVars, signlVars, dml_thread, lock, lock_event, captured, mwVars>>

(* Faulty: the loop leaves through the label Free. *)
CaptureRelease_Skipped(s) ==
  /\ DmlAt(s, "capRelease")
  /\ DmlTo(s, "release")
  /\ UNCHANGED <<uiVars, signlVars, dml_thread, lock, eventVars, captured, mwVars>>

CaptureRelease(s) ==
  /\ DmlAt(s, "capRelease")
  /\ DmlTo(s, "release")
  /\ captured' = FALSE
  /\ UNCHANGED <<uiVars, signlVars, dml_thread, lock, eventVars, mwVars>>

(* Faulty: the end is announced before it is reached. *)
DmlRelease_Announces(s) ==
  /\ DmlAt(s, "release")
  /\ DmlTo(s, "resetStop")
  /\ threadReady' = TRUE
  /\ UNCHANGED <<uiVars, threadStopSignl, imGuiWinStop, dml_thread, lock, eventVars,
                 captured, mwVars>>

DmlRelease(s) ==
  /\ DmlAt(s, "release")
  /\ DmlTo(s, "resetStop")
  /\ UNCHANGED <<uiVars, signlVars, dml_thread, lock, eventVars, captured, mwVars>>

ResetStop(s) ==
  /\ DmlAt(s, "resetStop")
  /\ DmlTo(s, "resetReady")
  /\ threadStopSignl' = TRUE
  /\ UNCHANGED <<uiVars, threadReady, imGuiWinStop, dml_thread, lock, eventVars,
                 captured, mwVars>>

ResetReady(s) ==
  /\ DmlAt(s, "resetReady")
  /\ DmlTo(s, "resetHandle")
  /\ threadReady' = TRUE
  /\ UNCHANGED <<uiVars, threadStopSignl, imGuiWinStop, dml_thread, lock, eventVars,
                 captured, mwVars>>

ResetHandle(s) ==
  /\ DmlAt(s, "resetHandle")
  /\ DmlTo(s, "ended")
  /\ dml_thread' = NoThread
  /\ UNCHANGED <<uiVars, signlVars, lock, eventVars, captured, mwVars>>

DmlSetUp(s) ==
  \/ InitDML(s) \/ CaptureResource(s) \/ CreateLockEvent(s) \/ InitMoveWay(s)
  \/ CreateLockThread(s)

DmlRun(s) ==
  \/ LoopTest(s) \/ Detect(s) \/ LockStart(s)
  \/ CaptureRelease(s) \/ DmlRelease(s)
  \/ ResetStop(s) \/ ResetReady(s) \/ ResetHandle(s)

-----------------------------------------------------------------------------
(* The lock thread of session s, LockThread. *)
LockAt(s, pc) == ui # "gone" /\ lock[s] = pc
LockTo(s, pc) == lock' = [lock EXCEPT ![s] = pc]

LockCheck(s) ==
  /\ LockAt(s, "check")
  /\ LockTo(s, IF KeepRunning THEN "wait" ELSE "close")
  /\ UNCHANGED <<uiVars, signlVars, dml_thread, dml, eventVars, captured, mwVars>>

(* WaitForSingleObject without a timeout; on a NULL handle it fails at     *)
(* once and the loop goes on as if it had been woken.                      *)
LockWait(s) ==
  /\ LockAt(s, "wait")
  /\ LockTo(s, IF lock_event THEN "blocked" ELSE "work")
  /\ UNCHANGED <<uiVars, signlVars, dml_thread, dml, eventVars, captured, mwVars>>

LockWake(s) ==
  /\ LockAt(s, "blocked")
  /\ signalled
  /\ signalled' = FALSE
  /\ LockTo(s, "work")
  /\ UNCHANGED <<uiVars, signlVars, dml_thread, dml, lock_event, captured, mwVars>>

(* From the wake to the decision: no target, a continue, or a MoveR. *)
LockDecide(s) ==
  /\ LockAt(s, "work")
  /\ \E pc \in {"check", "move"} : LockTo(s, pc)
  /\ UNCHANGED <<uiVars, signlVars, dml_thread, dml, eventVars, captured, mwVars>>

LockMove(s) ==
  /\ LockAt(s, "move")
  /\ moveR # "null"
  /\ LockTo(s, "check")
  /\ UNCHANGED <<uiVars, signlVars, dml_thread, dml, eventVars, captured, mwVars>>

LockClose(s) ==
  /\ LockAt(s, "close")
  /\ \/ NtClose /\ LockTo(s, "forget")
     \/ MoveClose /\ LockTo(s, "ended")
  /\ UNCHANGED <<uiVars, signlVars, dml_thread, dml, eventVars, captured>>

LockForget(s) ==
  /\ LockAt(s, "forget")
  /\ ForgetLg
  /\ LockTo(s, "ended")
  /\ UNCHANGED <<uiVars, signlVars, dml_thread, dml, eventVars, captured>>

LockRun(s) ==
  \/ LockCheck(s) \/ LockWait(s) \/ LockWake(s) \/ LockDecide(s) \/ LockMove(s)
  \/ LockClose(s) \/ LockForget(s)

-----------------------------------------------------------------------------
(* A call through a null pointer ends the process: of the Init a DLL may   *)
(* not have, by the inference thread, of MoveR or MoveClose by a lock      *)
(* thread.                                                                 *)
EndOfProcess ==
  /\ ui' = "gone"
  /\ UNCHANGED <<reg, signlVars, dml_thread, dml, lock, eventVars, captured>>

NullInitCall(s) ==
  /\ DmlAt(s, "initMove")
  /\ "custom" \in MoveWays
  /\ NullInit
  /\ EndOfProcess

NullCall(s) ==
  /\ \/ LockAt(s, "move") /\ moveR = "null"
     \/ LockAt(s, "close") /\ moveClose = "null"
  /\ UNCHANGED mwVars
  /\ EndOfProcess

Fault(s) == NullInitCall(s) \/ NullCall(s)

Next ==
  \/ UIStep
  \/ \E s \in Sessions : DmlSetUp(s) \/ DmlRun(s) \/ LockRun(s) \/ Fault(s)

Spec == Init /\ [][Next]_vars

(* The scheduler runs every ready thread.  Set-up is left out: it loads a  *)
(* model of any size and may sit in a message box until somebody answers.  *)
InferenceFairSpec == Spec /\ \A s \in Sessions : WF_vars(DmlRun(s))

FairSpec ==
  /\ InferenceFairSpec
  /\ WF_vars(UIStep)
  /\ \A s \in Sessions : WF_vars(LockRun(s) \/ NullCall(s))

-----------------------------------------------------------------------------
TypeOK ==
  /\ MWTypeOK
  /\ ui \in UIPC
  /\ reg \in Sessions \cup {NoThread}
  /\ threadReady \in BOOLEAN
  /\ threadStopSignl \in BOOLEAN
  /\ imGuiWinStop \in BOOLEAN
  /\ dml_thread \in Sessions \cup {NoThread}
  /\ dml \in [Sessions -> DmlPC]
  /\ lock \in [Sessions -> LockPC]
  /\ lock_event \in BOOLEAN
  /\ signalled \in BOOLEAN
  /\ captured \in BOOLEAN

(* At most one inference thread exists at any time, although the handle    *)
(* that guards CreateThread is stored after the thread has started and is  *)
(* reset by the thread itself before it is over (dml-module.cpp:317,325).  *)
SlotExclusive ==
  \A s, t \in Sessions : Alive(s) /\ Alive(t) => s = t

(* While the UI offers the start panel no inference thread is initialising,*)
(* detecting or releasing: the capture and the model it frees are not in   *)
(* use, and the settings it reads at its start can be edited freely.       *)
ReadyMeansReleased ==
  threadReady => \A s \in Sessions : dml[s] \in {"unborn", "resetHandle", "ended"}

(* A running detection loop has what it uses every frame: the duplication  *)
(* it grabs from, the event it signals and the lock thread behind it; no   *)
(* other session, starting, failing or ending, takes them away.            *)
RunningHasItsResources ==
  \A s \in Sessions : dml[s] \in LoopPC => captured /\ lock_event /\ lock[s] # "unborn"

(* The calls through null that Customize and the switch of InitMove let    *)
(* pass are the only ones: while the last start to succeed was of a known  *)
(* way, and of a DLL with all of its exports, no lock thread, a left over  *)
(* one included, finds a pointer unset (move-way.cpp:175, 182).            *)
LockAfterInit ==
  \A s \in Sessions : LockAlive(s) /\ fit => moveR # "null" /\ moveClose # "null"

(* A session whose loop has run gives the desktop duplication back before  *)
(* it frees its model and announces its end, and no other takes it again   *)
(* in between; only a start that failed leaves it behind                   *)
(* (dml-module.cpp:279, 308).                                              *)
CaptureGivenBack ==
  \A s \in Sessions :
    lock[s] # "unborn" /\ dml[s] \in FreePC \ {"capRelease"} => ~captured

(* A stop asked for while the loop of a session runs is not taken back     *)
(* before that loop has seen it: the reset of ThreadStopSignl at the end of*)
(* one session never reaches into another (dml-module.cpp:315).            *)
StopIsKept ==
  [][\A s \in Sessions :
       dml[s] \in LoopPC /\ dml'[s] \in LoopPC /\ ~threadStopSignl
         => ~threadStopSignl']_vars

(* A session whose loop runs when Exit is pressed comes to its end, even   *)
(* if the UI thread and the lock threads never run again.                  *)
StopEnds ==
  \A s \in Sessions :
    (dml[s] \in LoopPC /\ ~threadStopSignl) ~> (dml[s] = "ended" \/ ui = "gone")

(* Creating and ending inference threads implements the one slot.          *)
Holders == {s \in Sessions : Alive(s)}
Used == {s \in Sessions : dml[s] # "unborn"}
Slot == INSTANCE InferenceSlot WITH Threads <- Sessions, holders <- Holders, used <- Used
ImplementsSlot == Slot!SlotSpec

(* The sessions that use the mouse device: from the line of InitMove to the*)
(* end of the lock thread.  Nothing in the code keeps them to one.         *)
UsesDevice(s) == LockAlive(s) \/ dml[s] \in {"initMove", "spawn"}
OneUser == \A s, t \in Sessions : UsesDevice(s) /\ UsesDevice(t) => s = t

Phase ==
  IF ui = "gone" THEN "gone"
  ELSE IF \E s \in Sessions : lock[s] = "forget" THEN "forget"
  ELSE IF \E s \in Sessions : LockAlive(s) \/ dml[s] = "spawn" THEN "ready"
  ELSE "idle"

Client == INSTANCE MoveClient WITH phase <- Phase

LeftOver(s) == LockAlive(s) /\ dml[s] = "ended"

(* When two sessions do use it, one of them is a lock thread left over: the*)
(* inference thread that was to signal it has ended without it             *)
(* (dml-module.cpp:313 does not wait for the thread of lock-module.cpp:285)*)
OnlyLeftOversShare ==
  \A s, t \in Sessions :
    UsesDevice(s) /\ UsesDevice(t) /\ s # t => LeftOver(s) \/ LeftOver(t)

(* Two sessions on the device at a time are the only way in which the      *)
(* threads leave the protocol of InitMove and MoveClose: any other step, in*)
(* whatever state it finds the device, a lock thread that could not be     *)
(* created and a call through null included, is one that MoveClient allows *)
(* (lock-module.cpp:264, 281-286).                                         *)
OrderlyUse ==
  [][OneUser => [Client!CNext]_(Client!cvars)]_vars

-----------------------------------------------------------------------------
(* What the comments of the code say and its threads do not keep.          *)

(* sf-trt.h: ThreadStopSignl is the stop signal of the threads; the lock   *)
(* thread's loop tests it and then releases the device.  A lock thread that*)
(* is there when the signal is given comes to its end.                     *)
StopReachesLock ==
  \A s \in Sessions :
    (LockAlive(s) /\ ~threadStopSignl) ~> (lock[s] = "ended" \/ ui = "gone")

(* sf-trt.h: ThreadReady says that the AI thread can be started; when there*)
(* is none and DMLFrame is not running, it can.                            *)
ReadyWhenIdle ==
  (ui = "frame" /\ \A s \in Sessions : ~Alive(s)) => threadReady

(* dml-module.cpp: a session that has ended has reset the signals; the next*)
(* one starts with the stop signal not given.                              *)
StartsArmed ==
  [][\A s \in Sessions :
       dml[s] = "unborn" /\ dml'[s] # "unborn" => threadStopSignl]_vars
=============================================================================
