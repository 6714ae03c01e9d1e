----------------------------- MODULE MoveClient -----------------------------
(***************************************************************************)
(* MoveWay used the way lock-module.cpp means it to be used, by one client *)
(* at a time: InitLock calls InitMove with the way the user has chosen,    *)
(* the lock thread moves, and when its loop ends it calls MoveClose.       *)
(* Session shows what the real threads make of it.                         *)
(***************************************************************************)
EXTENDS MoveWay

VARIABLE
  phase      (* "idle", "ready" after a successful InitMove, "forget"       *)
             (* between the two steps of LGMoveClose, "gone" once the       *)
             (* process has ended                                           *)

cvars == <<mwVars, phase>>

CInit ==
  /\ MWInit
  /\ phase = "idle"

(* Variables::move_way may have been changed since the last session, by a  *)
(* radio button or by loading a configuration; a start reads it once.      *)
Start(move_way, ok) ==
  /\ phase = "idle"
  /\ InitMove(move_way, ok)
  /\ phase' = IF ok THEN "ready" ELSE "idle"

(* InitMove has succeeded and CreateThread fails. *)
StartFails ==
  /\ phase = "ready"
  /\ Abandon
  /\ phase' = "idle"

StopNtClose ==
  /\ phase = "ready"
  /\ NtClose
  /\ phase' = "forget"

StopForget ==
  /\ phase = "forget"
  /\ ForgetLg
  /\ phase' = "idle"

StopClose ==
  /\ phase = "ready"
  /\ MoveClose
  /\ phase' = "idle"

(* The process ends: WinMain returns, or a call through a null pointer.    *)
EndProcess ==
  /\ phase # "gone"
  /\ UNCHANGED mwVars \/ (phase = "idle" /\ NullInit)
  /\ phase' = "gone"

CNext ==
  \/ \E way \in Chosen, ok \in BOOLEAN : Start(way, ok)
  \/ StartFails
  \/ StopNtClose
  \/ StopForget
  \/ StopClose
  \/ EndProcess

CSpec == CInit /\ [][CNext]_cvars

-----------------------------------------------------------------------------
CTypeOK ==
  /\ MWTypeOK
  /\ phase \in {"idle", "ready", "forget", "gone"}

(* Every successful InitMove is undone by the MoveClose that follows, and  *)
(* a failed one leaves nothing behind, whatever order the ways are tried   *)
(* in: between sessions the only devices open are those of a start whose   *)
(* lock thread could not be created (lock-module.cpp:281-286).             *)
NothingHeldWhenIdle ==
  phase = "idle" => /\ \A d \in Devices : ports[d] > 0 => d \in left
                    /\ Lg # "null" => "ghub" \in left
                    /\ yjs = "open" => "yjs" \in left

(* The device a session holds is held once, and is the one MoveClose will  *)
(* close: the pointers never lag behind it, not even after a failed        *)
(* InitMove of another way, which has already touched its part of the      *)
(* singleton.  They name no other device even when a DLL lacks the         *)
(* functions that Customize does not test; and a session whose way was fit *)
(* moves and closes by it, on a handle that is open.                       *)
HeldDeviceIsTheOneClosed ==
  /\ \A d \in Devices \ left :
       ports[d] > 0 => /\ ports[d] = 1
                       /\ {moveR, moveClose} \subseteq {d, "null"}
                       /\ fit => moveR = d /\ moveClose = d
  /\ phase = "ready" /\ fit =>
       /\ moveR = moveClose
       /\ moveR = "yjs" => yjs = "open"
       /\ moveR \in {"yjs", "custom"} => ports[moveR] > 0
=============================================================================
