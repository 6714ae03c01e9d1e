------------------------------ MODULE MoveWay ------------------------------
(***************************************************************************)
(* The MoveWay singleton (src/src/move-way.h, move-way.cpp): the one mouse *)
(* device of the process, chosen by a "way" at every start of a session    *)
(* and reached through two function pointers, MoveR and MoveClose.         *)
(*                                                                         *)
(* The singleton is shared and unlocked: the inference thread calls        *)
(* InitMove, every lock thread calls MoveR and, when it ends, MoveClose.   *)
(* This module gives the state and what each call does to it; MoveClient   *)
(* drives it from one thread, Session from all of them.                    *)
(***************************************************************************)
EXTENDS Integers

(* The values of variables->move_way: 0 Logitech ghub, 1 the MSDK box      *)
(* ("yjs"), 2 SendInput, 3 a DLL the user provides.                        *)
Ways == {"ghub", "yjs", "sendinput", "custom"}

(* What Variables::move_way may hold: a radio button gives a way, the file  *)
(* of a configuration any number.                                          *)
Chosen == Ways \cup {"unknown"}

(* The ways that hold something of the outside world open.                 *)
Devices == Ways \ {"sendinput"}

VARIABLES
  Lg,         (* MoveWay::Lg: "null", "open", or "closed" (a dangling handle) *)
  yjs,        (* MoveWay::yjs: "null", "invalid", "open" or "closed"          *)
  conitor,    (* value->conitor holds a function, not a null pointer          *)
  moveR,      (* the way MoveR points to, or "null"                           *)
  moveClose,  (* the way MoveClose points to, or "null"                       *)
  ports,      (* per device, what was opened and not yet closed outside       *)
  fit,        (* ghost: the last start to succeed was of a way the switch     *)
              (* knows and, of a DLL, with all of its exports                 *)
  left        (* ghost: the devices open because no lock thread was created   *)

ghosts == <<fit, left>>
mwVars == <<Lg, yjs, conitor, moveR, moveClose, ports, ghosts>>

MWTypeOK ==
  /\ Lg \in {"null", "open", "closed"}
  /\ yjs \in {"null", "invalid", "open", "closed"}
  /\ conitor \in BOOLEAN
  /\ moveR \in Ways \cup {"null"}
  /\ moveClose \in Ways \cup {"null"}
  /\ ports \in [Devices -> Nat]
  /\ fit \in BOOLEAN
  /\ left \subseteq Devices

MWInit ==
  /\ Lg = "null"
  /\ yjs = "null"
  /\ conitor = FALSE
  /\ moveR = "null"
  /\ moveClose = "null"
  /\ ports = [d \in Devices |-> 0]
  /\ fit = TRUE
  /\ left = {}

PointTo(way) ==
  /\ moveR' = way
  /\ moveClose' = way

KeepPointers == UNCHANGED <<moveR, moveClose>>

Opened(d) == ports' = [ports EXCEPT ![d] = @ + 1]

(* A port that is not open cannot be closed a second time: the driver     *)
(* refuses the call and the count stays.                                  *)
Closed(d) ==
  /\ ports' = [ports EXCEPT ![d] = IF @ > 0 THEN @ - 1 ELSE 0]
  /\ left' = IF ports[d] > 1 THEN left ELSE left \ {d}

-----------------------------------------------------------------------------
(* InitLogitech: three device names are tried, one after the other, unless *)
(* Lg already holds a handle; the pointers are set and TRUE is returned    *)
(* whether or not one of them opened.                                      *)
InitLogitech ==
  /\ \/ /\ Lg = "null"
        /\ Lg' = "open"
        /\ Opened("ghub")
     \/ UNCHANGED <<Lg, ports>>
  /\ PointTo("ghub")
  /\ fit' = TRUE
  /\ UNCHANGED <<yjs, conitor, left>>

(* InitYiJianShu: M_Open(1) answers a handle or INVALID_HANDLE_VALUE, and  *)
(* yjs is assigned before the answer is looked at.                         *)
InitYiJianShu(ok) ==
  /\ IF ok THEN yjs' = "open" /\ Opened("yjs") /\ PointTo("yjs") /\ fit' = TRUE
           ELSE yjs' = "invalid" /\ KeepPointers /\ UNCHANGED <<ports, fit>>
  /\ UNCHANGED <<Lg, conitor, left>>

InitSendInput ==
  /\ PointTo("sendinput")
  /\ fit' = TRUE
  /\ UNCHANGED <<Lg, yjs, conitor, ports, left>>

(* GetProcAddress answers NULL for what a DLL does not export.  Customize  *)
(* tests CustomizeConitor only, and stores the other two as they are.      *)
Export(found) == IF found THEN "custom" ELSE "null"

(* Faulty: MoveClose keeps pointing to the way used before. *)
Customize_MoveOnly(ok) ==
  /\ conitor' = ok
  /\ IF ok THEN Opened("custom") /\ moveR' = "custom" /\ fit' = TRUE /\ UNCHANGED moveClose
           ELSE KeepPointers /\ UNCHANGED <<ports, fit>>
  /\ UNCHANGED <<Lg, yjs, left>>

(* Faulty: the pointers are set before the exports are looked at. *)
Customize_PointersFirst(ok) ==
  /\ conitor' \in BOOLEAN
  /\ PointTo("custom")
  /\ IF ok THEN Opened("custom") /\ fit' = TRUE ELSE UNCHANGED <<ports, fit>>
  /\ UNCHANGED <<Lg, yjs, left>>

(* Customize: the DLL may be missing, may not export CustomizeConitor, may *)
(* refuse to initialise; only then are the pointers set, to whatever it    *)
(* exports as CustomizeMove and CustomizeFree.                             *)
Customize(ok) ==
  /\ \/ ~ok /\ UNCHANGED conitor                 \* LoadLibraryA found no DLL
     \/ ~ok /\ conitor' \in BOOLEAN              \* no export, or Init refused
     \/ ok  /\ conitor' = TRUE
  /\ IF ok THEN \E Move, Free \in BOOLEAN :
                  /\ Opened("custom")
                  /\ moveR' = Export(Move)
                  /\ moveClose' = Export(Free)
                  /\ fit' = (Move /\ Free)
           ELSE KeepPointers /\ UNCHANGED <<ports, fit>>
  /\ UNCHANGED <<Lg, yjs, left>>

(* A DLL with CustomizeConitor and without CustomizeInit: Init is called   *)
(* through null, and the process ends.                                     *)
NullInit ==
  /\ conitor' = TRUE
  /\ KeepPointers
  /\ UNCHANGED <<Lg, yjs, ports, ghosts>>

(* The switch of InitMove has no default. *)
InitUnknown ==
  /\ fit' = FALSE
  /\ KeepPointers
  /\ UNCHANGED <<Lg, yjs, conitor, ports, left>>

(* InitMove(way), called by InitLock; ok is the value it returns.          *)
InitMove(way, ok) ==
  \/ way = "ghub"      /\ ok /\ InitLogitech
  \/ way = "yjs"       /\ InitYiJianShu(ok)
  \/ way = "sendinput" /\ ok /\ InitSendInput
  \/ way = "custom"    /\ Customize(ok)
  \/ way = "unknown"   /\ ok /\ InitUnknown

(* InitLock when CreateThread fails: nothing undoes its InitMove, and what *)
(* is open stays open.                                                     *)
Abandon ==
  /\ left' = {d \in Devices : ports[d] > 0}
  /\ KeepPointers
  /\ UNCHANGED <<Lg, yjs, conitor, ports, fit>>

-----------------------------------------------------------------------------
(* LGMoveClose is two steps, NtClose(Lg) and then Lg = nullptr; the other  *)
(* ways close in one call (SendInput: none), and M_Close leaves yjs as a   *)
(* handle that is no longer open.                                          *)
CloseIsTwoSteps == moveClose = "ghub" /\ Lg # "null"

(* Faulty: a dangling handle is not told from an open one. *)
NtClose_Dangling ==
  /\ CloseIsTwoSteps
  /\ ports' = [ports EXCEPT !["ghub"] = @ - 1]
  /\ Lg' = "closed"
  /\ UNCHANGED <<yjs, conitor, moveR, moveClose, ghosts>>

NtClose ==
  /\ CloseIsTwoSteps
  /\ IF Lg = "open" THEN Closed("ghub") ELSE UNCHANGED <<ports, left>>
  /\ Lg' = "closed"
  /\ UNCHANGED <<yjs, conitor, moveR, moveClose, fit>>

(* Faulty: the handle is closed and not forgotten. *)
ForgetLg_KeepsHandle == UNCHANGED mwVars

ForgetLg ==
  /\ Lg' = "null"
  /\ UNCHANGED <<yjs, conitor, moveR, moveClose, ports, ghosts>>

(* Faulty: the port is closed twice. *)
YjsMoveClose_Twice ==
  /\ yjs' = "closed"
  /\ ports' = [ports EXCEPT !["yjs"] = @ - 2]
  /\ UNCHANGED <<Lg, conitor, moveR, moveClose, ghosts>>

YjsMoveClose ==
  /\ IF yjs = "open" THEN yjs' = "closed" /\ Closed("yjs")
                     ELSE UNCHANGED <<yjs, ports, left>>
  /\ UNCHANGED <<Lg, conitor, moveR, moveClose, fit>>

CustomizeFree ==
  /\ Closed("custom")
  /\ UNCHANGED <<Lg, yjs, conitor, moveR, moveClose, fit>>

(* A null MoveClose is not among them: it ends the process. *)
MoveClose ==
  /\ ~CloseIsTwoSteps
  /\ \/ moveClose = "yjs" /\ YjsMoveClose
     \/ moveClose = "custom" /\ CustomizeFree
     \/ moveClose \in {"ghub", "sendinput"} /\ UNCHANGED mwVars
=============================================================================
