------------------------- MODULE MoveClient_proofs -------------------------
(* Proofs about MoveClient: one client at a time leaves open only what a   *)
(* start without a lock thread has left, and closes the device it has      *)
(* opened, for any order of ways and failures.                             *)
EXTENDS MoveClient, TLAPS

(* What a port that is open says of the member that stands for it.         *)
HandleInv ==
  /\ ports["ghub"] = (IF Lg = "open" THEN 1 ELSE 0)
  /\ phase # "gone" => (Lg = "closed" <=> phase = "forget")
  /\ yjs = "open" => ports["yjs"] > 0
  /\ ports["yjs"] > 0 /\ "yjs" \notin left => yjs = "open"

(* Only a session holds a device that is not left over, and it has the     *)
(* pointers that go with it.                                               *)
HoldInv ==
  /\ HeldDeviceIsTheOneClosed
  /\ \A d \in Devices \ left : ports[d] > 0 => phase \in {"ready", "gone"}

CInv == CTypeOK /\ HandleInv /\ HoldInv

LEMMA CInvInit == CInit => CInv
<1> SUFFICES ASSUME CInit PROVE CInv
  OBVIOUS
<1>1. CTypeOK
  BY DEF CInit, MWInit, CTypeOK, MWTypeOK, Devices, Ways
<1>2. HandleInv /\ HoldInv
  BY DEF CInit, MWInit, HandleInv, HoldInv, HeldDeviceIsTheOneClosed, Devices, Ways
<1> QED BY <1>1, <1>2 DEF CInv

(* The invariant one device at a time, the form in which steps disturb it. *)
Held(d) ==
  d \notin left /\ ports[d] > 0 =>
    /\ phase \in {"ready", "gone"}
    /\ ports[d] = 1
    /\ {moveR, moveClose} \subseteq {d, "null"}
    /\ fit => moveR = d /\ moveClose = d

Fits ==
  phase = "ready" /\ fit =>
    /\ moveR = moveClose
    /\ moveR = "yjs" => yjs = "open"
    /\ moveR \in {"yjs", "custom"} => ports[moveR] > 0

LEMMA HoldIsPerDevice == HoldInv <=> Held("ghub") /\ Held("yjs") /\ Held("custom") /\ Fits
BY DEF HoldInv, HeldDeviceIsTheOneClosed, Held, Fits, Devices, Ways

(* What closing a device does to its port and to the devices left over.    *)
LEMMA CloseEffect ==
  ASSUME CTypeOK, NEW d \in Devices, Closed(d)
  PROVE  /\ ports' \in [Devices -> Nat] /\ left' \subseteq Devices
         /\ \A e \in Devices \ {d} : ports'[e] = ports[e] /\ (e \in left' <=> e \in left)
         /\ ports[d] > 0 => ports'[d] = ports[d] - 1
         /\ ports[d] = 0 => ports'[d] = 0
         /\ ports'[d] > 0 => (d \in left' <=> d \in left)
BY DEF CTypeOK, MWTypeOK, Closed

LEMMA OpenEffect ==
  ASSUME CTypeOK, NEW d \in Devices, Opened(d)
  PROVE  /\ ports' \in [Devices -> Nat]
         /\ ports'[d] = ports[d] + 1
         /\ \A e \in Devices \ {d} : ports'[e] = ports[e]
BY DEF CTypeOK, MWTypeOK, Opened

(* In a session, MoveClose leaves nothing behind that was not left before. *)
LEMMA StopStep == CInv /\ (StopNtClose \/ StopClose \/ StopForget) => CInv'
<1> SUFFICES ASSUME CInv, StopNtClose \/ StopClose \/ StopForget PROVE CInv'
  OBVIOUS
<1>0. Held("ghub") /\ Held("yjs") /\ Held("custom") /\ CTypeOK /\ HandleInv
  BY HoldIsPerDevice DEF CInv
<1>d. Devices = {"ghub", "yjs", "custom"}
  BY DEF Devices, Ways
<1>1. CASE StopNtClose
  <2>1. /\ phase = "ready" /\ phase' = "forget" /\ moveClose = "ghub" /\ Lg' = "closed"
        /\ UNCHANGED <<yjs, conitor, moveR, moveClose, fit>>
    BY <1>1 DEF StopNtClose, NtClose, CloseIsTwoSteps
  <2>2. /\ ports' \in [Devices -> Nat] /\ left' \subseteq Devices
        /\ ports'["ghub"] = 0
        /\ \A e \in {"yjs", "custom"} : ports'[e] = ports[e] /\ (e \in left' <=> e \in left)
    <3>1. CASE Lg = "open"
      BY <1>1, <3>1, <1>0, <1>d, CloseEffect DEF StopNtClose, NtClose, HandleInv
    <3>2. CASE Lg # "open"
      BY <1>1, <3>2, <1>0, <1>d DEF StopNtClose, NtClose, HandleInv, CTypeOK, MWTypeOK
    <3> QED BY <3>1, <3>2
  <2>3. CTypeOK'
    BY <1>0, <2>1, <2>2 DEF CTypeOK, MWTypeOK
  <2>4. HandleInv'
    BY <1>0, <2>1, <2>2 DEF HandleInv
  <2>5. Held("ghub")' /\ Held("yjs")' /\ Held("custom")' /\ Fits'
    BY <1>0, <2>1, <2>2 DEF Held, Fits
  <2> QED BY <2>3, <2>4, <2>5, HoldIsPerDevice, PTL DEF CInv
<1>2. CASE StopForget
  <2>1. /\ phase = "forget" /\ phase' = "idle" /\ Lg' = "null"
        /\ UNCHANGED <<yjs, conitor, moveR, moveClose, ports, fit, left>>
    BY <1>2 DEF StopForget, ForgetLg, ghosts
  <2>2. CTypeOK' /\ HandleInv'
    BY <1>0, <2>1 DEF CTypeOK, MWTypeOK, HandleInv
  <2>3. Held("ghub")' /\ Held("yjs")' /\ Held("custom")' /\ Fits'
    BY <1>0, <2>1 DEF Held, Fits
  <2> QED BY <2>2, <2>3, HoldIsPerDevice, PTL DEF CInv
<1>3. CASE StopClose
  <2>1. /\ phase = "ready" /\ phase' = "idle" /\ ~CloseIsTwoSteps /\ MoveClose
        /\ moveClose \in {"yjs", "custom", "ghub", "sendinput"}
        /\ UNCHANGED <<Lg, conitor, moveR, moveClose, fit>>
    BY <1>3 DEF StopClose, MoveClose, YjsMoveClose, CustomizeFree, mwVars, ghosts
  <2>2. CASE moveClose = "yjs" /\ yjs = "open"
    <3>1. Closed("yjs") /\ yjs' = "closed"
      BY <2>1, <2>2 DEF MoveClose, YjsMoveClose, CloseIsTwoSteps
    <3>2. CTypeOK' /\ HandleInv'
      BY <1>0, <1>d, <2>1, <3>1, CloseEffect DEF CTypeOK, MWTypeOK, HandleInv, Held
    <3>3. Held("ghub")' /\ Held("yjs")' /\ Held("custom")' /\ Fits'
      BY <1>0, <1>d, <2>1, <2>2, <3>1, CloseEffect DEF Held, Fits, HandleInv
    <3> QED BY <3>2, <3>3, HoldIsPerDevice, PTL DEF CInv
  <2>3. CASE moveClose = "custom"
    <3>1. Closed("custom") /\ yjs' = yjs
      BY <2>1, <2>3 DEF MoveClose, CustomizeFree
    <3>2. CTypeOK' /\ HandleInv'
      BY <1>0, <1>d, <2>1, <3>1, CloseEffect DEF CTypeOK, MWTypeOK, HandleInv
    <3>3. Held("ghub")' /\ Held("yjs")' /\ Held("custom")' /\ Fits'
      BY <1>0, <1>d, <2>1, <2>3, <3>1, CloseEffect DEF Held, Fits, HandleInv, CTypeOK, MWTypeOK
    <3> QED BY <3>2, <3>3, HoldIsPerDevice, PTL DEF CInv
  <2>4. CASE moveClose \in {"ghub", "sendinput"} \/ (moveClose = "yjs" /\ yjs # "open")
    <3>1. UNCHANGED <<ports, yjs, left>>
      BY <2>1, <2>4 DEF MoveClose, YjsMoveClose, mwVars, ghosts
    <3>2. CTypeOK' /\ HandleInv'
      BY <1>0, <2>1, <3>1 DEF CTypeOK, MWTypeOK, HandleInv
    <3>3. moveClose = "ghub" => Lg = "null"
      BY <2>1 DEF CloseIsTwoSteps
    <3>4. Held("ghub")' /\ Held("yjs")' /\ Held("custom")' /\ Fits'
      BY <1>0, <2>1, <2>4, <3>1, <3>3 DEF Held, Fits, HandleInv
    <3> QED BY <3>2, <3>4, HoldIsPerDevice, PTL DEF CInv
  <2> QED BY <2>1, <2>2, <2>3, <2>4
<1> QED BY <1>1, <1>2, <1>3

LEMMA StartStep ==
  ASSUME CInv, NEW way \in Chosen, NEW ok \in BOOLEAN, Start(way, ok)
  PROVE  CInv'
<1>0. Held("ghub") /\ Held("yjs") /\ Held("custom") /\ CTypeOK /\ HandleInv
  BY HoldIsPerDevice DEF CInv
<1>d. Devices = {"ghub", "yjs", "custom"}
  BY DEF Devices, Ways
<1>1. CASE way = "ghub"
  <2>1. /\ phase = "idle" /\ phase' = "ready" /\ moveR' = "ghub" /\ moveClose' = "ghub"
        /\ fit' = TRUE /\ UNCHANGED <<yjs, conitor, left>>
    BY <1>1 DEF Start, InitMove, InitLogitech, PointTo
  <2>2. \/ Lg = "null" /\ Lg' = "open" /\ Opened("ghub")
        \/ UNCHANGED <<Lg, ports>>
    BY <1>1 DEF Start, InitMove, InitLogitech
  <2>3. CTypeOK' /\ HandleInv'
    BY <1>0, <1>d, <2>1, <2>2, OpenEffect DEF CTypeOK, MWTypeOK, HandleInv, Ways
  <2>4. Held("ghub")' /\ Held("yjs")' /\ Held("custom")' /\ Fits'
    BY <1>0, <1>d, <2>1, <2>2, OpenEffect DEF Held, Fits, HandleInv
  <2> QED BY <2>3, <2>4, HoldIsPerDevice, PTL DEF CInv
<1>2. CASE way = "yjs"
  <2>1. phase = "idle" /\ UNCHANGED <<Lg, conitor, left>>
    BY <1>2 DEF Start, InitMove, InitYiJianShu
  <2>2. CASE ok
    <3>1. /\ phase' = "ready" /\ yjs' = "open" /\ Opened("yjs") /\ fit' = TRUE
          /\ moveR' = "yjs" /\ moveClose' = "yjs"
      BY <1>2, <2>2 DEF Start, InitMove, InitYiJianShu, PointTo
    <3>2. CTypeOK' /\ HandleInv'
      BY <1>0, <1>d, <2>1, <3>1, OpenEffect DEF CTypeOK, MWTypeOK, HandleInv, Ways
    <3>3. Held("ghub")' /\ Held("yjs")' /\ Held("custom")' /\ Fits'
      BY <1>0, <1>d, <2>1, <3>1, OpenEffect DEF Held, Fits, CTypeOK, MWTypeOK
    <3> QED BY <3>2, <3>3, HoldIsPerDevice, PTL DEF CInv
  <2>3. CASE ~ok
    <3>1. phase' = "idle" /\ yjs' = "invalid" /\ UNCHANGED <<moveR, moveClose, ports, fit>>
      BY <1>2, <2>3 DEF Start, InitMove, InitYiJianShu, KeepPointers
    <3>2. CTypeOK' /\ HandleInv'
      BY <1>0, <2>1, <3>1 DEF CTypeOK, MWTypeOK, HandleInv, Held
    <3>3. Held("ghub")' /\ Held("yjs")' /\ Held("custom")' /\ Fits'
      BY <1>0, <2>1, <3>1 DEF Held, Fits
    <3> QED BY <3>2, <3>3, HoldIsPerDevice, PTL DEF CInv
  <2> QED BY <2>2, <2>3
<1> USE DEF CInv, CTypeOK, MWTypeOK, HandleInv, HoldInv, HeldDeviceIsTheOneClosed, Devices, Ways
<1>3. CASE way = "sendinput"
  BY <1>3 DEF Start, InitMove, InitSendInput, PointTo
<1>4. CASE way = "unknown"
  BY <1>4 DEF Start, InitMove, InitUnknown, KeepPointers
<1>5. CASE way = "custom"
  <2>1. phase = "idle" /\ Customize(ok) /\ phase' = IF ok THEN "ready" ELSE "idle"
    BY <1>5 DEF Start, InitMove
  <2>2. conitor' \in BOOLEAN /\ UNCHANGED <<Lg, yjs, left>>
    BY <2>1 DEF Customize
  <2>3. CASE ~ok
    BY <2>1, <2>2, <2>3 DEF Customize, KeepPointers
  <2>4. CASE ok
    <3>1. PICK Move \in BOOLEAN, Free \in BOOLEAN :
            /\ ports' = [ports EXCEPT !["custom"] = @ + 1]
            /\ moveR' = Export(Move)
            /\ moveClose' = Export(Free)
            /\ fit' = (Move /\ Free)
      BY <2>1, <2>4 DEF Customize, Opened
    <3>2. /\ moveR' \in {"custom", "null"} /\ moveClose' \in {"custom", "null"}
          /\ fit' \in BOOLEAN
          /\ fit' => moveR' = "custom" /\ moveClose' = "custom"
      BY <3>1 DEF Export
    <3> QED BY <2>1, <2>2, <2>4, <3>1, <3>2
  <2> QED BY <2>3, <2>4
<1> QED BY <1>1, <1>2, <1>3, <1>4, <1>5 DEF Chosen

LEMMA CInvNext == CInv /\ [CNext]_cvars => CInv'
<1> SUFFICES ASSUME CInv, [CNext]_cvars PROVE CInv'
  OBVIOUS
<1>1. ASSUME NEW way \in Chosen, NEW ok \in BOOLEAN, Start(way, ok) PROVE CInv'
  BY <1>1, StartStep
<1>2. ASSUME StopNtClose \/ StopClose \/ StopForget PROVE CInv'
  BY <1>2, StopStep
<1> USE DEF CInv, CTypeOK, MWTypeOK, HandleInv, HoldInv, HeldDeviceIsTheOneClosed, Devices, Ways
<1>3. ASSUME StartFails PROVE CInv'
  BY <1>3 DEF StartFails, Abandon, KeepPointers
<1>4. ASSUME EndProcess PROVE CInv'
  <2>1. /\ UNCHANGED <<Lg, yjs, moveR, moveClose, ports, fit, left>>
        /\ conitor' \in BOOLEAN
        /\ phase' = "gone"
    BY <1>4 DEF EndProcess, NullInit, KeepPointers, mwVars, ghosts
  <2> QED BY <2>1
<1>5. CASE UNCHANGED cvars
  BY <1>5 DEF cvars, mwVars, ghosts
<1> QED BY <1>1, <1>2, <1>3, <1>4, <1>5 DEF CNext

LEMMA CInvHolds == CSpec => []CInv
BY CInvInit, CInvNext, PTL DEF CSpec

(* A session on a DLL with all of its exports has the function that reads  *)
(* the keys.                                                               *)
MonitorInv == phase = "ready" /\ fit /\ moveR = "custom" => conitor = TRUE

LEMMA MonitorNext == MonitorInv /\ [CNext]_cvars => MonitorInv'
<1> SUFFICES ASSUME MonitorInv, [CNext]_cvars PROVE MonitorInv'
  OBVIOUS
<1> USE DEF MonitorInv
<1>1. ASSUME NEW way \in Chosen, NEW ok \in BOOLEAN, Start(way, ok) PROVE MonitorInv'
  BY <1>1 DEF Start, InitMove, InitLogitech, InitYiJianShu, InitSendInput, InitUnknown, Customize,
              PointTo, Ways
<1>2. ASSUME StopNtClose \/ StopForget \/ StopClose \/ StartFails \/ EndProcess PROVE MonitorInv'
  BY <1>2 DEF StopNtClose, StopForget, StopClose, StartFails, EndProcess
<1>3. CASE UNCHANGED cvars
  BY <1>3 DEF cvars, mwVars, ghosts
<1> QED BY <1>1, <1>2, <1>3 DEF CNext

LEMMA CInvImplies == CInv => NothingHeldWhenIdle /\ HeldDeviceIsTheOneClosed
BY DEF CInv, CTypeOK, MWTypeOK, HandleInv, HoldInv, NothingHeldWhenIdle, Devices, Ways

(* Between sessions no device is held but by a start that got no lock      *)
(* thread, whatever ways were tried before and however they failed         *)
(* (InitMove and MoveClose of move-way.cpp, InitLock of lock-module.cpp).  *)
THEOREM NothingStaysOpen == CSpec => []NothingHeldWhenIdle
BY CInvHolds, CInvImplies, PTL

(* MoveR and MoveClose name no device but the one that is open, and do     *)
(* name it unless a DLL lacks their function (move-way.cpp:159-176).       *)
THEOREM OpenDeviceIsClosed == CSpec => []HeldDeviceIsTheOneClosed
BY CInvHolds, CInvImplies, PTL
=============================================================================
