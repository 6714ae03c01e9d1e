--------------------------- MODULE Trigger_proofs ---------------------------
(* Proofs about Trigger, for all offsets, limits, intervals and delays.    *)
EXTENDS Trigger, MoveClient_proofs

LEMMA LimitBounds ==
  ASSUME NEW n \in Int
  PROVE  /\ MaxMovePixel(n) \in Int
         /\ MaxPixels # 0 => Magnitude(MaxMovePixel(n)) \in 0 .. Magnitude(MaxPixels)
BY PixelsAssumption DEF MaxMovePixel, Magnitude

(* Every step is a step of MoveClient or leaves it alone. *)
LEMMA ClientStep == [TNext]_tvars => [CNext]_cvars
BY DEF TNext, tvars, Aim, NullConitor, NullMove, MoveOnly, RefreshSleep, HoldStill, Fire, Shoot, HoldFire,
       LeftButtonClick, RestartTimer, Tick, Elsewhere, Pass

(* A session whose lock thread aims, waits and clicks is a client of       *)
(* MoveWay: whatever it does in between, it opens and closes the device as *)
(* MoveClient says (lock-module.cpp:273, 264).                             *)
THEOREM TriggerIsAClient == TSpec => CSpec
BY ClientStep, PTL DEF TSpec, TInit, CSpec

(* What is proved of MoveClient therefore holds of it: between sessions no *)
(* device is open but one a start without a lock thread has left, and a    *)
(* session closes the one it holds, but for what a DLL does not export.    *)
THEOREM SessionsLeaveNothingOpen == TSpec => [](NothingHeldWhenIdle /\ HeldDeviceIsTheOneClosed)
BY TriggerIsAClient, CInvHolds, CInvImplies, PTL

-----------------------------------------------------------------------------
LocalTypes ==
  /\ lock \in {"wait", "aimed", "fire", "shoot", "click", "restart", "fault"}
  /\ fame_temp \in 0 .. AdvancedSize
  /\ x \in Int /\ y \in Int
  /\ onTarget \in BOOLEAN
  /\ model \in 0 .. 2
TimeTypes ==
  /\ age \in [Timers -> 0 .. Cap]
  /\ gap \in [Timers -> 0 .. Cap]
  /\ up \in 0 .. Cap

LEMMA AimStep ==
  ASSUME LocalTypes, MovesWithinLimit,
         NEW tx \in Offsets, NEW ty \in Offsets,
         NEW a \in BOOLEAN, NEW c \in BOOLEAN, NEW d \in BOOLEAN, Aim(tx, ty, a, c, d)
  PROVE  LocalTypes' /\ MovesWithinLimit'
<1> DEFINE lead == a /\ fame_temp >= AdvancedSize
           ox == IF lead THEN Lead(tx) ELSE tx
<1>1. ox \in Int /\ ty \in Int /\ \A n \in Offsets : n \in Int
  BY PixelsAssumption DEF Lead
<1>2. fame_temp' \in 0 .. AdvancedSize
  <2>1. fame_temp' = NextFame(lead, a)
    BY DEF Aim
  <2>2. CASE lead
    BY <2>1, <2>2, PixelsAssumption DEF NextFame
  <2>3. CASE ~lead /\ a
    BY <2>1, <2>3, PixelsAssumption DEF NextFame, LocalTypes
  <2>4. CASE ~a
    BY <2>1, <2>4 DEF NextFame, LocalTypes
  <2> QED BY <2>2, <2>3, <2>4
<1>3. PICK cx \in Int, cy \in Int :
        \/ UNCHANGED <<lock, passVars>>
        \/ /\ x' = MaxMovePixel(cx) /\ y' = MaxMovePixel(cy)
           /\ onTarget' \in BOOLEAN
           /\ lock' = "aimed"
           /\ UNCHANGED model
  BY <1>1 DEF Aim, Within
<1>4. CASE UNCHANGED <<lock, passVars>>
  BY <1>2, <1>4 DEF LocalTypes, MovesWithinLimit, passVars
<1>5. CASE /\ x' = MaxMovePixel(cx) /\ y' = MaxMovePixel(cy)
           /\ onTarget' \in BOOLEAN
           /\ lock' = "aimed"
           /\ UNCHANGED model
  BY <1>2, <1>5, LimitBounds DEF LocalTypes, MovesWithinLimit
<1> QED BY <1>3, <1>4, <1>5

LEMMA PassStep ==
  ASSUME LocalTypes, MovesWithinLimit, NEW from, NEW to \in {"wait", "aimed", "fire", "shoot", "click", "restart", "fault"},
         from # "wait", Pass(from, to)
  PROVE  LocalTypes' /\ MovesWithinLimit'
<1>1. CASE to = "wait"
  <2>1. lock' = "wait" /\ fame_temp' = fame_temp /\ x' = 0 /\ y' = 0 /\ model' = 0
    BY <1>1 DEF Pass
  <2>2. onTarget' \in BOOLEAN
    BY <1>1 DEF Pass
  <2> QED BY <2>1, <2>2 DEF LocalTypes, MovesWithinLimit
<1>2. CASE to # "wait"
  BY <1>2 DEF Pass, LocalTypes, MovesWithinLimit, passVars
<1> QED BY <1>1, <1>2

LEMMA LocalNext == LocalTypes /\ MovesWithinLimit /\ [TNext]_tvars => LocalTypes' /\ MovesWithinLimit'
<1> SUFFICES ASSUME LocalTypes, MovesWithinLimit, [TNext]_tvars
             PROVE  LocalTypes' /\ MovesWithinLimit'
  OBVIOUS
<1>1. ASSUME NEW tx \in Offsets, NEW ty \in Offsets, NEW a \in BOOLEAN, NEW c \in BOOLEAN,
             NEW d \in BOOLEAN, Aim(tx, ty, a, c, d)
      PROVE  LocalTypes' /\ MovesWithinLimit'
  BY <1>1, AimStep
<1>2. ASSUME \/ NullConitor \/ NullMove \/ MoveOnly \/ HoldStill \/ HoldFire \/ LeftButtonClick \/ RestartTimer
             \/ \E b \in BOOLEAN : RefreshSleep(b) \/ Shoot(b)
      PROVE  LocalTypes' /\ MovesWithinLimit'
  <2>1. PICK from \in {"aimed", "fire", "shoot", "click", "restart"},
             to \in {"wait", "aimed", "fire", "shoot", "click", "restart", "fault"} : Pass(from, to)
    BY <1>2 DEF NullConitor, NullMove, MoveOnly, HoldStill, HoldFire, LeftButtonClick, RestartTimer,
                RefreshSleep, Shoot
  <2> QED BY <2>1, PassStep
<1>3. ASSUME NEW m \in 0 .. 2, Fire(m) PROVE LocalTypes' /\ MovesWithinLimit'
  BY <1>3 DEF Fire, LocalTypes, MovesWithinLimit
<1>4. ASSUME Tick PROVE LocalTypes' /\ MovesWithinLimit'
  BY <1>4 DEF Tick, LocalTypes, MovesWithinLimit, passVars
<1>5. ASSUME Elsewhere PROVE LocalTypes' /\ MovesWithinLimit'
  BY <1>5, PixelsAssumption DEF Elsewhere, LocalTypes, MovesWithinLimit, passVars
<1>6. CASE UNCHANGED tvars
  BY <1>6 DEF tvars, passVars, LocalTypes, MovesWithinLimit
<1> QED BY <1>1, <1>2, <1>3, <1>4, <1>5, <1>6 DEF TNext

LEMMA LocalInit == TInit => LocalTypes /\ MovesWithinLimit
<1>1. ASSUME TInit PROVE LocalTypes /\ MovesWithinLimit
  <2>1. lock = "wait" /\ fame_temp \in 0 .. AdvancedSize /\ x = 0 /\ y = 0 /\ model = 0
    BY <1>1, PixelsAssumption DEF TInit
  <2>2. onTarget \in BOOLEAN
    BY <1>1 DEF TInit
  <2> QED BY <2>1, <2>2 DEF LocalTypes, MovesWithinLimit
<1> QED BY <1>1

(* MaxMovePixel (control-algorithm.cpp:22) bounds every move there is, on  *)
(* both axes, whatever lead and control computed.                          *)
THEOREM MovesAreLimited == TSpec => []MovesWithinLimit
BY LocalInit, LocalNext, PTL DEF TSpec

-----------------------------------------------------------------------------
(* A click is never younger than the timer that released it, but for the   *)
(* moment between the click and the timer's restart.                       *)
TimeInv ==
  /\ \A t \in Timers : gap[t] >= age[t] \/ (lock = "restart" /\ t = TimerOf(model))
  /\ up >= age["sleep_start"]
  /\ lock = "click" => age[TimerOf(model)] >= AutoInterval

LEMMA TimeNext ==
  ASSUME LocalTypes, TimeTypes, TimeInv, [TNext]_tvars
  PROVE  TimeTypes' /\ TimeInv'
<1> USE TimesAssumption
<1>0. TimerOf(model) \in Timers
  BY DEF TimerOf, Timers
<1>2. ASSUME UNCHANGED timeVars, lock' \notin {"click", "restart"}, lock # "restart"
      PROVE  TimeTypes' /\ TimeInv'
  BY <1>2 DEF timeVars, TimeTypes, TimeInv
<1>3. ASSUME \/ NullConitor \/ NullMove \/ MoveOnly \/ HoldStill \/ HoldFire \/ \E m \in 0 .. 2 : Fire(m)
             \/ \E tx, ty \in Offsets, a, c, d \in BOOLEAN : Aim(tx, ty, a, c, d)
      PROVE  TimeTypes' /\ TimeInv'
  <2>1. CASE \E tx, ty \in Offsets, a, c, d \in BOOLEAN : Aim(tx, ty, a, c, d)
    <3>1. UNCHANGED timeVars /\ lock = "wait" /\ (lock' = lock \/ lock' = "aimed")
      BY <2>1 DEF Aim
    <3> QED BY <3>1, <1>2
  <2>2. CASE NullConitor \/ NullMove \/ MoveOnly \/ HoldStill \/ HoldFire \/ \E m \in 0 .. 2 : Fire(m)
    <3>1. UNCHANGED timeVars /\ lock' \notin {"click", "restart"} /\ lock # "restart"
      BY <2>2 DEF NullConitor, NullMove, MoveOnly, HoldStill, HoldFire, Fire, Pass
    <3> QED BY <3>1, <1>2
  <2> QED BY <1>3, <2>1, <2>2
<1>4. ASSUME NEW key \in BOOLEAN, RefreshSleep(key) PROVE TimeTypes' /\ TimeInv'
  <2>1. lock = "aimed" /\ lock' = "fire" /\ gap' = gap
    BY <1>4 DEF RefreshSleep, Pass
  <2>2. CASE key
    BY <1>4, <2>1, <2>2 DEF RefreshSleep, TimeTypes, TimeInv
  <2>3. CASE ~key
    <3>1. up' = 0 /\ age' = [age EXCEPT !["sleep_start"] = 0]
      BY <1>4, <2>3 DEF RefreshSleep
    <3> QED BY <2>1, <3>1 DEF TimeTypes, TimeInv, Timers
  <2> QED BY <2>2, <2>3
<1>5. ASSUME NEW b \in BOOLEAN, Shoot(b) PROVE TimeTypes' /\ TimeInv'
  <2>1. lock = "shoot" /\ UNCHANGED timeVars /\ model' = model
    BY <1>5 DEF Shoot, Pass, passVars
  <2>2. age[TimerOf(model)] >= AutoInterval
    <3>1. PICK extra \in {0} \cup 0 .. AutoRandom - 1 :
            TRUE = (age[TimerOf(model)] >= AutoInterval + extra)
      BY <1>5 DEF Shoot, AutoComplete
    <3>2. age[TimerOf(model)] >= AutoInterval + extra
      BY <3>1
    <3> QED BY <3>2, <1>0 DEF TimeTypes
  <2> QED BY <2>1, <2>2 DEF timeVars, TimeTypes, TimeInv, TimerOf
<1>6. ASSUME LeftButtonClick PROVE TimeTypes' /\ TimeInv'
  <2>1. /\ lock = "click" /\ lock' = "restart" /\ model' = model /\ age' = age /\ up' = up
        /\ gap' = [gap EXCEPT ![TimerOf(model)] = 0]
    BY <1>6 DEF LeftButtonClick, Pass, passVars
  <2> QED BY <2>1, <1>0 DEF TimeTypes, TimeInv, TimerOf
<1>7. ASSUME RestartTimer PROVE TimeTypes' /\ TimeInv'
  <2>1. /\ lock = "restart" /\ lock' = "wait" /\ gap' = gap /\ up' = up
        /\ age' = [age EXCEPT ![TimerOf(model)] = 0]
    BY <1>7 DEF RestartTimer, Pass
  <2> QED BY <2>1, <1>0 DEF TimeTypes, TimeInv, Timers
<1>8. ASSUME Tick PROVE TimeTypes' /\ TimeInv'
  <2>1. /\ lock' = lock /\ model' = model /\ up' = Older(up)
        /\ age' = [t \in Timers |-> Older(age[t])] /\ gap' = [t \in Timers |-> Older(gap[t])]
    BY <1>8 DEF Tick, passVars
  <2>2. \A m, n \in 0 .. Cap : /\ Older(n) \in 0 .. Cap /\ Older(n) >= n
                               /\ m >= n => Older(m) >= Older(n)
    BY DEF Older
  <2>3. TimeTypes'
    BY <2>1, <2>2 DEF TimeTypes
  <2>4. \A t \in Timers : gap'[t] >= age'[t] \/ (lock' = "restart" /\ t = TimerOf(model)')
    BY <2>1, <2>2 DEF TimeTypes, TimeInv, TimerOf
  <2>5. up' >= age'["sleep_start"]
    BY <2>1, <2>2 DEF TimeTypes, TimeInv, Timers
  <2>6. lock' = "click" => age'[TimerOf(model)'] >= AutoInterval
    <3> SUFFICES ASSUME lock' = "click" PROVE age'[TimerOf(model)'] >= AutoInterval
      OBVIOUS
    <3>1. TimerOf(model)' = TimerOf(model)
      BY <2>1 DEF TimerOf
    <3>2. age[TimerOf(model)] >= AutoInterval /\ age[TimerOf(model)] \in 0 .. Cap
      BY <2>1, <1>0 DEF TimeTypes, TimeInv
    <3>3. age'[TimerOf(model)] = Older(age[TimerOf(model)])
      BY <2>1, <1>0
    <3> QED BY <3>1, <3>2, <3>3, <2>2
  <2> QED BY <2>3, <2>4, <2>5, <2>6 DEF TimeInv
<1>9. ASSUME Elsewhere PROVE TimeTypes' /\ TimeInv'
  BY <1>9, <1>2 DEF Elsewhere
<1>10. CASE UNCHANGED tvars
  BY <1>10 DEF tvars, timeVars, passVars, TimeTypes, TimeInv, TimerOf
<1> QED BY <1>3, <1>4, <1>5, <1>6, <1>7, <1>8, <1>9, <1>10 DEF TNext

LEMMA TimeHolds == TSpec => [](LocalTypes /\ TimeTypes /\ TimeInv)
<1>1. ASSUME TInit PROVE LocalTypes /\ MovesWithinLimit /\ TimeTypes /\ TimeInv
  <2>1. LocalTypes /\ MovesWithinLimit
    BY <1>1, LocalInit
  <2>2. TimeTypes /\ TimeInv
    BY <1>1, TimesAssumption DEF TInit, TimeTypes, TimeInv, Timers, TimerOf
  <2> QED BY <2>1, <2>2
<1> QED BY <1>1, LocalNext, TimeNext, PTL DEF TSpec

(* Locals, timers and the move way keep their types, for all offsets and    *)
(* delays (LockThread of lock-module.cpp).                                 *)
THEOREM TriggerTypes == TSpec => []TTypeOK
<1>1. LocalTypes /\ TimeTypes /\ CInv => TTypeOK
  BY DEF LocalTypes, TimeTypes, CInv, TTypeOK
<1> QED BY <1>1, TimeHolds, TriggerIsAClient, CInvHolds, PTL

(* The timers are static, read before a click and written after it; still, *)
(* two clicks of one timer are AutoInterval apart (lock-module.cpp:64).    *)
THEOREM ClicksKeepTheirDistance == TSpec => []ClicksAreSpaced
<1>1. LocalTypes /\ TimeTypes /\ TimeInv => ClicksAreSpaced
  BY TimesAssumption DEF TimeTypes, TimeInv, ClicksAreSpaced, TimerOf, Timers
<1> QED BY <1>1, TimeHolds, PTL

(* A pass that has seen the key up holds mode 2's fire (lock-module.cpp:213).*)
THEOREM ReleaseDelaysFire == TSpec => []ReleaseHoldsFire
<1>1. LocalTypes /\ TimeTypes /\ TimeInv => ReleaseHoldsFire
  BY TimesAssumption DEF TimeTypes, TimeInv, ReleaseHoldsFire, TimerOf, Timers
<1> QED BY <1>1, TimeHolds, PTL

-----------------------------------------------------------------------------
(* A session on a DLL with all of its exports calls only functions that    *)
(* are there (lock-module.cpp:53, 253; Customize of move-way.cpp).         *)
FaultInv == lock # "wait" => phase = "ready" /\ (lock = "fault" /\ fit => moveR # "custom")

LEMMA FaultNext == MonitorInv /\ FaultInv /\ [TNext]_tvars => FaultInv'
<1> SUFFICES ASSUME MonitorInv, FaultInv, [TNext]_tvars PROVE FaultInv'
  OBVIOUS
<1>1. ASSUME NullConitor \/ NullMove PROVE FaultInv'
  BY <1>1 DEF NullConitor, NullMove, Pass, FaultInv, MonitorInv, cvars, mwVars, ghosts
<1>2. ASSUME NEW tx, NEW ty, NEW a, NEW c, NEW d, Aim(tx, ty, a, c, d) PROVE FaultInv'
  <2>1. UNCHANGED cvars /\ phase = "ready" /\ (lock' = "aimed" \/ lock' = "wait")
    BY <1>2 DEF Aim
  <2> QED BY <2>1 DEF FaultInv, cvars, mwVars, ghosts
<1>3. ASSUME NEW from \in {"aimed", "fire", "shoot", "click", "restart"},
             NEW to \in {"wait", "fire", "shoot", "click", "restart"},
             Pass(from, to)
      PROVE FaultInv'
  <2>1. UNCHANGED cvars /\ lock = from /\ lock' = to
    BY <1>3 DEF Pass
  <2> QED BY <2>1 DEF FaultInv, cvars, mwVars, ghosts
<1>4. ASSUME NEW m, Fire(m) PROVE FaultInv'
  <2>1. UNCHANGED cvars /\ lock = "fire" /\ lock' = "shoot"
    BY <1>4 DEF Fire
  <2> QED BY <2>1 DEF FaultInv, cvars, mwVars, ghosts
<1>5. ASSUME Tick PROVE FaultInv'
  BY <1>5 DEF Tick, FaultInv, cvars, mwVars, ghosts
<1>6. ASSUME MoveOnly \/ HoldStill \/ HoldFire \/ LeftButtonClick \/ RestartTimer PROVE FaultInv'
  BY <1>6, <1>3 DEF MoveOnly, HoldStill, HoldFire, LeftButtonClick, RestartTimer
<1>7. ASSUME NEW key, RefreshSleep(key) \/ Shoot(key) PROVE FaultInv'
  BY <1>7, <1>3 DEF RefreshSleep, Shoot
<1>8. ASSUME Elsewhere PROVE FaultInv'
  BY <1>8 DEF Elsewhere, FaultInv
<1>9. CASE UNCHANGED tvars
  BY <1>9 DEF tvars, cvars, mwVars, ghosts, FaultInv
<1> QED
  BY <1>1, <1>2, <1>4, <1>5, <1>6, <1>7, <1>8, <1>9 DEF TNext

THEOREM DllSessionsReadKeys == TSpec => []DllSessionsDoNotFault
<1>1. TInit => MonitorInv /\ FaultInv
  BY DEF TInit, CInit, MonitorInv, FaultInv
<1>2. FaultInv => DllSessionsDoNotFault
  BY DEF FaultInv, DllSessionsDoNotFault
<1> QED BY <1>1, <1>2, FaultNext, MonitorNext, ClientStep, PTL DEF TSpec
=============================================================================
