------------------------------ MODULE Trigger ------------------------------
(***************************************************************************)
(* What the lock thread does with a target it has chosen (LockThread, src/ *)
(* src/lock-module.cpp from line 165 on): lead, range, control, limit and  *)
(* debounce, then a move or, with the trigger armed, a click that two      *)
(* timers hold back.  One session at a time, on any of the move ways:      *)
(* HandOff chooses the target, Session lets threads of two sessions meet.  *)
(*                                                                         *)
(* Switches of Value are read where the user may just have changed them,   *)
(* keys where he may just have pressed them: every reading is free.  A     *)
(* timer is its age, exact up to Cap, beyond which every delay is over.    *)
(***************************************************************************)
EXTENDS MoveClient

CONSTANTS
  Offsets,         (* target minus centre, per axis; also the control output*)
  Effectiverange, MaxPixels, AdvancedSize, DebounceSize,   (* as in Value   *)
  LeadWidth,       (* target_xywh.width * advanced_multiple                 *)
  HalfBox,         (* half the box's side times trigger_w, trigger_h        *)
  AutoInterval, AutoRandom,
  Cap,             (* bound: ages beyond every delay are not told apart      *)
  MaxPorts         (* bound on what is open at a time, over all devices      *)

ASSUME PixelsAssumption ==
  /\ Offsets \subseteq Int
  /\ {Effectiverange, AdvancedSize, DebounceSize, LeadWidth, HalfBox} \subseteq Nat
  /\ MaxPixels \in Int      \* an input field of sf-trt.cpp, without bounds
ASSUME TimesAssumption ==
  /\ AutoInterval \in Nat /\ AutoRandom \in Nat /\ Cap \in Nat
  /\ AutoInterval <= Cap /\ AutoInterval + AutoRandom - 1 <= Cap

VARIABLES
  lock,        (* where the lock thread is in its pass                      *)
  fame_temp,   (* frames since the last lead                                *)
  x, y,        (* what a move would be given                                *)
  onTarget,    (* ghost: the centre was within the target's box             *)
  model,       (* the copy of auto_model the switch works on                *)
  age,         (* ages of auto_start and sleep_start                        *)
  gap,         (* ghost: time since the last click each of them released    *)
  up           (* ghost: time since a pass saw the key up                   *)

passVars == <<x, y, onTarget, model>>
timeVars == <<age, gap, up>>
tvars == <<cvars, lock, fame_temp, passVars, timeVars>>

Timers == {"auto_start", "sleep_start"}

TimerOf(m) == IF m = 2 THEN "sleep_start" ELSE "auto_start"

TInit ==
  /\ CInit
  /\ lock = "wait"
  /\ fame_temp = 0
  /\ x = 0 /\ y = 0 /\ onTarget = FALSE /\ model = 0
  /\ age = [t \in Timers |-> 0]
  /\ gap = [t \in Timers |-> Cap]
  /\ up = Cap

-----------------------------------------------------------------------------
Magnitude(n) == IF n < 0 THEN -n ELSE n

(* Faulty: only what lies on the positive side is limited. *)
MaxMovePixel_OneSide(n) == IF MaxPixels > 0 /\ n > MaxPixels THEN MaxPixels ELSE n

(* MaxMovePixel, called only with a limit that is not zero.  Its second    *)
(* test reads what the first has written.                                  *)
MaxMovePixel(n) ==
  LET upper == IF n > 0 THEN MaxPixels ELSE n
  IN IF MaxPixels = 0 \/ Magnitude(n) <= MaxPixels THEN n
     ELSE IF upper < 0 THEN -MaxPixels ELSE upper

(* The lead pushes a target away from the centre, on x only. *)
Lead(n) == IF n > 0 THEN n + LeadWidth ELSE IF n < 0 THEN n - LeadWidth ELSE n

Within(n) == HalfBox > Magnitude(n)

InRange(n) == 2 * Magnitude(n) <= Effectiverange

Debounced(n) == -DebounceSize < n /\ n < DebounceSize

(* Faulty: the count goes on after a lead. *)
NextFame_NotReset(lead, advanced) == IF advanced THEN fame_temp + 1 ELSE fame_temp

NextFame(lead, advanced) ==
  IF lead THEN 0 ELSE IF advanced THEN fame_temp + 1 ELSE fame_temp

(* Lines 165-209, all on locals.  FOV and PID control are floating point:  *)
(* whatever they make of an offset is taken for possible.                  *)
Aim(tx, ty, advanced, control, debounce) ==
  LET lead == advanced /\ fame_temp >= AdvancedSize
      o == [x |-> IF lead THEN Lead(tx) ELSE tx, y |-> ty]
  IN /\ lock = "wait" /\ phase = "ready"
     /\ fame_temp' = NextFame(lead, advanced)
     /\ \E cx \in IF control THEN Offsets ELSE {o.x},
           cy \in IF control THEN Offsets ELSE {o.y} :
          LET mx == MaxMovePixel(cx)
              skip == ~InRange(o.x) \/ ~InRange(o.y) \/ (debounce /\ Debounced(mx))
          IN IF skip THEN UNCHANGED <<lock, passVars>>
             ELSE /\ x' = mx /\ y' = MaxMovePixel(cy)
                  /\ onTarget' = (Within(o.x) /\ Within(o.y))
                  /\ lock' = "aimed"
                  /\ UNCHANGED model
     /\ UNCHANGED <<cvars, timeVars>>

(* One step of a pass; its locals die with it. *)
Pass(from, to) ==
  /\ lock = from
  /\ lock' = to
  /\ IF to = "wait" THEN x' = 0 /\ y' = 0 /\ onTarget' = FALSE /\ model' = 0
                    ELSE UNCHANGED passVars
  /\ UNCHANGED <<cvars, fame_temp>>


(* IGetAsyncKeyState in BOX mode calls conitor, which no way but the       *)
(* user's DLL ever sets: a call through null ends the process.             *)
NullConitor ==
  /\ lock \in {"aimed", "fire"}
  /\ ~conitor
  /\ Pass(lock, "fault")
  /\ UNCHANGED timeVars

(* A DLL without CustomizeMove: MoveR is null, and a move through it ends   *)
(* the process.                                                            *)
NullMove ==
  /\ lock \in {"aimed", "fire"}
  /\ moveR = "null"
  /\ Pass(lock, "fault")
  /\ UNCHANGED timeVars

(* Lines 253-260: without the trigger the pass ends in a move or in none.  *)
MoveOnly == Pass("aimed", "wait") /\ UNCHANGED timeVars

(* Faulty: the delay starts when the key goes down, and is not held back.  *)
RefreshSleep_Never(key) ==
  /\ Pass("aimed", "fire")
  /\ up' = IF key THEN up ELSE 0
  /\ UNCHANGED <<age, gap>>

(* Line 213, the first of two readings of the key. *)
RefreshSleep(key) ==
  /\ Pass("aimed", "fire")
  /\ age' = IF key THEN age ELSE [age EXCEPT !["sleep_start"] = 0]
  /\ up' = IF key THEN up ELSE 0
  /\ UNCHANGED gap

(* The key is up at the second reading, or auto_model is 3. *)
HoldStill == Pass("fire", "wait") /\ UNCHANGED timeVars

(* The switch over auto_model; modes 0 and 2 move before they go on. *)
Fire(m) ==
  /\ lock = "fire"
  /\ m = 1 \/ moveR # "null"
  /\ lock' = "shoot"
  /\ model' = m
  /\ UNCHANGED <<cvars, fame_temp, x, y, onTarget, timeVars>>

(* AutoComplete may answer `done`, for one of the random delays it adds.   *)
AutoComplete(t, done) ==
  \E extra \in {0} \cup 0 .. AutoRandom - 1 : done = (age[t] >= AutoInterval + extra)

InBox == Within(x) /\ Within(y)

(* In modes 0 and 1 the timer starts again even if auto_key is up. *)
Shoot(autoKey) ==
  /\ model = 2 \/ InBox
  /\ AutoComplete(TimerOf(model), TRUE)
  /\ Pass("shoot", IF model = 2 \/ autoKey THEN "click" ELSE "restart")
  /\ UNCHANGED timeVars

HoldFire ==
  /\ ~(model = 2 \/ InBox) \/ AutoComplete(TimerOf(model), FALSE)
  /\ Pass("shoot", "wait")
  /\ UNCHANGED timeVars

LeftButtonClick ==
  /\ Pass("click", "restart")
  /\ gap' = [gap EXCEPT ![TimerOf(model)] = 0]
  /\ UNCHANGED <<age, up>>

(* Faulty: the timer is not started again after a click. *)
RestartTimer_Forgotten == Pass("restart", "wait") /\ UNCHANGED timeVars

RestartTimer ==
  /\ Pass("restart", "wait")
  /\ age' = [age EXCEPT ![TimerOf(model)] = 0]
  /\ UNCHANGED <<gap, up>>

-----------------------------------------------------------------------------
Older(n) == IF n < Cap THEN n + 1 ELSE n

Tick ==
  /\ lock # "fault" /\ phase # "gone"
  /\ age' = [t \in Timers |-> Older(age[t])]
  /\ gap' = [t \in Timers |-> Older(gap[t])]
  /\ up' = Older(up)
  /\ UNCHANGED <<cvars, lock, fame_temp, passVars>>

(* The rest of the program: a session starts with a new LockThread and its *)
(* new locals (the timers are static and stay), and ends between passes.   *)
Elsewhere ==
  /\ CNext
  /\ ports'["ghub"] + ports'["yjs"] + ports'["custom"] <= MaxPorts
  /\ lock = "wait"
  /\ fame_temp' = IF phase = "idle" THEN 0 ELSE fame_temp
  /\ UNCHANGED <<lock, passVars, timeVars>>

TNext ==
  \/ \E tx, ty \in Offsets, a, c, d \in BOOLEAN : Aim(tx, ty, a, c, d)
  \/ NullConitor
  \/ NullMove
  \/ MoveOnly
  \/ \E key \in BOOLEAN : RefreshSleep(key)
  \/ HoldStill
  \/ \E m \in 0 .. 2 : Fire(m)
  \/ \E autoKey \in BOOLEAN : Shoot(autoKey)
  \/ HoldFire
  \/ LeftButtonClick
  \/ RestartTimer
  \/ Tick
  \/ Elsewhere

TSpec == TInit /\ [][TNext]_tvars

-----------------------------------------------------------------------------
TTypeOK ==
  /\ CTypeOK
  /\ lock \in {"wait", "aimed", "fire", "shoot", "click", "restart", "fault"}
  /\ fame_temp \in 0 .. AdvancedSize
  /\ x \in Int /\ y \in Int
  /\ onTarget \in BOOLEAN
  /\ model \in 0 .. 2
  /\ age \in [Timers -> 0 .. Cap]
  /\ gap \in [Timers -> 0 .. Cap]
  /\ up \in 0 .. Cap

(* Two automatic clicks released by one timer are AutoInterval apart, even *)
(* across sessions and changes of the mode, although the timer is read     *)
(* before the click and written after it.                                  *)
ClicksAreSpaced == lock = "click" => gap[TimerOf(model)] >= AutoInterval

(* In mode 2 ("a fixed delay") a pass that has seen the key up holds the   *)
(* fire for AutoInterval, whatever was selected when it did.               *)
ReleaseHoldsFire == lock = "click" /\ model = 2 => up >= AutoInterval

(* Once aimed, no axis of a move is longer than the limit, whatever lead   *)
(* and control have made of the target's offset, and whatever sign the     *)
(* user has given the limit.                                               *)
MovesWithinLimit ==
  MaxPixels # 0 /\ lock # "wait" =>
    {Magnitude(x), Magnitude(y)} \subseteq 0 .. Magnitude(MaxPixels)

(* A session on a DLL with all of its exports calls through no null        *)
(* pointer, neither conitor nor MoveR: whatever attempts to load a DLL     *)
(* have failed before, only sessions on another way do, with BOX selected. *)
DllSessionsDoNotFault == lock = "fault" /\ fit => moveR # "custom"

(* What sf-trt.cpp:293 tells the user of mode 1: it does not move and      *)
(* shoots within the target's range.                                       *)
ShootsWithinTheTarget ==
  lock = "click" /\ model = 1 => onTarget
=============================================================================
