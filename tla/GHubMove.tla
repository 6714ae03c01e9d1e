------------------------------ MODULE GHubMove ------------------------------
(***************************************************************************)
(* LGMove (src/src/move-way.cpp): a relative move of any length is sent to *)
(* the Logitech driver as packets whose x and y are a signed char each.    *)
(* Each round of its tail recursion sends one packet per axis and keeps    *)
(* the rest; the last one sends both axes at once.                         *)
(***************************************************************************)
EXTENDS Integers

CONSTANT Lengths   (* the lengths, per axis, a caller may ask for *)

ASSUME LengthsAssumption == Lengths \subseteq Int

VARIABLES
  pc,        (* "idle", "test", "stepX", "stepY": where LGMove is           *)
  x, y,      (* its arguments in this round, x_left and y_left for the next *)
  mouse_io,  (* the last packet                                             *)
  asked,     (* ghost: what the caller asked for                            *)
  moved      (* ghost: what the driver has been told to move, per axis      *)

gvars == <<pc, x, y, mouse_io, asked, moved>>

Step == 127

Abs(n) == IF n < 0 THEN -n ELSE n

(* Faulty: the sign is lost. *)
Sign_Lost(n) == 1

(* x / abs(x) for a nonzero x. *)
Sign(n) == IF n < 0 THEN -1 ELSE 1

(* The conversion of an int to MOUSE_IO's char. *)
Char(n) == ((n + 128) % 256) - 128

(* Faulty: a packet of 128, one more than a signed char holds. *)
Part_128(n) == IF Abs(n) > 128 THEN Sign(n) * 128 ELSE n

(* Faulty: the part sent is taken off twice. *)
Left_Twice(n) == IF Abs(n) > Step THEN n - Sign(n) * 2 * Step ELSE 0

(* What goes out on one axis in a round, and what is left of it. *)
Part(n) == IF Abs(n) > Step THEN Sign(n) * Step ELSE n
Left(n) == IF Abs(n) > Step THEN n - Sign(n) * Step ELSE 0

SendDrive(dx, dy) ==
  /\ mouse_io' = [dx |-> Char(dx), dy |-> Char(dy)]
  /\ moved' = [dx |-> moved.dx + Char(dx), dy |-> moved.dy + Char(dy)]

GInit ==
  /\ pc = "idle"
  /\ x = 0 /\ y = 0
  /\ mouse_io = [dx |-> 0, dy |-> 0]
  /\ asked = [dx |-> 0, dy |-> 0]
  /\ moved = [dx |-> 0, dy |-> 0]

Call(mx, my) ==
  /\ pc = "idle"
  /\ pc' = "test"
  /\ x' = mx /\ y' = my
  /\ asked' = [dx |-> mx, dy |-> my]
  /\ moved' = [dx |-> 0, dy |-> 0]
  /\ UNCHANGED mouse_io

SplitMove ==
  /\ pc = "test"
  /\ Abs(x) > Step \/ Abs(y) > Step
  /\ pc' = "stepX"
  /\ UNCHANGED <<x, y, mouse_io, asked, moved>>

StepX ==
  /\ pc = "stepX"
  /\ SendDrive(Part(x), 0)
  /\ x' = Left(x)
  /\ pc' = "stepY"
  /\ UNCHANGED <<y, asked>>

(* Faulty: the recursion does not come back to its test. *)
StepY_NoTest ==
  /\ pc = "stepY"
  /\ SendDrive(0, Part(y))
  /\ y' = Left(y)
  /\ pc' = "stepX"
  /\ UNCHANGED <<x, asked>>

StepY ==
  /\ pc = "stepY"
  /\ SendDrive(0, Part(y))
  /\ y' = Left(y)
  /\ pc' = "test"
  /\ UNCHANGED <<x, asked>>

(* Faulty: only the x axis is looked at. *)
LastMove_XOnly ==
  /\ pc = "test"
  /\ Abs(x) <= Step
  /\ SendDrive(x, y)
  /\ x' = 0 /\ y' = 0
  /\ pc' = "idle"
  /\ UNCHANGED asked

LastMove ==
  /\ pc = "test"
  /\ Abs(x) <= Step /\ Abs(y) <= Step
  /\ SendDrive(x, y)
  /\ x' = 0 /\ y' = 0
  /\ pc' = "idle"
  /\ UNCHANGED asked

GStep == SplitMove \/ StepX \/ StepY \/ LastMove

GNext == GStep \/ \E mx, my \in Lengths : Call(mx, my)

GSpec == GInit /\ [][GNext]_gvars

(* LGMove is a plain function: once called it runs. *)
GFairSpec == GSpec /\ WF_gvars(GStep)

-----------------------------------------------------------------------------
GTypeOK ==
  /\ pc \in {"idle", "test", "stepX", "stepY"}
  /\ x \in Int /\ y \in Int
  /\ mouse_io \in [dx : -127 .. 127, dy : -127 .. 127]
  /\ asked \in [dx : Int, dy : Int]
  /\ moved \in [dx : Int, dy : Int]

(* Between any two packets, what was sent and what is left add up to what  *)
(* was asked for: no packet wraps in its char, none is sent twice, nothing *)
(* is dropped when one axis ends before the other.                         *)
NothingLost ==
  /\ moved.dx + x = asked.dx
  /\ moved.dy + y = asked.dy

(* When LGMove returns, the mouse has moved by exactly what was asked.     *)
Delivered == pc = "idle" => moved = asked

(* No packet overshoots: along each axis what is left never grows and never*)
(* changes side (the cursor is not driven past the target and back).       *)
NoOvershoot ==
  [][pc # "idle" => /\ x' = 0 \/ (Sign(x') = Sign(x) /\ Abs(x') <= Abs(x))
                    /\ y' = 0 \/ (Sign(y') = Sign(y) /\ Abs(y') <= Abs(y))]_gvars

(* How many more packets LGMove will send: two for each round of the axis  *)
(* that needs more of them, and the last one for both.                     *)
Rounds(n) == IF Abs(n) > Step THEN (Abs(n) - 1) \div Step ELSE 0
Packets(m, n) == 2 * (IF Rounds(m) > Rounds(n) THEN Rounds(m) ELSE Rounds(n)) + 1
PacketsLeft ==
  CASE pc = "test"  -> Packets(x, y)
    [] pc = "stepX" -> Packets(Left(x), Left(y)) + 2
    [] pc = "stepY" -> Packets(x, Left(y)) + 1
    [] OTHER        -> 0

(* However the two axes compare, a call sends as many packets as that and  *)
(* no more: each of them, and nothing else LGMove does, takes one off the  *)
(* number (move-way.cpp:30).                                               *)
PacketsAreCounted ==
  [][pc # "idle" => PacketsLeft' = PacketsLeft - (IF pc' = "stepX" THEN 0 ELSE 1)]_gvars

(* The recursion ends for every length. *)
MoveReturns == pc # "idle" ~> pc = "idle"
=============================================================================
