-------------------------- MODULE GHubMove_proofs --------------------------
(***************************************************************************)
(* LGMove delivers a move of any length exactly.  TLC checks lengths of up *)
(* to four packets; here the length is any integer.                        *)
(***************************************************************************)
EXTENDS GHubMove, TLAPS

(* A value that fits a char is not changed by the conversion. *)
LEMMA CharFits ==
  ASSUME NEW n \in Int, -128 <= n, n <= 127
  PROVE  Char(n) = n
PROOF
  <1>1. (n + 128) % 256 = n + 128
    BY Z3
  <1> QED BY <1>1 DEF Char

(* What a round sends on an axis fits one packet and, with what it leaves, *)
(* makes up what the axis had to move; the rest is nearer to zero.         *)
LEMMA RoundSplits ==
  ASSUME NEW n \in Int
  PROVE  /\ Part(n) \in -127 .. 127 /\ Left(n) \in Int
         /\ Char(Part(n)) = Part(n)
         /\ Part(n) + Left(n) = n
         /\ Left(n) = 0 \/ (Sign(Left(n)) = Sign(n) /\ Abs(Left(n)) <= Abs(n))
PROOF
  <1>1. Part(n) \in -127 .. 127 /\ Left(n) \in Int
    BY DEF Part, Left, Abs, Sign, Step
  <1>2. Part(n) + Left(n) = n
    BY DEF Part, Left, Abs, Sign, Step
  <1>3. Left(n) = 0 \/ (Sign(Left(n)) = Sign(n) /\ Abs(Left(n)) <= Abs(n))
    BY DEF Left, Abs, Sign, Step
  <1> QED BY <1>1, <1>2, <1>3, CharFits

LEMMA ShortFits ==
  ASSUME NEW n \in Int, Abs(n) <= Step
  PROVE  Char(n) = n /\ n \in -127 .. 127
PROOF BY CharFits DEF Abs, Step

-----------------------------------------------------------------------------
GInv == GTypeOK /\ NothingLost /\ (pc = "idle" => x = 0 /\ y = 0)

LEMMA GInvStep == GInv /\ [GNext]_gvars => GInv'
PROOF
  <1> SUFFICES ASSUME GInv, [GNext]_gvars PROVE GInv'
    OBVIOUS
  <1> USE DEF GInv, GTypeOK, NothingLost
  <1>0. Char(0) = 0
    BY CharFits
  <1>1. CASE SplitMove
    BY <1>1 DEF SplitMove
  <1>2. CASE StepX
    <2>1. /\ Part(x) \in -127 .. 127 /\ Left(x) \in Int
          /\ Char(Part(x)) = Part(x) /\ Part(x) + Left(x) = x
      BY RoundSplits
    <2>2. moved'.dx = moved.dx + Part(x) /\ moved'.dy = moved.dy
      BY <1>0, <1>2, <2>1 DEF StepX, SendDrive
    <2>3. moved' \in [dx : Int, dy : Int] /\ mouse_io' \in [dx : -127 .. 127, dy : -127 .. 127]
      BY <1>0, <1>2, <2>1 DEF StepX, SendDrive
    <2> QED BY <1>2, <2>1, <2>2, <2>3 DEF StepX
  <1>3. CASE StepY
    <2>1. /\ Part(y) \in -127 .. 127 /\ Left(y) \in Int
          /\ Char(Part(y)) = Part(y) /\ Part(y) + Left(y) = y
      BY RoundSplits
    <2>2. moved'.dy = moved.dy + Part(y) /\ moved'.dx = moved.dx
      BY <1>0, <1>3, <2>1 DEF StepY, SendDrive
    <2>3. moved' \in [dx : Int, dy : Int] /\ mouse_io' \in [dx : -127 .. 127, dy : -127 .. 127]
      BY <1>0, <1>3, <2>1 DEF StepY, SendDrive
    <2> QED BY <1>3, <2>1, <2>2, <2>3 DEF StepY
  <1>4. CASE LastMove
    <2>1. Char(x) = x /\ x \in -127 .. 127 /\ Char(y) = y /\ y \in -127 .. 127
      BY <1>4, ShortFits DEF LastMove
    <2> QED BY <1>4, <2>1 DEF LastMove, SendDrive
  <1>5. ASSUME NEW mx \in Lengths, NEW my \in Lengths, Call(mx, my) PROVE GInv'
    BY <1>5, LengthsAssumption DEF Call
  <1>6. CASE UNCHANGED gvars
    BY <1>6 DEF gvars
  <1> QED BY <1>1, <1>2, <1>3, <1>4, <1>5, <1>6 DEF GNext, GStep

LEMMA GInvHolds == GSpec => []GInv
PROOF
  <1>1. GInit => GInv
    BY DEF GInit, GInv, GTypeOK, NothingLost
  <1> QED BY <1>1, GInvStep, PTL DEF GSpec

(* Every packet's fields fit the signed chars of MOUSE_IO (move-way.h:5).  *)
THEOREM PacketsFit == GSpec => []GTypeOK
PROOF BY GInvHolds, PTL DEF GInv

(* Nothing of a move is lost, doubled or wrapped, at any point of the      *)
(* recursion and for any length.                                           *)
THEOREM MoveConserved == GSpec => []NothingLost
PROOF BY GInvHolds, PTL DEF GInv

(* When LGMove is back, the driver has been told exactly what was asked.   *)
THEOREM MoveDelivered == GSpec => []Delivered
PROOF
  <1>1. GInv => Delivered
    BY DEF GInv, GTypeOK, NothingLost, Delivered
  <1> QED BY <1>1, GInvHolds, PTL

(* No packet drives the cursor past the target along an axis.              *)
THEOREM MoveDoesNotOvershoot == GSpec => NoOvershoot
PROOF
  <1>1. GInv /\ [GNext]_gvars =>
          [pc # "idle" => /\ x' = 0 \/ (Sign(x') = Sign(x) /\ Abs(x') <= Abs(x))
                          /\ y' = 0 \/ (Sign(y') = Sign(y) /\ Abs(y') <= Abs(y))]_gvars
    <2> SUFFICES ASSUME GInv, GNext, pc # "idle"
                 PROVE  /\ x' = 0 \/ (Sign(x') = Sign(x) /\ Abs(x') <= Abs(x))
                        /\ y' = 0 \/ (Sign(y') = Sign(y) /\ Abs(y') <= Abs(y))
      OBVIOUS
    <2> USE DEF GInv, GTypeOK
    <2>1. Abs(x) <= Abs(x) /\ Abs(y) <= Abs(y)
      BY DEF Abs
    <2>2. CASE SplitMove
      BY <2>1, <2>2 DEF SplitMove
    <2>3. CASE StepX
      BY <2>1, <2>3, RoundSplits DEF StepX
    <2>4. CASE StepY
      BY <2>1, <2>4, RoundSplits DEF StepY
    <2>5. CASE LastMove
      BY <2>5 DEF LastMove
    <2> QED BY <2>2, <2>3, <2>4, <2>5 DEF GNext, GStep, Call
  <1> QED BY <1>1, GInvHolds, PTL DEF GSpec, NoOvershoot

-----------------------------------------------------------------------------
(* What a round leaves needs one round less. *)
LEMMA RoundsFall ==
  ASSUME NEW n \in Int
  PROVE  /\ Rounds(n) \in Nat
         /\ Abs(n) > Step => Rounds(n) >= 1 /\ Rounds(Left(n)) = Rounds(n) - 1
         /\ Abs(n) <= Step => Rounds(n) = 0 /\ Rounds(Left(n)) = 0
PROOF
  <1>1. CASE Abs(n) <= Step
    BY <1>1 DEF Rounds, Left, Abs, Step
  <1>2. CASE Abs(n) > Step
    <2> DEFINE m == Abs(n)
    <2>1. m \in Nat /\ m > 127
      BY <1>2 DEF Abs, Step
    <2>2. Abs(Left(n)) = m - 127
      BY <1>2 DEF Abs, Left, Sign, Step
    <2>3. Rounds(n) = (m - 1) \div 127
      BY <1>2 DEF Rounds, Step
    <2>4. Rounds(Left(n)) = IF m - 127 > 127 THEN (m - 128) \div 127 ELSE 0
      BY <2>1, <2>2 DEF Rounds, Step
    <2> HIDE DEF m
    <2>5. (m - 1) \div 127 = (m - 128) \div 127 + 1 /\ (m - 128) \div 127 \in Nat
      BY <2>1, Z3
    <2>6. m - 127 <= 127 => (m - 128) \div 127 = 0
      BY <2>1, Z3
    <2>7. Rounds(n) \in Nat /\ Rounds(n) >= 1 /\ Rounds(Left(n)) = Rounds(n) - 1
      <3> DEFINE r == (m - 128) \div 127
      <3>1. r \in Nat /\ Rounds(n) = r + 1
        BY <2>3, <2>5
      <3>2. Rounds(Left(n)) = r
        BY <2>1, <2>4, <2>6
      <3> HIDE DEF r
      <3> QED BY <3>1, <3>2
    <2> QED BY <1>2, <2>7 DEF Abs, Step
  <1>3. Abs(n) <= Step \/ Abs(n) > Step
    BY DEF Abs, Step
  <1> QED BY <1>1, <1>2, <1>3

(* The number of packets a move takes is the same seen from any point of   *)
(* it, for any length: every packet LGMove sends takes one off, and        *)
(* nothing else does (move-way.cpp:30).                                    *)
THEOREM PacketsCountDown == GSpec => PacketsAreCounted
PROOF
  <1>1. GInv /\ [GNext]_gvars =>
          [pc # "idle" => PacketsLeft' = PacketsLeft - (IF pc' = "stepX" THEN 0 ELSE 1)]_gvars
    <2> SUFFICES ASSUME GInv, GNext, pc # "idle"
                 PROVE  PacketsLeft' = PacketsLeft - (IF pc' = "stepX" THEN 0 ELSE 1)
      OBVIOUS
    <2>0. x \in Int /\ y \in Int /\ Left(x) \in Int /\ Left(y) \in Int
      BY RoundSplits DEF GInv, GTypeOK
    <2>1. CASE SplitMove
      <3>1. pc = "test" /\ pc' = "stepX" /\ x' = x /\ y' = y /\ (Abs(x) > Step \/ Abs(y) > Step)
        BY <2>1 DEF SplitMove
      <3>2. Packets(Left(x), Left(y)) = Packets(x, y) - 2
        <4> DEFINE a == Rounds(x)
                   b == Rounds(y)
                   c == Rounds(Left(x))
                   d == Rounds(Left(y))
        <4>1. a \in Nat /\ b \in Nat /\ (a >= 1 \/ b >= 1)
          BY <2>0, <3>1, RoundsFall
        <4>2. c = (IF a > 0 THEN a - 1 ELSE 0) /\ d = (IF b > 0 THEN b - 1 ELSE 0)
          BY <2>0, RoundsFall DEF Abs, Step
        <4>3. Packets(x, y) = 2 * (IF a > b THEN a ELSE b) + 1
          BY DEF Packets
        <4>4. Packets(Left(x), Left(y)) = 2 * (IF c > d THEN c ELSE d) + 1
          BY DEF Packets
        <4> HIDE DEF a, b, c, d
        <4> QED BY <4>1, <4>2, <4>3, <4>4
      <3>3. Packets(x, y) \in Nat
        BY <2>0, RoundsFall DEF Packets
      <3> QED BY <3>1, <3>2, <3>3 DEF PacketsLeft
    <2>2. CASE StepX
      <3>1. pc = "stepX" /\ pc' = "stepY" /\ x' = Left(x) /\ y' = y
        BY <2>2 DEF StepX
      <3>2. Packets(Left(x), Left(y)) \in Nat
        BY <2>0, RoundsFall DEF Packets
      <3> QED BY <3>1, <3>2 DEF PacketsLeft
    <2>3. CASE StepY
      <3>1. pc = "stepY" /\ pc' = "test" /\ x' = x /\ y' = Left(y)
        BY <2>3 DEF StepY
      <3>2. Packets(x, Left(y)) \in Nat
        BY <2>0, RoundsFall DEF Packets
      <3> QED BY <3>1, <3>2 DEF PacketsLeft
    <2>4. CASE LastMove
      <3>1. pc = "test" /\ pc' = "idle" /\ Abs(x) <= Step /\ Abs(y) <= Step
        BY <2>4 DEF LastMove
      <3>2. Packets(x, y) = 1
        BY <2>0, <3>1, RoundsFall DEF Packets
      <3> QED BY <3>1, <3>2 DEF PacketsLeft
    <2> QED BY <2>1, <2>2, <2>3, <2>4 DEF GNext, GStep, Call
  <1> QED BY <1>1, GInvHolds, PTL DEF GSpec, PacketsAreCounted
=============================================================================
