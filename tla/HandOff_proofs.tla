--------------------------- MODULE HandOff_proofs ---------------------------
(***************************************************************************)
(* The vectors Postprocess publishes belong together, and a pass of the    *)
(* lock thread that nobody disturbs aims at the nearest target, for any    *)
(* number of detections, distances and classes.                            *)
(***************************************************************************)
EXTENDS HandOff, SequenceTheorems, WellFoundedInduction, TLAPS

(* What the vectors have in common at each line of Postprocess. *)
VectorsInv ==
  /\ boxes \in Seq(Distances) /\ classes \in Seq(ClassIds)
  /\ writer \in {"idle", "clearClasses", "clearIndices", "push", "pushClass", "signal"}
  /\ writer = "clearClasses" => boxes = <<>>
  /\ writer = "clearIndices" => boxes = <<>> /\ classes = <<>>
  /\ writer = "push" => Len(boxes) = Len(classes)
  /\ writer = "pushClass" => Len(boxes) = Len(classes) + 1
  /\ PublishedIsConsistent

(* Every index suppression keeps is one of a box. *)
LEMMA KeptIndexesBoxes ==
  ASSUME NEW n \in Nat, NEW s \in Kept(n), NEW k \in DOMAIN s
  PROVE  s[k] \in 1 .. n
PROOF BY DEF Kept

LEMMA VectorsStep == VectorsInv /\ [HNext]_hvars => VectorsInv'
PROOF
  <1> SUFFICES ASSUME VectorsInv, [HNext]_hvars PROVE VectorsInv'
    OBVIOUS
  <1> USE DEF VectorsInv, PublishedIsConsistent, WriterStep, process, writerVars
  <1>1. CASE ClearBoxes
    BY <1>1 DEF ClearBoxes
  <1>2. CASE ClearClasses
    BY <1>2 DEF ClearClasses
  <1>3. CASE ClearIndices
    BY <1>3 DEF ClearIndices
  <1>4. CASE SkipAnchor
    BY <1>4 DEF SkipAnchor
  <1>5. CASE PushBox
    BY <1>5 DEF PushBox
  <1>6. CASE PushClass
    BY <1>6 DEF PushClass
  <1>7. CASE NMSBoxes
    <2>1. \A k \in DOMAIN indices' : indices'[k] \in 1 .. Len(boxes)
      BY <1>7, KeptIndexesBoxes DEF NMSBoxes
    <2>2. DOMAIN boxes = 1 .. Len(boxes)
      OBVIOUS
    <2> QED BY <1>7, <2>1, <2>2 DEF NMSBoxes
  <1>8. CASE SetLockEvent
    BY <1>8 DEF SetLockEvent
  <1>9. CASE TickClasses \/ TickClass \/ ReaderNext \/ UNCHANGED hvars
    <2>1. UNCHANGED <<boxes, classes, indices, writer>>
      BY <1>9 DEF TickClasses, TickClass, ReaderNext, LockWake, SelectStart, Scan, Choose,
         ReadTarget, Move, KeepWriter, hvars
    <2> QED BY <2>1
  <1> QED
    BY <1>1, <1>2, <1>3, <1>4, <1>5, <1>6, <1>7, <1>8, <1>9 DEF HNext, WriterNext

(* At every signal, and until the next frame begins, each index Process    *)
(* holds has its box and its class.                                        *)
THEOREM SignalledVectorsMatch == HSpec => []PublishedIsConsistent
PROOF
  <1>1. HInit => VectorsInv
    BY DEF HInit, VectorsInv, PublishedIsConsistent
  <1>2. VectorsInv => PublishedIsConsistent
    BY DEF VectorsInv
  <1> QED BY <1>1, <1>2, VectorsStep, PTL DEF HSpec

-----------------------------------------------------------------------------
(* Types.  A detection half pushed has still to be counted. *)
DataTypes ==
  /\ boxes \in Seq(Distances) /\ classes \in Seq(ClassIds) /\ indices \in Seq(Nat)
  /\ writer \in {"idle", "clearClasses", "clearIndices", "push", "pushClass", "signal"}
  /\ left \in 0 .. Anchors /\ (writer = "pushClass" => left > 0)
  /\ i \in Nat
  /\ local \in Seq(Nat \X Distances)
  /\ idx \in Nat /\ aimed \in Nat
FlagTypes ==
  /\ signalled \in BOOLEAN
  /\ ModelClasses \in BOOLEAN /\ enabled \subseteq Selectable
  /\ reader \in {"wait", "select", "scan", "use", "aim", "fault"}
  /\ category \in BOOLEAN
  /\ quiet \in BOOLEAN
HandTypes == DataTypes /\ FlagTypes

LEMMA PairParts ==
  ASSUME NEW p \in Nat \X Distances
  PROVE  p[1] \in Nat /\ p[2] \in Nat /\ p[2] \in Distances
PROOF BY DistancesAssumption

LEMMA LeastNatural ==
  ASSUME NEW T, T \subseteq Nat, T # {}
  PROVE  \E m \in T : \A n \in T : m <= n
PROOF
  <1>1. IsWellFoundedOn(OpToRel(<, Nat), Nat)
    BY NatLessThanWellFounded
  <1>2. PICK m \in T : \A n \in T : ~(<<n, m>> \in OpToRel(<, Nat))
    BY <1>1, WFMin
  <1>3. \A n \in T : ~(n < m)
    BY <1>2 DEF OpToRel
  <1> QED BY <1>3

(* std::min_element: there is a smallest distance, and a first position    *)
(* that has it.                                                            *)
LEMMA NearestIsLeast ==
  ASSUME local \in Seq(Nat \X Distances), local # <<>>
  PROVE  /\ Nearest \in DOMAIN local
         /\ \A m \in DOMAIN local : local[Nearest][2] <= local[m][2]
PROOF
  <1> DEFINE D == {local[n][2] : n \in DOMAIN local}
  <1>0. Len(local) \in Nat \ {0} /\ DOMAIN local = 1 .. Len(local)
    BY LenProperties, EmptySeq
  <1>1. \A n \in DOMAIN local : local[n][2] \in Nat /\ n \in Nat
    <2> TAKE n \in DOMAIN local
    <2>1. local[n] \in Nat \X Distances
      BY <1>0, ElementOfSeq
    <2>2. local[n][2] \in Nat
      BY <2>1, PairParts
    <2>3. n \in Nat
      BY <1>0
    <2> QED BY <2>2, <2>3
  <1>2. 1 \in DOMAIN local
    BY <1>0
  <1>3. PICK d \in D : \A e \in D : d <= e
    <2>1. D \subseteq Nat /\ D # {}
      BY <1>1, <1>2
    <2> QED BY <2>1, LeastNatural
  <1> DEFINE F == {n \in DOMAIN local : local[n][2] = d}
  <1>4. PICK f \in F : \A n \in F : f <= n
    <2>1. F \subseteq Nat /\ F # {}
      BY <1>1
    <2> QED BY <2>1, LeastNatural
  <1>5. \A m \in DOMAIN local : local[f][2] <= local[m][2]
    BY <1>3
  <1>6. ASSUME NEW m \in 1 .. f - 1 PROVE local[f][2] < local[m][2]
    <2>1. m \in DOMAIN local
      BY <1>0, <1>1, <1>4
    <2>2. m \notin F
      BY <1>1, <1>4
    <2> QED BY <2>1, <2>2, <1>1, <1>5
  <1> QED BY <1>4, <1>5, <1>6 DEF Nearest

LEMMA DataStep == HandTypes /\ [HNext]_hvars => DataTypes'
PROOF
  <1> SUFFICES ASSUME DataTypes, [HNext]_hvars PROVE DataTypes'
    BY DEF HandTypes
  <1> USE DEF DataTypes
  <1>1. CASE WriterNext
    <2> USE DEF WriterStep, process, readerVars
    <2>1. CASE ClearBoxes
      BY <2>1 DEF ClearBoxes
    <2>2. CASE ClearClasses
      BY <2>2 DEF ClearClasses
    <2>3. CASE ClearIndices
      BY <2>3, AnchorsAssumption DEF ClearIndices
    <2>4. CASE SkipAnchor
      BY <2>4, AnchorsAssumption DEF SkipAnchor
    <2>5. CASE PushBox
      BY <2>5 DEF PushBox
    <2>6. CASE PushClass
      BY <2>6, AnchorsAssumption DEF PushClass
    <2>7. CASE NMSBoxes
      <3>1. indices' \in Seq(Nat)
        <4>1. Len(boxes) \in Nat /\ indices' \in Kept(Len(boxes))
          BY <2>7 DEF NMSBoxes
        <4>2. PICK k \in 0 .. Len(boxes) : indices' \in [1 .. k -> 1 .. Len(boxes)]
          BY <4>1, Zenon DEF Kept
        <4>3. k \in Nat /\ indices' \in [1 .. k -> Nat]
          BY <4>1, <4>2
        <4> QED BY <4>3, SeqDef
      <3> QED BY <2>7, <3>1 DEF NMSBoxes
    <2>8. CASE SetLockEvent
      BY <2>8 DEF SetLockEvent
    <2> QED BY <1>1, <2>1, <2>2, <2>3, <2>4, <2>5, <2>6, <2>7, <2>8 DEF WriterNext
  <1>2. CASE TickClasses \/ TickClass
    BY <1>2 DEF TickClasses, TickClass, process, writerVars, readerVars
  <1>3. CASE ReaderNext
    <2> USE DEF KeepWriter, process, writerVars
    <2>0. UNCHANGED <<boxes, classes, indices, writer, left>>
      BY <1>3 DEF ReaderNext, LockWake, SelectStart, Scan, Choose, ReadTarget, Move
    <2>t. SUFFICES i' \in Nat /\ local' \in Seq(Nat \X Distances) /\ idx' \in Nat /\ aimed' \in Nat
      BY <2>0
    <2>1. CASE LockWake \/ SelectStart \/ Move
      <3>1. aimed' = aimed /\ idx' = idx /\ (i' = i \/ i' = 1) /\ (local' = local \/ local' = <<>>)
        BY <2>1 DEF LockWake, SelectStart, Move
      <3>2. i' \in Nat
        BY <3>1
      <3>3. <<>> \in Seq(Nat \X Distances)
        BY EmptySeq, Zenon
      <3>4. local' \in Seq(Nat \X Distances)
        BY <3>1, <3>3, Zenon
      <3> QED BY <3>1, <3>2, <3>4
    <2>2. CASE Scan
      <3>1. i + 1 \in Nat
        OBVIOUS
      <3>2. indices[i] \in DOMAIN boxes => indices[i] \in Nat /\ boxes[indices[i]] \in Distances
        <4>1. DOMAIN boxes = 1 .. Len(boxes)
          BY LenProperties
        <4> QED BY <4>1, ElementOfSeq
      <3>3. /\ aimed' = aimed /\ idx' = idx /\ (i' = i \/ i' = i + 1)
            /\ \/ local' = local
               \/ /\ indices[i] \in DOMAIN boxes
                  /\ local' = Append(local, <<indices[i], boxes[indices[i]]>>)
        BY <2>2 DEF Scan
      <3>4. local' \in Seq(Nat \X Distances)
        <4>1. indices[i] \in DOMAIN boxes => <<indices[i], boxes[indices[i]]>> \in Nat \X Distances
          BY <3>2
        <4>2. CASE local' = local
          BY <4>2
        <4>3. CASE local' # local
          <5>1. /\ <<indices[i], boxes[indices[i]]>> \in Nat \X Distances
                /\ local' = Append(local, <<indices[i], boxes[indices[i]]>>)
            BY <3>3, <4>1, <4>3
          <5>2. \A p \in Nat \X Distances : Append(local, p) \in Seq(Nat \X Distances)
            BY AppendProperties
          <5> QED BY <5>1, <5>2, Zenon
        <4> QED BY <4>2, <4>3
      <3> QED BY <3>1, <3>3, <3>4
    <2>3. CASE Choose
      <3>1. local # <<>> => local[Nearest][1] \in Nat
        <4>1. local # <<>> => Nearest \in 1 .. Len(local)
          BY NearestIsLeast, LenProperties
        <4>2. local # <<>> => local[Nearest] \in Nat \X Distances
          BY <4>1, ElementOfSeq
        <4> QED BY <4>2
      <3>2. /\ aimed' = aimed /\ i' = i /\ local' = local
            /\ \/ idx' = idx
               \/ local # <<>> /\ idx' = local[Nearest][1]
               \/ Nearest \in DOMAIN indices /\ idx' = indices[Nearest]
        BY <2>3 DEF Choose
      <3>3. Nearest \in DOMAIN indices => indices[Nearest] \in Nat
        OBVIOUS
      <3>4. idx' \in Nat
        BY <3>1, <3>2, <3>3
      <3> QED BY <3>2, <3>4
    <2>4. CASE ReadTarget
      <3>1. /\ idx' = idx /\ i' = i /\ local' = local
            /\ aimed' = aimed \/ (idx \in DOMAIN boxes /\ aimed' = boxes[idx])
        BY <2>4 DEF ReadTarget
      <3>2. idx \in DOMAIN boxes => boxes[idx] \in Distances
        BY ElementOfSeq, LenProperties
      <3>3. aimed' \in Nat
        <4>1. CASE aimed' = aimed
          BY <4>1
        <4>2. CASE idx \in DOMAIN boxes /\ aimed' = boxes[idx]
          BY <4>2, <3>2, DistancesAssumption
        <4> QED BY <3>1, <4>1, <4>2
      <3> QED BY <3>1, <3>3
    <2> QED BY <1>3, <2>1, <2>2, <2>3, <2>4 DEF ReaderNext
  <1>4. CASE UNCHANGED hvars
    BY <1>4 DEF hvars, process, writerVars, readerVars
  <1> QED BY <1>1, <1>2, <1>3, <1>4 DEF HNext

LEMMA FlagStep == HandTypes /\ [HNext]_hvars => FlagTypes'
PROOF
  <1> SUFFICES ASSUME FlagTypes, [HNext]_hvars PROVE FlagTypes'
    BY DEF HandTypes
  <1> USE DEF FlagTypes, readerVars, settings
  <1>1. CASE WriterNext
    BY <1>1 DEF WriterNext, ClearBoxes, ClearClasses, ClearIndices, SkipAnchor, PushBox, PushClass,
                NMSBoxes, SetLockEvent, WriterStep
  <1>2. CASE TickClasses \/ TickClass
    BY <1>2 DEF TickClasses, TickClass
  <1>3. CASE ReaderNext
    <2>1. quiet' \in BOOLEAN
      BY <1>3 DEF ReaderNext, LockWake, SelectStart, Scan, Choose, ReadTarget, Move
    <2>2. signalled' \in BOOLEAN /\ category' \in BOOLEAN
      BY <1>3 DEF ReaderNext, LockWake, SelectStart, Scan, Choose, ReadTarget, Move
    <2>3. reader' \in {"wait", "select", "scan", "use", "aim", "fault"}
      BY <1>3 DEF ReaderNext, LockWake, SelectStart, Scan, Choose, ReadTarget, Move
    <2>4. UNCHANGED settings
      BY <1>3 DEF ReaderNext, LockWake, SelectStart, Scan, Choose, ReadTarget, Move, KeepWriter
    <2> QED BY <2>1, <2>2, <2>3, <2>4
  <1>4. CASE UNCHANGED hvars
    BY <1>4 DEF hvars
  <1> QED BY <1>1, <1>2, <1>3, <1>4 DEF HNext

LEMMA TypesHold == HSpec => []HandTypes
PROOF
  <1>1. HInit => DataTypes
    BY AnchorsAssumption DEF HInit, DataTypes
  <1>2. HInit => FlagTypes
    BY DEF HInit, FlagTypes
  <1> QED BY <1>1, <1>2, DataStep, FlagStep, PTL DEF HSpec, HandTypes

(* Vectors, event, settings and the lock thread's copies keep their types  *)
(* under any interleaving (framework.h:5, lock-module.cpp:106).            *)
THEOREM HandOffTypes == HSpec => []HTypeOK
PROOF
  <1>1. HandTypes => HTypeOK
    BY DEF HandTypes, DataTypes, FlagTypes, HTypeOK
  <1> QED BY <1>1, TypesHold, PTL

-----------------------------------------------------------------------------
(* A quiet pass.  What its local vector holds after i - 1 turns: the pair  *)
(* of each index so far that is wanted, and, with classes unused, every    *)
(* pair at the index's own position, which Choose relies on.               *)
Wanted(k) == category => classes[k] \in enabled
Pair(m) == <<indices[m], boxes[indices[m]]>>
Best(k) == k \in Eligible /\ \A m \in Eligible : boxes[k] <= boxes[m]

ScanSoFar ==
  /\ i \in 1 .. Len(indices) + 1
  /\ \A n \in DOMAIN local : \E m \in 1 .. i - 1 : Wanted(indices[m]) /\ local[n] = Pair(m)
  /\ \A m \in 1 .. i - 1 : Wanted(indices[m]) => \E n \in DOMAIN local : local[n] = Pair(m)
  /\ ~category => Len(local) = i - 1 /\ \A m \in 1 .. i - 1 : local[m] = Pair(m)

QuietPass ==
  /\ writer = "idle"
  /\ reader # "fault"
  /\ reader \in {"select", "scan"} => indices # <<>>
  /\ reader = "scan" => ScanSoFar
  /\ reader \in {"use", "aim"} => Best(idx)
  /\ reader = "aim" => aimed = boxes[idx]
QuietInv == quiet => QuietPass

PassInv == HandTypes /\ VectorsInv /\ QuietInv

LEMMA EligibleAreWanted ==
  ASSUME HandTypes
  PROVE  \A k : k \in Eligible <=> \E m \in DOMAIN indices : k = indices[m] /\ Wanted(indices[m])
PROOF
  <1>1. \A c : c \in enabled \cap Selectable <=> c \in enabled
    BY DEF HandTypes, FlagTypes
  <1> QED BY <1>1, Zenon DEF Eligible, Wanted

(* While a quiet pass runs, an index read from the vector has its box and  *)
(* its class.                                                              *)
LEMMA QuietIndex ==
  ASSUME VectorsInv, writer = "idle", NEW m \in DOMAIN indices
  PROVE  indices[m] \in DOMAIN boxes /\ indices[m] \in DOMAIN classes
PROOF
  <1>1. Len(boxes) = Len(classes) /\ indices[m] \in DOMAIN boxes
    BY DEF VectorsInv, PublishedIsConsistent
  <1>2. DOMAIN boxes = 1 .. Len(boxes) /\ DOMAIN classes = 1 .. Len(classes)
    BY LenProperties DEF VectorsInv
  <1> QED BY <1>1, <1>2

(* The end of the loop: a wanted index is in the local vector, so its      *)
(* nearest entry is the best of all.                                       *)
LEMMA NearestIsBest ==
  ASSUME HandTypes, ScanSoFar, i > Len(indices), local # <<>>, indices \in Seq(Nat)
  PROVE  /\ Nearest \in DOMAIN local
         /\ Best(local[Nearest][1])
         /\ ~category => Nearest \in DOMAIN indices /\ local[Nearest] = Pair(Nearest)
PROOF
  <1>0. DOMAIN indices = 1 .. i - 1 /\ i - 1 = Len(indices)
    BY LenProperties DEF ScanSoFar
  <1>1. /\ Nearest \in DOMAIN local
        /\ \A m \in DOMAIN local : local[Nearest][2] <= local[m][2]
    BY NearestIsLeast DEF HandTypes, DataTypes
  <1>2. PICK m \in DOMAIN indices : Wanted(indices[m]) /\ local[Nearest] = Pair(m)
    BY <1>0, <1>1 DEF ScanSoFar
  <1>3. local[Nearest][1] = indices[m] /\ local[Nearest][2] = boxes[indices[m]]
    BY <1>2 DEF Pair
  <1>4. local[Nearest][1] \in Eligible
    BY <1>2, <1>3, EligibleAreWanted
  <1>5. ASSUME NEW k \in Eligible PROVE boxes[local[Nearest][1]] <= boxes[k]
    <2>1. PICK a \in DOMAIN indices : k = indices[a] /\ Wanted(indices[a])
      BY <1>5, EligibleAreWanted
    <2>2. PICK n \in DOMAIN local : local[n] = Pair(a)
      BY <1>0, <2>1 DEF ScanSoFar
    <2>3. local[n][2] = boxes[k]
      BY <2>1, <2>2 DEF Pair
    <2> QED BY <1>1, <1>3, <2>3
  <1>6. ASSUME ~category PROVE Nearest \in DOMAIN indices /\ local[Nearest] = Pair(Nearest)
    <2>1. Len(local) = i - 1 /\ \A a \in 1 .. i - 1 : local[a] = Pair(a)
      BY <1>6 DEF ScanSoFar
    <2>2. DOMAIN local = 1 .. Len(local)
      BY LenProperties DEF HandTypes, DataTypes
    <2> QED BY <1>0, <1>1, <2>1, <2>2
  <1> QED BY <1>1, <1>4, <1>5, <1>6 DEF Best

(* One turn of the loop. *)
LEMMA ScanKeeps ==
  ASSUME PassInv, quiet, Scan
  PROVE  reader' = "scan" /\ ScanSoFar'
PROOF
  <1> DEFINE k == indices[i]
  <1>1. /\ writer = "idle" /\ ScanSoFar /\ i \in DOMAIN indices /\ i \in Nat
        /\ reader = "scan" /\ DOMAIN indices = 1 .. Len(indices)
    BY LenProperties DEF Scan, PassInv, QuietInv, QuietPass, HandTypes, DataTypes, ScanSoFar
  <1>2. k \in DOMAIN boxes /\ k \in DOMAIN classes
    BY <1>1, QuietIndex DEF PassInv
  <1>3. /\ UNCHANGED <<boxes, classes, indices, category, enabled>>
        /\ reader' = reader /\ i' = i + 1
        /\ local' = IF Wanted(k) THEN Append(local, Pair(i)) ELSE local
    BY <1>2 DEF Scan, KeepWriter, process, settings, Wanted, Pair
  <1>4. /\ \A m : Pair(m)' = Pair(m)
        /\ \A m : Wanted(indices[m])' <=> Wanted(indices[m])
    BY <1>3 DEF Pair, Wanted
  <1>5. local \in Seq(Nat \X Distances) /\ DOMAIN local = 1 .. Len(local) /\ Len(local) \in Nat
    BY LenProperties DEF PassInv, HandTypes, DataTypes
  <1>6. i' \in 1 .. Len(indices') + 1 /\ i' - 1 = i /\ 1 .. i = (1 .. i - 1) \cup {i}
    BY <1>1, <1>3, LenProperties DEF PassInv, HandTypes, DataTypes
  <1>7. CASE Wanted(k)
    <2>0. Pair(i) \in Nat \X Distances
      <3>1. k \in Nat /\ boxes[k] \in Distances
        <4>1. DOMAIN boxes = 1 .. Len(boxes)
          BY LenProperties DEF PassInv, HandTypes, DataTypes
        <4> QED BY <4>1, <1>2, ElementOfSeq DEF PassInv, HandTypes, DataTypes
      <3> QED BY <3>1 DEF Pair
    <2>1. /\ local' = Append(local, Pair(i)) /\ DOMAIN local' = (DOMAIN local) \cup {Len(local) + 1}
          /\ Len(local') = Len(local) + 1
          /\ local'[Len(local) + 1] = Pair(i)
          /\ \A n \in DOMAIN local : local'[n] = local[n]
      <3> DEFINE next == Append(local, Pair(i))
      <3>1. local' = next
        BY <1>3, <1>7
      <3>2. /\ next \in Seq(Nat \X Distances) /\ Len(next) = Len(local) + 1
            /\ \A n \in 1 .. Len(local) : next[n] = local[n]
            /\ next[Len(local) + 1] = Pair(i)
        BY <1>5, <2>0, AppendProperties
      <3>3. DOMAIN next = 1 .. Len(next)
        BY <3>2, LenProperties
      <3> HIDE DEF next
      <3>4. DOMAIN next = (DOMAIN local) \cup {Len(local) + 1}
        BY <1>5, <3>2, <3>3
      <3>5. \A n \in DOMAIN local : next[n] = local[n]
        BY <1>5, <3>2
      <3> QED BY <3>1, <3>2, <3>4, <3>5 DEF next
    <2>2. ASSUME NEW n \in DOMAIN local'
          PROVE  \E m \in 1 .. i : Wanted(indices[m]) /\ local'[n] = Pair(m)
      <3>1. CASE n \in DOMAIN local
        BY <3>1, <1>1, <1>6, <2>1 DEF ScanSoFar
      <3>2. CASE n = Len(local) + 1
        BY <3>2, <1>6, <1>7, <2>1
      <3> QED BY <2>1, <3>1, <3>2
    <2>3. ASSUME NEW m \in 1 .. i, Wanted(indices[m])
          PROVE  \E n \in DOMAIN local' : local'[n] = Pair(m)
      <3>1. CASE m \in 1 .. i - 1
        BY <3>1, <1>1, <2>1, <2>3 DEF ScanSoFar
      <3>2. CASE m = i
        BY <3>2, <2>1
      <3> QED BY <1>6, <3>1, <3>2
    <2>4. ASSUME ~category PROVE Len(local') = i /\ \A m \in 1 .. i : local'[m] = Pair(m)
      <3>1. Len(local) = i - 1 /\ \A m \in 1 .. i - 1 : local[m] = Pair(m)
        BY <1>1, <2>4 DEF ScanSoFar
      <3>2. Len(local') = i /\ DOMAIN local = 1 .. i - 1 /\ local'[i] = Pair(i)
        BY <1>1, <1>5, <2>1, <3>1
      <3>3. \A m \in 1 .. i - 1 : local'[m] = Pair(m)
        BY <2>1, <3>1, <3>2
      <3> QED BY <1>6, <3>2, <3>3
    <2>5. \A n \in DOMAIN local' : \E m \in 1 .. i' - 1 : Wanted(indices[m])' /\ local'[n] = Pair(m)'
      BY <1>4, <1>6, <2>2
    <2>6. \A m \in 1 .. i' - 1 : Wanted(indices[m])' => \E n \in DOMAIN local' : local'[n] = Pair(m)'
      BY <1>4, <1>6, <2>3
    <2>7. ~category' => Len(local') = i' - 1 /\ \A m \in 1 .. i' - 1 : local'[m] = Pair(m)'
      BY <1>3, <1>4, <1>6, <2>4
    <2> QED BY <1>1, <1>3, <1>6, <2>5, <2>6, <2>7 DEF ScanSoFar
  <1>8. CASE ~Wanted(k)
    <2>1. local' = local /\ category
      BY <1>3, <1>8 DEF Wanted
    <2>2. ASSUME NEW n \in DOMAIN local
          PROVE  \E m \in 1 .. i : Wanted(indices[m]) /\ local[n] = Pair(m)
      BY <1>1, <1>6 DEF ScanSoFar
    <2>3. ASSUME NEW m \in 1 .. i, Wanted(indices[m])
          PROVE  \E n \in DOMAIN local : local[n] = Pair(m)
      BY <1>1, <1>6, <1>8, <2>3 DEF ScanSoFar
    <2> QED BY <1>1, <1>3, <1>4, <1>6, <2>1, <2>2, <2>3 DEF ScanSoFar
  <1> QED BY <1>7, <1>8

(* The choice after the loop. *)
LEMMA ChooseIsBest ==
  ASSUME PassInv, quiet, Choose
  PROVE  /\ reader' \in {"wait", "use"}
         /\ reader' = "use" => Best(idx')
         /\ reader' = "wait" => Eligible = {}
PROOF
  <1>1. /\ reader = "scan" /\ i > Len(indices) /\ ScanSoFar /\ HandTypes /\ indices # <<>>
        /\ indices \in Seq(Nat)
    BY DEF Choose, PassInv, QuietInv, QuietPass, HandTypes, DataTypes
  <1>2. DOMAIN indices = 1 .. i - 1 /\ i - 1 = Len(indices) /\ Len(indices) # 0
    BY <1>1, LenProperties, EmptySeq DEF ScanSoFar
  <1>3. local # <<>> => /\ Best(local[Nearest][1])
                        /\ ~category => /\ Nearest \in DOMAIN indices
                                        /\ local[Nearest][1] = indices[Nearest]
    BY <1>1, NearestIsBest DEF Pair
  <1>4. ASSUME ~category PROVE local # <<>>
    <2>1. Len(local) # 0
      BY <1>1, <1>2, <1>4 DEF ScanSoFar
    <2> QED BY <2>1, EmptySeq
  <1>5. ASSUME local = <<>> PROVE Eligible = {}
    <2>1. \A m \in DOMAIN indices : ~Wanted(indices[m])
      <3>1. DOMAIN local = {}
        BY <1>5
      <3> QED BY <3>1, <1>1, <1>2 DEF ScanSoFar
    <2> QED BY <2>1, <1>1, EligibleAreWanted
  <1>6. CASE category
    <2>1. \/ local = <<>> /\ reader' = "wait"
          \/ local # <<>> /\ reader' = "use" /\ idx' = local[Nearest][1]
      BY <1>6 DEF Choose
    <2> QED BY <2>1, <1>3, <1>5
  <1>7. CASE ~category
    <2>1. Nearest \in DOMAIN indices => reader' = "use" /\ idx' = indices[Nearest]
      BY <1>7 DEF Choose
    <2> QED BY <2>1, <1>3, <1>4, <1>7
  <1> QED BY <1>6, <1>7

LEMMA QuietStep == PassInv /\ [HNext]_hvars => QuietInv'
PROOF
  <1> SUFFICES ASSUME PassInv, [HNext]_hvars, quiet' PROVE QuietPass'
    BY DEF QuietInv
  <1>a. ASSUME UNCHANGED <<boxes, classes, indices, category, enabled>>
        PROVE  Eligible' = Eligible /\ \A k : Best(k)' <=> Best(k)
    BY <1>a DEF Eligible, Best
  <1>b. ASSUME UNCHANGED <<process, writer, readerVars, enabled, quiet>> PROVE QuietPass'
    BY <1>a, <1>b DEF PassInv, QuietInv, QuietPass, ScanSoFar, Wanted, Pair, process, readerVars
  <1>1. CASE WriterNext
    <2>1. writer = "signal" /\ quiet
      BY <1>1 DEF WriterNext, ClearBoxes, ClearClasses, ClearIndices, SkipAnchor, PushBox, PushClass,
         NMSBoxes, SetLockEvent, WriterStep
    <2> QED BY <2>1 DEF PassInv, QuietInv, QuietPass
  <1>2. CASE TickClasses
    BY <1>2, <1>b DEF TickClasses, writerVars
  <1>3. CASE TickClass
    BY <1>3 DEF TickClass
  <1>4. CASE LockWake
    <2>1. writer = "idle"
      BY <1>4, Zenon DEF LockWake
    <2>2. reader' = (IF indices = <<>> THEN "wait" ELSE "select") /\ UNCHANGED <<indices, writer>>
      BY <1>4 DEF LockWake, KeepWriter, process, writerVars
    <2> QED BY <2>1, <2>2 DEF QuietPass
  <1>5. CASE SelectStart
    <2>1. /\ quiet /\ reader = "select" /\ reader' = "scan" /\ i' = 1 /\ local' = <<>>
          /\ UNCHANGED <<indices, writer>>
      BY <1>5 DEF SelectStart, KeepWriter, process, writerVars
    <2>2. ScanSoFar'
      <3>1. Len(indices') \in Nat /\ 1 \in 1 .. Len(indices') + 1
        BY <2>1, LenProperties DEF PassInv, HandTypes, DataTypes
      <3>2. DOMAIN local' = {} /\ Len(local') = 0 /\ 1 .. i' - 1 = {}
        BY <2>1
      <3> QED BY <2>1, <3>1, <3>2 DEF ScanSoFar
    <2> QED BY <2>1, <2>2 DEF PassInv, QuietInv, QuietPass
  <1>6. CASE Scan
    <2>1. quiet /\ reader' = "scan" /\ ScanSoFar'
      BY <1>6, ScanKeeps DEF Scan
    <2>2. indices' = indices /\ writer' = writer /\ reader = "scan"
      BY <1>6 DEF Scan, KeepWriter, process, writerVars
    <2> QED BY <2>1, <2>2 DEF PassInv, QuietInv, QuietPass
  <1>7. CASE Choose
    <2>1. quiet /\ UNCHANGED <<boxes, classes, indices, category, enabled, writer>>
      BY <1>7 DEF Choose, KeepWriter, process, writerVars, settings
    <2>2. reader' \in {"wait", "use"} /\ (reader' = "use" => Best(idx'))
      BY <1>7, <2>1, ChooseIsBest
    <2>3. reader' = "use" => Best(idx)'
      BY <2>1, <2>2 DEF Best, Eligible
    <2> QED BY <2>1, <2>2, <2>3 DEF PassInv, QuietInv, QuietPass
  <1>8. CASE ReadTarget
    <2>1. /\ quiet /\ reader = "use"
          /\ UNCHANGED <<boxes, classes, indices, category, enabled, writer, idx>>
      BY <1>8 DEF ReadTarget, KeepWriter, process, writerVars, settings
    <2>2. Best(idx) /\ writer = "idle"
      BY <2>1 DEF PassInv, QuietInv, QuietPass
    <2>3. idx \in DOMAIN boxes
      <3>1. PICK m \in DOMAIN indices : idx = indices[m]
        BY <2>2 DEF Best, Eligible
      <3> QED BY <3>1, <2>2, QuietIndex DEF PassInv
    <2>4. reader' = "aim" /\ aimed' = boxes[idx]
      BY <1>8, <2>3 DEF ReadTarget
    <2>5. Best(idx)'
      BY <2>1, <2>2 DEF Best, Eligible
    <2> QED BY <2>1, <2>2, <2>4, <2>5 DEF QuietPass
  <1>9. CASE Move
    <2>1. quiet /\ reader' = "wait" /\ writer' = writer
      BY <1>9 DEF Move, KeepWriter, writerVars
    <2> QED BY <2>1 DEF PassInv, QuietInv, QuietPass
  <1>10. CASE UNCHANGED hvars
    BY <1>10, <1>b DEF hvars, writerVars, settings
  <1> QED
    BY <1>1, <1>2, <1>3, <1>4, <1>5, <1>6, <1>7, <1>8, <1>9, <1>10 DEF HNext, ReaderNext

LEMMA PassHolds == HSpec => []PassInv
PROOF
  <1>1. HInit => VectorsInv /\ QuietInv
    BY DEF HInit, VectorsInv, PublishedIsConsistent, QuietInv
  <1>2. HInit => DataTypes
    BY AnchorsAssumption DEF HInit, DataTypes
  <1>3. HInit => FlagTypes
    BY DEF HInit, FlagTypes
  <1>4. PassInv /\ [HNext]_hvars => PassInv'
    BY DataStep, FlagStep, VectorsStep, QuietStep DEF PassInv, HandTypes
  <1>5. HInit => PassInv
    BY <1>1, <1>2, <1>3 DEF PassInv, HandTypes
  <1> QED BY <1>4, <1>5, PTL DEF HSpec

(* A pass that no Postprocess overlaps never reads past the end of a       *)
(* vector (lock-module.cpp:106).                                           *)
THEOREM QuietPassStaysInside == HSpec => []QuietPassIsSafe
PROOF
  <1>1. PassInv => QuietPassIsSafe
    BY DEF PassInv, QuietInv, QuietPass, QuietPassIsSafe
  <1> QED BY <1>1, PassHolds, PTL

(* It aims at the nearest of the targets the ticked classes leave, however *)
(* suppression ordered them (lock-module.cpp:123).                         *)
THEOREM QuietPassAims == HSpec => []AimsAtNearest
PROOF
  <1>1. PassInv => AimsAtNearest
    BY DEF PassInv, QuietInv, QuietPass, AimsAtNearest, Best
  <1> QED BY <1>1, PassHolds, PTL

(* It goes back to waiting only when there is none (lock-module.cpp:134).  *)
THEOREM QuietPassOverlooksNone == HSpec => NoTargetOverlooked
PROOF
  <1> DEFINE Overlooks == reader = "scan" /\ reader' = "wait" /\ quiet /\ Eligible # {}
  <1>1. PassInv /\ [HNext]_hvars => [~Overlooks]_hvars
    <2> SUFFICES ASSUME PassInv, HNext, Overlooks PROVE FALSE
      OBVIOUS
    <2>1. CASE Choose
      BY <2>1, ChooseIsBest
    <2>2. CASE WriterNext \/ TickClasses \/ TickClass
      <3>1. reader' = reader
        BY <2>2 DEF WriterNext, ClearBoxes, ClearClasses, ClearIndices, SkipAnchor, PushBox, PushClass,
           NMSBoxes, SetLockEvent, WriterStep, TickClasses, TickClass, readerVars
      <3> QED BY <3>1
    <2>3. CASE LockWake \/ SelectStart \/ Scan \/ ReadTarget \/ Move
      BY <2>3 DEF LockWake, SelectStart, Scan, ReadTarget, Move
    <2> QED BY <2>1, <2>2, <2>3 DEF HNext, ReaderNext
  <1>2. [~Overlooks]_hvars => [reader = "scan" /\ reader' = "wait" /\ quiet => Eligible = {}]_hvars
    OBVIOUS
  <1> QED BY <1>1, <1>2, PassHolds, PTL DEF HSpec, NoTargetOverlooked
=============================================================================
