------------------------------ MODULE HandOff ------------------------------
(***************************************************************************)
(* How a frame's detections get from the inference thread to the lock      *)
(* thread: the vectors of the Process singleton (framework.h), which       *)
(* Postprocess empties and fills again for every frame, and an auto-reset  *)
(* event.  No lock guards the vectors, so the lock thread's choice of a    *)
(* target interleaves with the next frame's Postprocess.                   *)
(*                                                                         *)
(* A box is represented by its squared distance from the screen's centre,  *)
(* all that the choice looks at.  Vectors are sequences counted from 1.    *)
(***************************************************************************)
EXTENDS Integers, Sequences, FiniteSets

CONSTANTS
  Distances,   (* the squared distances a box may have                      *)
  ClassIds,    (* the classes the model may answer                          *)
  Anchors      (* bound: how many detections a frame may have               *)

ASSUME DistancesAssumption == Distances \subseteq Nat /\ ClassIds \subseteq Nat
ASSUME AnchorsAssumption == Anchors \in Nat

VARIABLES
  boxes, classes, indices,   (* Process                                     *)
  writer,        (* the inference thread: "idle" until it calls Postprocess *)
  left,          (* anchors Postprocess has still to look at                *)
  signalled,     (* LockMode's event                                        *)
  ModelClasses,  (* Signl::ModelClasses, a box the user ticks               *)
  enabled,       (* Value::class0 to class3: the classes that are ticked    *)
  reader,        (* the lock thread                                         *)
  category,      (* its copy of ModelClasses                                *)
  i,             (* its loop counter                                        *)
  local,         (* its vectors `indices` and `EuclideanDistance`, as pairs *)
  idx,           (* the index it has chosen                                 *)
  aimed,         (* the distance of the box it has read                     *)
  quiet          (* ghost: nobody has written what it reads since its wake  *)

process == <<boxes, classes, indices>>
writerVars == <<writer, left>>
settings == <<ModelClasses, enabled>>
readerVars == <<reader, category, i, local, idx, aimed>>
hvars == <<process, writerVars, signalled, settings, readerVars, quiet>>

(* The classes the switch of LockThread has a case for. *)
Selectable == 0 .. 3

HInit ==
  /\ boxes = <<>> /\ classes = <<>> /\ indices = <<>>
  /\ writer = "idle" /\ left = 0
  /\ signalled = FALSE
  /\ ModelClasses = FALSE /\ enabled = {}
  /\ reader = "wait" /\ category = FALSE /\ i = 1
  /\ local = <<>> /\ idx = 0 /\ aimed = 0
  /\ quiet = FALSE

-----------------------------------------------------------------------------
(* Postprocess (YoloV5Post, YoloV8Post; YoloXPost pushes a detection's     *)
(* class before its box).  A write ends the quiet of a pass under way.     *)
WriterStep(from, to) ==
  /\ writer = from
  /\ writer' = to
  /\ quiet' = FALSE
  /\ UNCHANGED <<settings, readerVars>>

ClearBoxes ==
  /\ WriterStep("idle", "clearClasses")
  /\ boxes' = <<>>
  /\ UNCHANGED <<classes, indices, left, signalled>>

(* Faulty: the classes of the last frame stay. *)
ClearClasses_Forgotten ==
  /\ WriterStep("clearClasses", "clearIndices")
  /\ UNCHANGED <<process, left, signalled>>

ClearClasses ==
  /\ WriterStep("clearClasses", "clearIndices")
  /\ classes' = <<>>
  /\ UNCHANGED <<boxes, indices, left, signalled>>

ClearIndices ==
  /\ WriterStep("clearIndices", "push")
  /\ indices' = <<>>
  /\ left' = Anchors
  /\ UNCHANGED <<boxes, classes, signalled>>

(* Faulty: one anchor too many. *)
SkipAnchor_OneMore ==
  /\ left > -1
  /\ WriterStep("push", "push")
  /\ left' = left - 1
  /\ UNCHANGED <<process, signalled>>

(* An anchor below the confidence threshold is passed over. *)
SkipAnchor ==
  /\ left > 0
  /\ WriterStep("push", "push")
  /\ left' = left - 1
  /\ UNCHANGED <<process, signalled>>

PushBox ==
  /\ left > 0
  /\ WriterStep("push", "pushClass")
  /\ \E d \in Distances : boxes' = Append(boxes, d)
  /\ UNCHANGED <<classes, indices, left, signalled>>

PushClass ==
  /\ WriterStep("pushClass", "push")
  /\ \E c \in ClassIds : classes' = Append(classes, c)
  /\ left' = left - 1
  /\ UNCHANGED <<boxes, indices, signalled>>

(* cv::dnn::NMSBoxes: the indices it keeps, best confidence first.  It may *)
(* keep none: YoloXPost pushes a detection whose confidence is just the    *)
(* threshold, and suppression wants more.                                  *)
Kept(n) ==
  {s \in UNION {[1 .. k -> 1 .. n] : k \in 0 .. n} :
     \A a, b \in DOMAIN s : a # b => s[a] # s[b]}

NMSBoxes ==
  /\ left = 0
  /\ WriterStep("push", "signal")
  /\ indices' \in Kept(Len(boxes))
  /\ UNCHANGED <<boxes, classes, left, signalled>>

(* LockStart: an event that is already set swallows the signal. *)
SetLockEvent ==
  /\ writer = "signal"
  /\ writer' = "idle"
  /\ signalled' = TRUE
  /\ UNCHANGED <<process, left, settings, readerVars, quiet>>

WriterNext ==
  \/ ClearBoxes \/ ClearClasses \/ ClearIndices
  \/ SkipAnchor \/ PushBox \/ PushClass \/ NMSBoxes \/ SetLockEvent

-----------------------------------------------------------------------------
(* ParameUI: the user ticks a class, or the use of classes, at any time.   *)
TickClasses ==
  /\ ModelClasses' = ~ModelClasses
  /\ UNCHANGED <<process, writerVars, signalled, enabled, readerVars, quiet>>

TickClass ==
  /\ \E c \in Selectable \cap ClassIds :
       enabled' = IF c \in enabled THEN enabled \ {c} ELSE enabled \cup {c}
  /\ quiet' = FALSE
  /\ UNCHANGED <<process, writerVars, signalled, ModelClasses, readerVars>>

-----------------------------------------------------------------------------
(* LockThread.  An access beyond the end of a vector leaves the reader in  *)
(* "fault": what it then reads is anybody's guess.                         *)
KeepWriter == UNCHANGED <<process, writerVars, settings>>

(* Faulty: an empty frame is not passed over. *)
LockWake_NoEmptyTest ==
  /\ reader = "wait" /\ signalled
  /\ signalled' = FALSE
  /\ reader' = "select"
  /\ quiet' = (writer = "idle")
  /\ KeepWriter
  /\ UNCHANGED <<category, i, local, idx, aimed>>

LockWake ==
  /\ reader = "wait" /\ signalled
  /\ signalled' = FALSE
  /\ reader' = IF indices = <<>> THEN "wait" ELSE "select"
  /\ quiet' = (writer = "idle")
  /\ KeepWriter
  /\ UNCHANGED <<category, i, local, idx, aimed>>

(* Faulty: the first index is left out. *)
SelectStart_FromTwo ==
  /\ reader = "select"
  /\ reader' = "scan"
  /\ category' = ModelClasses
  /\ i' = 2
  /\ local' = <<>>
  /\ KeepWriter
  /\ UNCHANGED <<signalled, idx, aimed, quiet>>

SelectStart ==
  /\ reader = "select"
  /\ reader' = "scan"
  /\ category' = ModelClasses
  /\ i' = 1
  /\ local' = <<>>
  /\ KeepWriter
  /\ UNCHANGED <<signalled, idx, aimed, quiet>>

(* One turn of the for loop, PushIndices included. *)
Scan ==
  /\ reader = "scan" /\ i <= Len(indices)
  /\ LET k == indices[i]
         wanted == category => classes[k] \in enabled
         inside == k \in DOMAIN boxes /\ (category => k \in DOMAIN classes)
     IN IF inside
          THEN /\ local' = IF wanted THEN Append(local, <<k, boxes[k]>>) ELSE local
               /\ i' = i + 1
               /\ UNCHANGED reader
          ELSE reader' = "fault" /\ UNCHANGED <<local, i>>
  /\ KeepWriter
  /\ UNCHANGED <<signalled, category, idx, aimed, quiet>>

(* The position of the first smallest element, as std::min_element has it; *)
(* of an empty vector it is the first position all the same.               *)
Nearest ==
  IF local = <<>> THEN 1
  ELSE CHOOSE n \in DOMAIN local :
         /\ \A m \in DOMAIN local : local[n][2] <= local[m][2]
         /\ \A m \in 1 .. n - 1 : local[n][2] < local[m][2]

(* Faulty: the position in the filtered vector is used in the shared one. *)
Choose_Unfiltered ==
  /\ reader = "scan" /\ i > Len(indices)
  /\ IF local # <<>> /\ Nearest \in DOMAIN indices
       THEN reader' = "use" /\ idx' = indices[Nearest]
       ELSE reader' = "wait" /\ UNCHANGED idx
  /\ KeepWriter
  /\ UNCHANGED <<signalled, category, i, local, aimed, quiet>>

(* With classes the index comes from the local vector; without, from the   *)
(* shared one again, at the position found in the local one.               *)
Choose ==
  /\ reader = "scan" /\ i > Len(indices)
  /\ IF category
       THEN IF local = <<>>
              THEN reader' = "wait" /\ UNCHANGED idx
              ELSE reader' = "use" /\ idx' = local[Nearest][1]
       ELSE IF Nearest \in DOMAIN indices
              THEN reader' = "use" /\ idx' = indices[Nearest]
              ELSE reader' = "fault" /\ UNCHANGED idx
  /\ KeepWriter
  /\ UNCHANGED <<signalled, category, i, local, aimed, quiet>>

(* target_xywh is read field by field from the shared box. *)
ReadTarget ==
  /\ reader = "use"
  /\ IF idx \in DOMAIN boxes
       THEN reader' = "aim" /\ aimed' = boxes[idx]
       ELSE reader' = "fault" /\ UNCHANGED aimed
  /\ KeepWriter
  /\ UNCHANGED <<signalled, category, i, local, idx, quiet>>

(* The move, or one of the continues before it. *)
Move ==
  /\ reader = "aim"
  /\ reader' = "wait"
  /\ KeepWriter
  /\ UNCHANGED <<signalled, category, i, local, idx, aimed, quiet>>

ReaderNext ==
  LockWake \/ SelectStart \/ Scan \/ Choose \/ ReadTarget \/ Move

HNext == WriterNext \/ TickClasses \/ TickClass \/ ReaderNext

HSpec == HInit /\ [][HNext]_hvars

-----------------------------------------------------------------------------
HTypeOK ==
  /\ boxes \in Seq(Distances) /\ classes \in Seq(ClassIds) /\ indices \in Seq(Nat)
  /\ writer \in {"idle", "clearClasses", "clearIndices", "push", "pushClass", "signal"}
  /\ left \in 0 .. Anchors
  /\ signalled \in BOOLEAN
  /\ ModelClasses \in BOOLEAN /\ enabled \subseteq Selectable
  /\ reader \in {"wait", "select", "scan", "use", "aim", "fault"}
  /\ category \in BOOLEAN
  /\ i \in Nat
  /\ local \in Seq(Nat \X Distances)
  /\ idx \in Nat /\ aimed \in Nat
  /\ quiet \in BOOLEAN

(* When the inference thread signals, and until it starts the next frame,  *)
(* the vectors belong together: every index has a box and a class.         *)
PublishedIsConsistent ==
  writer \in {"idle", "signal"} =>
    /\ Len(boxes) = Len(classes)
    /\ \A k \in DOMAIN indices : indices[k] \in DOMAIN boxes

(* A pass of the lock thread that no Postprocess overlaps never reads past *)
(* the end of a vector.                                                    *)
QuietPassIsSafe == reader = "fault" => ~quiet

(* The targets a frame offers: with classes in use, those whose class is   *)
(* one of the four that can be ticked, and is.                             *)
Eligible ==
  {k \in {indices[n] : n \in DOMAIN indices} :
     category => classes[k] \in enabled \cap Selectable}

(* The lock thread aims at the nearest of them, whatever the order NMS left*)
(* them in, and at nothing else.                                           *)
AimsAtNearest ==
  reader = "aim" /\ quiet =>
    /\ idx \in Eligible
    /\ aimed = boxes[idx]
    /\ \A k \in Eligible : aimed <= boxes[k]

(* It never goes back to waiting without a target when one was eligible.   *)
NoTargetOverlooked ==
  [][reader = "scan" /\ reader' = "wait" /\ quiet => Eligible = {}]_hvars

-----------------------------------------------------------------------------
(* framework.h: indices holds the container indices of all targets.  While *)
(* the lock thread goes through it, every one has a box.                   *)
IndicesIndexTheBoxes ==
  reader = "scan" => \A k \in DOMAIN indices : indices[k] \in DOMAIN boxes
=============================================================================
