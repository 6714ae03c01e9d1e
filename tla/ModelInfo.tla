----------------------------- MODULE ModelInfo -----------------------------
(***************************************************************************)
(* DMLModel (src/src/dml-module.cpp): a model is loaded, its input and its *)
(* output layer are searched for by name and then by shape, tensors are    *)
(* made for them, frames are run through it, everything is released.       *)
(*                                                                         *)
(* Any checked ONNX Runtime call may fail; one that is not checked is taken*)
(* to succeed.  The user's choice of framework, process_frame, is a global *)
(* that a configuration load may change at any time.  Nodes and dimensions *)
(* are counted from 1.                                                     *)
(***************************************************************************)
EXTENDS Integers, Sequences, FiniteSets, Functions

CONSTANTS
  Models,      (* the models a user may load: [inputs, outputs], each a     *)
               (* sequence of nodes [name, dims]                            *)
  MaxFrames    (* bound: how many frames a session runs                     *)

Names == {"images", "output", "output0", "other"}
Nodes == [name : Names, dims : Seq(Int)]

(* The code reads four dimensions of an input it accepts by name, and three*)
(* of every output.                                                        *)
ASSUME ModelsAssumption ==
  \A m \in Models :
    /\ m.inputs \in Seq(Nodes) /\ m.outputs \in Seq(Nodes)
    /\ \A k \in DOMAIN m.inputs : m.inputs[k].name = "images" => Len(m.inputs[k].dims) = 4
    /\ \A k \in DOMAIN m.outputs : Len(m.outputs[k].dims) >= 3

ASSUME MaxFramesAssumption == MaxFrames \in Nat

VARIABLES
  process_frame,       (* Variables::process_frame                          *)
  model,               (* the file behind Value::cpu_onnx                   *)
  pc,                  (* the line DMLModel is about to execute             *)
  i,                   (* the loop counter of GetModelInfo                  *)
  Postprocess,         (* the framework whose post-processing is pointed to *)
  frame,               (* GetModelInfo's copy of process_frame              *)
  input_dims, input_idx, hr_in, input_tensor_size, Input_size,
  output_dims, output_idx, hr_out, output_names_is_v8,
  Anchorbox_num, num_classes,
  held,                (* the runtime's objects the model points to         *)
  tensors,             (* which of its two tensor pointers are set          *)
  values,              (* OrtValues created and not yet released            *)
  temp_names,          (* names the allocator has given, never freed        *)
  typeinfos,           (* OrtTypeInfos obtained, never released             *)
  frames               (* frames run                                        *)

inputVars  == <<input_dims, input_idx, hr_in, input_tensor_size, Input_size>>
outputVars == <<output_dims, output_idx, hr_out, output_names_is_v8,
                Anchorbox_num, num_classes>>
valueVars  == <<tensors, values, frames>>
lookVars   == <<temp_names, typeinfos>>
ortVars    == <<held, valueVars, lookVars>>
chosenVars == <<Postprocess, frame>>
mvars == <<process_frame, model, pc, i, chosenVars, inputVars, outputVars, ortVars>>

Frameworks == {"yolov5", "yolox", "yolov8"}

Product(dims) == FoldFunction(LAMBDA a, b : a * b, 1, dims)

MInit ==
  /\ process_frame \in Frameworks
  /\ model \in Models
  /\ pc = "load" /\ i = 1
  /\ Postprocess = "none" /\ frame = "none"
  /\ input_dims = <<>> /\ input_idx = 1 /\ hr_in = FALSE
  /\ input_tensor_size = 1 /\ Input_size = 0
  /\ output_dims = <<>> /\ output_idx = 1 /\ hr_out = FALSE
  /\ output_names_is_v8 = FALSE
  /\ Anchorbox_num = 0 /\ num_classes = 0
  /\ held = {} /\ tensors = {} /\ values = 0 /\ frames = 0
  /\ temp_names = 0 /\ typeinfos = 0

Go(from, to) == pc = from /\ pc' = to
KeepUser == UNCHANGED <<process_frame, model>>

ChangeFrame ==
  /\ process_frame' \in Frameworks \ {process_frame}
  /\ UNCHANGED <<model, pc, i, chosenVars, inputVars, outputVars, ortVars>>

-----------------------------------------------------------------------------
(* InitDML *)
LoadDMLResource ==
  /\ Go("load", "env")
  /\ Postprocess' = process_frame
  /\ KeepUser /\ UNCHANGED <<i, frame, inputVars, outputVars, ortVars>>

Create(object, from, to) ==
  /\ Go(from, to)
  /\ held' = held \cup {object}
  /\ KeepUser /\ UNCHANGED <<i, chosenVars, inputVars, outputVars, valueVars, lookVars>>

CreateEnv            == Create("env", "env", "options")
CreateSessionOptions == Create("session_options", "options", "session")
CreateSession        == Create("session", "session", "info")
CreateCpuMemoryInfo  == Create("memory_info", "memory", "loop")

(* CHECKORT and asserthr: a call that fails ends the load.  In the middle  *)
(* of a look at a node it has obtained the name, and perhaps the type; the *)
(* name of an output is asked for unchecked.                               *)
Checked == {"env", "options", "session", "info", "images", "inputs", "tensorIn",
            "named", "tensorOut", "memory"}

Looking ==
  \/ pc \in {"images", "inputs"} /\ i <= Len(model.inputs)
  \/ pc \in {"named", "shaped"} /\ i <= Len(model.outputs)

GiveUp ==
  /\ \/ pc \in Checked /\ (pc = "named" => i = 1) /\ UNCHANGED lookVars
     \/ /\ Looking
        /\ temp_names' = temp_names + 1 /\ typeinfos' \in {typeinfos, typeinfos + 1}
  /\ pc' = "release"
  /\ KeepUser /\ UNCHANGED <<i, chosenVars, inputVars, outputVars, held, valueVars>>

-----------------------------------------------------------------------------
(* GetModelInfo: two passes over the inputs and two over the outputs.      *)
ReadFrame ==
  /\ Go("info", "images")
  /\ frame' = process_frame
  /\ i' = 1
  /\ KeepUser /\ UNCHANGED <<Postprocess, inputVars, outputVars, ortVars>>

(* The name of a node and its OrtTypeInfo: nothing ever gives them back. *)
Look ==
  /\ temp_names' = temp_names + 1
  /\ typeinfos' = typeinfos + 1
  /\ UNCHANGED <<held, valueVars>>

(* GetLayerInfo of an input: every input looked at multiplies the size. *)
LookAtInput ==
  /\ i <= Len(model.inputs)
  /\ Look
  /\ input_dims' = model.inputs[i].dims
  /\ input_tensor_size' = input_tensor_size * Product(model.inputs[i].dims)

PassOver(step) ==
  /\ pc' = step
  /\ i' = i + 1
  /\ UNCHANGED <<input_idx, hr_in, Input_size>>

TakeInput ==
  /\ pc' = "tensorIn"
  /\ input_idx' = i
  /\ Input_size' = input_dims'[3]
  /\ hr_in' = TRUE
  /\ UNCHANGED i

InputByName ==
  /\ pc = "images"
  /\ LookAtInput
  /\ LET node == model.inputs[i]
     IN \/ node.name # "images" /\ PassOver("images")
        \/ node.name = "images" /\ node.dims[3] = node.dims[4] /\ TakeInput
        \/ /\ node.name = "images" /\ node.dims[3] # node.dims[4]
           /\ pc' = "release" /\ UNCHANGED <<i, input_idx, hr_in, Input_size>>
  /\ KeepUser /\ UNCHANGED <<chosenVars, outputVars>>

NoInputByName ==
  /\ Go("images", "inputs")
  /\ i > Len(model.inputs)
  /\ i' = 1
  /\ KeepUser /\ UNCHANGED <<chosenVars, inputVars, outputVars, ortVars>>

SquareInput(d) == Len(d) = 4 /\ d[2] < d[3] /\ d[3] = d[4]

(* Faulty: the loop goes on after the input has been found. *)
InputByShape_GoesOn ==
  /\ pc = "inputs"
  /\ LookAtInput
  /\ pc' = "inputs" /\ i' = i + 1
  /\ IF SquareInput(model.inputs[i].dims)
       THEN input_idx' = i /\ Input_size' = input_dims'[3] /\ hr_in' = TRUE
       ELSE UNCHANGED <<input_idx, hr_in, Input_size>>
  /\ KeepUser /\ UNCHANGED <<chosenVars, outputVars>>

InputByShape ==
  /\ pc = "inputs"
  /\ LookAtInput
  /\ IF SquareInput(model.inputs[i].dims) THEN TakeInput ELSE PassOver("inputs")
  /\ KeepUser /\ UNCHANGED <<chosenVars, outputVars>>

NoInputByShape ==
  /\ Go("inputs", "tensorIn")
  /\ i > Len(model.inputs)
  /\ KeepUser /\ UNCHANGED <<i, chosenVars, inputVars, outputVars, ortVars>>

(* A tensor cannot be made with a dimension left open (-1). *)
CreateTensor(which, dims, from, to) ==
  /\ Go(from, to)
  /\ \A k \in DOMAIN dims : dims[k] >= 0
  /\ tensors' = tensors \cup {which}
  /\ values' = values + 1
  /\ i' = 1
  /\ KeepUser /\ UNCHANGED <<chosenVars, inputVars, outputVars, held, frames, lookVars>>

CreateInputTensor == CreateTensor("input", input_dims, "tensorIn", "named")

LookAtOutput ==
  /\ i <= Len(model.outputs)
  /\ Look
  /\ output_dims' = model.outputs[i].dims

NextOutput(step) ==
  /\ pc' = step
  /\ i' = i + 1
  /\ UNCHANGED <<output_idx, hr_out, Anchorbox_num, num_classes>>

(* Faulty: the objectness of YOLOv5 and YOLOX is counted as a class. *)
TakeOutput_CountsObjectness ==
  /\ pc' = "sum"
  /\ output_idx' = i
  /\ hr_out' = TRUE
  /\ IF frame = "yolov8"
       THEN Anchorbox_num' = output_dims'[3] /\ num_classes' = output_dims'[2] - 4
       ELSE Anchorbox_num' = output_dims'[2] /\ num_classes' = output_dims'[3] - 4
  /\ UNCHANGED i

(* YOLOv8 has its anchors in columns and no objectness. *)
TakeOutput ==
  /\ pc' = "sum"
  /\ output_idx' = i
  /\ hr_out' = TRUE
  /\ IF frame = "yolov8"
       THEN Anchorbox_num' = output_dims'[3] /\ num_classes' = output_dims'[2] - 4
       ELSE Anchorbox_num' = output_dims'[2] /\ num_classes' = output_dims'[3] - 5
  /\ UNCHANGED i

OutputByName ==
  /\ pc = "named"
  /\ LookAtOutput
  /\ IF model.outputs[i].name \in {"output", "output0"}
       THEN TakeOutput /\ output_names_is_v8' = (frame = "yolov8")
       ELSE NextOutput("named") /\ UNCHANGED output_names_is_v8
  /\ KeepUser /\ UNCHANGED <<chosenVars, inputVars>>

NoOutputByName ==
  /\ Go("named", "shaped")
  /\ i > Len(model.outputs)
  /\ i' = 1
  /\ KeepUser /\ UNCHANGED <<chosenVars, inputVars, outputVars, ortVars>>

ShapeOf(d, framework) ==
  /\ d[1] < d[2]
  /\ IF framework = "yolov8" THEN d[2] < d[3] ELSE d[2] > d[3]

OutputByShape ==
  /\ pc = "shaped"
  /\ LookAtOutput
  /\ IF ShapeOf(model.outputs[i].dims, frame) THEN TakeOutput ELSE NextOutput("shaped")
  /\ KeepUser /\ UNCHANGED <<output_names_is_v8, chosenVars, inputVars>>

NoOutputByShape ==
  /\ Go("shaped", "sum")
  /\ i > Len(model.outputs)
  /\ KeepUser /\ UNCHANGED <<i, chosenVars, inputVars, outputVars, ortVars>>

Conclude ==
  /\ Go("sum", IF hr_in /\ hr_out THEN "tensorOut" ELSE "release")
  /\ KeepUser /\ UNCHANGED <<i, chosenVars, inputVars, outputVars, ortVars>>

CreateOutputTensor ==
  CreateTensor("output", SubSeq(output_dims, 1, 3), "tensorOut", "memory")

-----------------------------------------------------------------------------
(* The frames of a session.  Preprocess makes a new input tensor over the  *)
(* last one; a call that fails leaves the pointer as it is.                *)
Preprocess ==
  /\ pc = "loop" /\ frames < MaxFrames
  /\ frames' = frames + 1
  /\ values' \in {values, values + 1}
  /\ KeepUser /\ UNCHANGED <<pc, i, chosenVars, inputVars, outputVars, held, tensors, lookVars>>

EndLoop ==
  /\ Go("loop", "release")
  /\ KeepUser /\ UNCHANGED <<i, chosenVars, inputVars, outputVars, ortVars>>

(* Release, object by object in the order of the code; one that was never  *)
(* created is passed over.                                                 *)
ReleaseObject(object, from, to) ==
  /\ Go(from, to)
  /\ held' = held \ {object}
  /\ KeepUser /\ UNCHANGED <<i, chosenVars, inputVars, outputVars, valueVars, lookVars>>

(* Faulty: a tensor is released twice. *)
ReleaseTensor_Twice(which, from, to) ==
  /\ Go(from, to)
  /\ tensors' = tensors \ {which}
  /\ values' = values - 2 * Cardinality(tensors \cap {which})
  /\ KeepUser /\ UNCHANGED <<i, chosenVars, inputVars, outputVars, held, frames, lookVars>>

(* Faulty: the input tensor of a load that was given up is forgotten. *)
ReleaseTensor_OutputOnly(which, from, to) ==
  /\ Go(from, to)
  /\ tensors' = tensors \ {which}
  /\ values' = values - Cardinality(tensors \cap {which} \cap {"output"})
  /\ KeepUser /\ UNCHANGED <<i, chosenVars, inputVars, outputVars, held, frames, lookVars>>

ReleaseTensor(which, from, to) ==
  /\ Go(from, to)
  /\ tensors' = tensors \ {which}
  /\ values' = values - Cardinality(tensors \cap {which})
  /\ KeepUser /\ UNCHANGED <<i, chosenVars, inputVars, outputVars, held, frames, lookVars>>

ReleaseEnv            == ReleaseObject("env", "release", "freeMemory")
ReleaseMemoryInfo     == ReleaseObject("memory_info", "freeMemory", "freeSession")
ReleaseSession        == ReleaseObject("session", "freeSession", "freeOptions")
ReleaseSessionOptions == ReleaseObject("session_options", "freeOptions", "freeInput")
ReleaseInputTensor    == ReleaseTensor("input", "freeInput", "freeOutput")
(* and the delete behind it *)
ReleaseOutputTensor   == ReleaseTensor("output", "freeOutput", "gone")

Release ==
  \/ ReleaseEnv \/ ReleaseMemoryInfo \/ ReleaseSession \/ ReleaseSessionOptions
  \/ ReleaseInputTensor \/ ReleaseOutputTensor

(* Detect names one input and one output; Run refuses a name that the model*)
(* does not have.                                                          *)
RunNames ==
  /\ \E k \in DOMAIN model.inputs : model.inputs[k].name = "images"
  /\ \E k \in DOMAIN model.outputs :
       model.outputs[k].name = IF output_names_is_v8 THEN "output0" ELSE "output"

(* generate_grids_and_stride: the cells YoloXPost goes through. *)
Grid(size) ==
  LET cells(stride) == (size \div stride) * (size \div stride)
  IN cells(8) + cells(16) + cells(32)

(* How far the post-processing pointed to reads into the output. *)
Extent ==
  CASE Postprocess = "yolov5" -> Anchorbox_num * (5 + num_classes)
    [] Postprocess = "yolox"  -> Grid(Input_size) * (5 + num_classes)
    [] OTHER                  -> Anchorbox_num * (4 + num_classes)

MNext ==
  \/ ChangeFrame \/ LoadDMLResource \/ GiveUp
  \/ CreateEnv \/ CreateSessionOptions \/ CreateSession \/ CreateCpuMemoryInfo
  \/ ReadFrame
  \/ InputByName \/ NoInputByName \/ InputByShape \/ NoInputByShape \/ CreateInputTensor
  \/ OutputByName \/ NoOutputByName \/ OutputByShape \/ NoOutputByShape
  \/ Conclude \/ CreateOutputTensor
  \/ Preprocess \/ EndLoop \/ Release

MSpec == MInit /\ [][MNext]_mvars

-----------------------------------------------------------------------------
MTypeOK ==
  /\ process_frame \in Frameworks /\ model \in Models
  /\ pc \in Checked \cup {"load", "shaped", "sum", "loop", "release", "freeMemory",
                        "freeSession", "freeOptions", "freeInput", "freeOutput", "gone"}
  /\ i \in Nat
  /\ Postprocess \in Frameworks \cup {"none"} /\ frame \in Frameworks \cup {"none"}
  /\ input_dims \in Seq(Int) /\ output_dims \in Seq(Int)
  /\ input_idx \in Nat /\ output_idx \in Nat
  /\ hr_in \in BOOLEAN /\ hr_out \in BOOLEAN /\ output_names_is_v8 \in BOOLEAN
  /\ {input_tensor_size, Input_size, Anchorbox_num, num_classes} \subseteq Int
  /\ held \subseteq {"env", "session_options", "session", "memory_info"}
  /\ tensors \subseteq {"input", "output"}
  /\ values \in Nat /\ frames \in 0 .. MaxFrames
  /\ temp_names \in Nat /\ typeinfos \in Nat

(* When a load is accepted, the dimensions it keeps are those of the nodes *)
(* it has chosen and not of one it looked at later, the size the capture   *)
(* will have is that input's, and the tensors were made for them.          *)
ChosenNodesAreKept ==
  pc = "loop" =>
    /\ input_idx \in DOMAIN model.inputs /\ input_dims = model.inputs[input_idx].dims
    /\ output_idx \in DOMAIN model.outputs /\ output_dims = model.outputs[output_idx].dims
    /\ Len(input_dims) = 4 /\ Input_size = input_dims[3] /\ Input_size = input_dims[4]
    /\ tensors = {"input", "output"}

(* Wherever a load is given up, and after any session, what stays behind   *)
(* is at most the input tensors the frames have put over one another       *)
(* (dml-module.cpp:221), and the names and the type information of the     *)
(* nodes looked at, which GetModelInfo never frees although                *)
(* onnxruntime_c_api.h:1102 and :1133 say that it must: those of two looks *)
(* at every node, and of the last look perhaps the name alone.             *)
ReleaseLeavesLooksAndFrames ==
  pc = "gone" =>
    /\ held = {} /\ tensors = {}
    /\ values \in 0 .. frames
    /\ temp_names \in 0 .. 2 * (Len(model.inputs) + Len(model.outputs))
    /\ temp_names - typeinfos \in {0, 1}

(* As long as the choice of framework is the same at both of its readings, *)
(* there is a class and at least one image in the batch, and a YOLOX model *)
(* has the anchors its size asks for, post-processing stays inside the     *)
(* output.                                                                 *)
ReadsStayInside ==
  (/\ pc = "loop" /\ Len(output_dims) = 3 /\ output_dims[1] > 0
   /\ Postprocess = frame /\ num_classes > 0
   /\ frame = "yolox" => Grid(Input_size) <= Anchorbox_num) =>
     Extent <= Product(output_dims)

-----------------------------------------------------------------------------
(* dml-module.cpp: when nothing has the expected name, the input and the   *)
(* output are searched for by their shape; a model accepted can be run.    *)
AcceptedModelRuns ==
  pc = "loop" => RunNames
=============================================================================
