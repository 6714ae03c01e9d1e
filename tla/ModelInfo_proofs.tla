-------------------------- MODULE ModelInfo_proofs --------------------------
(***************************************************************************)
(* What a load of any model leaves behind, and what it keeps: the lines of *)
(* GetModelInfo fix which tensors exist and what the dimensions are of.    *)
(***************************************************************************)
EXTENDS ModelInfo, FiniteSetTheorems, SequenceTheorems, NaturalsInduction, TLAPS

BeforeInput == {"load", "env", "options", "session", "info", "images", "inputs", "tensorIn"}
BeforeOutput == {"named", "shaped", "sum", "tensorOut"}
Freeing == {"freeMemory", "freeSession", "freeOptions", "freeInput", "freeOutput"}

(* Which tensors there are at each line, which objects have been released, *)
(* and how many values there are besides the tensors: at most one for each *)
(* frame, put over by the next.                                            *)
TensorInv ==
  /\ pc \in BeforeInput \cup BeforeOutput \cup Freeing \cup {"memory", "loop", "release", "gone"}
  /\ pc \in BeforeInput => tensors = {}
  /\ pc \in BeforeOutput => tensors = {"input"}
  /\ pc \in {"memory", "loop"} => tensors = {"input", "output"}
  /\ tensors \in {{}, {"input"}, {"output"}, {"input", "output"}}
  /\ pc \in {"freeOutput", "gone"} => "input" \notin tensors
  /\ pc = "gone" => "output" \notin tensors
  /\ held \subseteq {"env", "session_options", "session", "memory_info"}
  /\ pc \in Freeing \cup {"gone"} => "env" \notin held
  /\ pc \in (Freeing \cup {"gone"}) \ {"freeMemory"} => "memory_info" \notin held
  /\ pc \in {"freeOptions", "freeInput", "freeOutput", "gone"} => "session" \notin held
  /\ pc \in {"freeInput", "freeOutput", "gone"} => "session_options" \notin held
  /\ values \in Nat /\ frames \in Nat
  /\ values - Cardinality(tensors) \in 0 .. frames

LEMMA TensorCounts ==
  /\ Cardinality({}) = 0
  /\ Cardinality({"input"}) = 1 /\ Cardinality({"output"}) = 1
  /\ Cardinality({"input", "output"}) = 2
PROOF
  <1>1. /\ IsFiniteSet({"input"}) /\ Cardinality({"input"}) = 1
        /\ Cardinality({"output"}) = 1
    BY FS_Singleton
  <1>2. Cardinality({"input"} \cup {"output"}) = 2
    BY <1>1, FS_AddElement
  <1>3. {"input"} \cup {"output"} = {"input", "output"}
    OBVIOUS
  <1> QED BY <1>1, <1>2, <1>3, FS_EmptySet

LEMMA TensorNumber == TensorInv => Cardinality(tensors) \in Nat
PROOF
  <1> SUFFICES ASSUME TensorInv PROVE Cardinality(tensors) \in Nat
    OBVIOUS
  <1>1. tensors \in {{}, {"input"}, {"output"}, {"input", "output"}}
    BY DEF TensorInv
  <1> QED BY <1>1, TensorCounts

(* Each step of Release goes on to the next and takes nothing but what it  *)
(* is about.                                                               *)
LEMMA ReleaseFrame ==
  ASSUME Release
  PROVE  /\ pc \in Freeing \cup {"release"} /\ pc' \in Freeing \cup {"gone"}
         /\ UNCHANGED <<process_frame, model, i, chosenVars, inputVars, outputVars, frames,
                        lookVars>>
         /\ held' \subseteq held /\ tensors' \subseteq tensors
PROOF
  <1> USE DEF Go, KeepUser, valueVars, Freeing
  <1>1. CASE ReleaseInputTensor \/ ReleaseOutputTensor
    BY <1>1 DEF ReleaseInputTensor, ReleaseOutputTensor, ReleaseTensor
  <1>2. CASE ReleaseEnv \/ ReleaseMemoryInfo \/ ReleaseSession \/ ReleaseSessionOptions
    BY <1>2 DEF ReleaseEnv, ReleaseMemoryInfo, ReleaseSession, ReleaseSessionOptions,
       ReleaseObject
  <1> QED BY <1>1, <1>2 DEF Release

LEMMA TensorStep == TensorInv /\ [MNext]_mvars => TensorInv'
PROOF
  <1> SUFFICES ASSUME TensorInv, [MNext]_mvars PROVE TensorInv'
    OBVIOUS
  <1> USE DEF TensorInv, BeforeInput, BeforeOutput, Freeing, Go, ortVars, valueVars
  <1>1. CASE ChangeFrame \/ UNCHANGED mvars
    BY <1>1 DEF ChangeFrame, mvars
  <1>2. CASE LoadDMLResource \/ ReadFrame \/ NoInputByName \/ NoInputByShape
             \/ NoOutputByName \/ NoOutputByShape \/ Conclude \/ EndLoop
    BY <1>2 DEF LoadDMLResource, ReadFrame, NoInputByName, NoInputByShape, NoOutputByName,
       NoOutputByShape, Conclude, EndLoop
  <1>3. CASE GiveUp
    BY <1>3 DEF GiveUp, Checked, Looking
  <1>4. CASE CreateEnv \/ CreateSessionOptions \/ CreateSession \/ CreateCpuMemoryInfo
    BY <1>4 DEF CreateEnv, CreateSessionOptions, CreateSession, CreateCpuMemoryInfo, Create
  <1>5. CASE InputByName \/ InputByShape
    BY <1>5 DEF InputByName, InputByShape, LookAtInput, Look, PassOver, TakeInput
  <1>6. CASE OutputByName \/ OutputByShape
    BY <1>6 DEF OutputByName, OutputByShape, LookAtOutput, Look, TakeOutput, NextOutput
  <1>7. CASE CreateInputTensor
    <2>1. tensors = {} /\ tensors' = {"input"}
      BY <1>7 DEF CreateInputTensor, CreateTensor
    <2> QED BY <1>7, <2>1, TensorCounts DEF CreateInputTensor, CreateTensor
  <1>8. CASE CreateOutputTensor
    <2>1. tensors = {"input"} /\ tensors' = {"input", "output"}
      BY <1>8 DEF CreateOutputTensor, CreateTensor
    <2> QED BY <1>8, <2>1, TensorCounts DEF CreateOutputTensor, CreateTensor
  <1>9. CASE Preprocess
    <2>1. Cardinality(tensors) \in Nat
      BY TensorNumber
    <2> QED BY <1>9, <2>1 DEF Preprocess
  <1>10. CASE ReleaseEnv \/ ReleaseMemoryInfo \/ ReleaseSession \/ ReleaseSessionOptions
    BY <1>10 DEF ReleaseEnv, ReleaseMemoryInfo, ReleaseSession, ReleaseSessionOptions,
       ReleaseObject
  <1>11. ASSUME NEW which \in {"input", "output"}, NEW from, NEW to,
                ReleaseTensor(which, from, to)
         PROVE  /\ tensors' \in {{}, {"input"}, {"output"}}
                /\ which \notin tensors'
                /\ "input" \notin tensors => "input" \notin tensors'
                /\ values' \in Nat
                /\ values' - Cardinality(tensors') \in 0 .. frames
    <2>1. /\ tensors' = tensors \ {which}
          /\ values' = values - Cardinality(tensors \cap {which})
      BY <1>11 DEF ReleaseTensor
    <2>v. values \in Nat /\ frames \in Nat /\ values - Cardinality(tensors) \in 0 .. frames
      OBVIOUS
    <2>c. Cardinality(tensors) \in Nat
      BY TensorNumber
    <2>t. tensors \in {{}, {"input"}, {"output"}, {"input", "output"}}
      OBVIOUS
    <2> HIDE DEF TensorInv
    <2>2. CASE which \in tensors
      <3>1. tensors \cap {which} = {which} /\ Cardinality({which}) = 1
        BY <2>2, TensorCounts
      <3>2. /\ tensors' \in {{}, {"input"}, {"output"}}
            /\ Cardinality(tensors') = Cardinality(tensors) - 1
            /\ Cardinality(tensors') \in Nat
        <4>1. CASE tensors = {"input", "output"}
          <5>1. /\ {"input", "output"} \ {"input"} = {"output"}
                /\ {"input", "output"} \ {"output"} = {"input"}
            OBVIOUS
          <5>2. tensors' \in {{"input"}, {"output"}}
            BY <2>1, <4>1, <5>1
          <5> QED BY <4>1, <5>2, TensorCounts
        <4>2. CASE tensors \in {{"input"}, {"output"}}
          <5>1. tensors' = {} /\ Cardinality(tensors) = 1
            BY <2>1, <2>2, <4>2, TensorCounts
          <5> QED BY <5>1, TensorCounts
        <4> QED BY <2>2, <2>t, <4>1, <4>2
      <3>3. values' = values - 1
        BY <2>1, <3>1
      <3>4. values' \in Nat /\ values' - Cardinality(tensors') \in 0 .. frames
        BY <2>v, <2>c, <3>2, <3>3
      <3> QED BY <2>1, <3>2, <3>4
    <2>3. CASE which \notin tensors
      <3>1. tensors \cap {which} = {} /\ tensors' = tensors
        BY <2>1, <2>3
      <3>2. values' = values
        <4>1. Cardinality(tensors \cap {which}) = 0
          BY <3>1, TensorCounts
        <4> QED BY <2>1, <2>v, <4>1
      <3>3. tensors' \in {{}, {"input"}, {"output"}}
        BY <2>3, <2>t, <3>1
      <3> QED BY <2>1, <2>v, <3>1, <3>2, <3>3
    <2> QED BY <2>2, <2>3
  <1>12. CASE ReleaseInputTensor
    BY <1>11, <1>12 DEF ReleaseInputTensor, ReleaseTensor
  <1>13. CASE ReleaseOutputTensor
    BY <1>11, <1>13 DEF ReleaseOutputTensor, ReleaseTensor
  <1> QED
    BY <1>1, <1>2, <1>3, <1>4, <1>5, <1>6, <1>7, <1>8, <1>9, <1>10, <1>12, <1>13
       DEF MNext, Release

LEMMA InitTensor == MInit => TensorInv
PROOF BY TensorCounts DEF MInit, TensorInv, BeforeInput, BeforeOutput

LEMMA TensorHolds == MSpec => []TensorInv
PROOF BY InitTensor, TensorStep, PTL DEF MSpec

-----------------------------------------------------------------------------
(* How many nodes have been looked at: those before i in the search going  *)
(* on, all of each search before it.                                       *)
LookBounds(n, m) ==
  /\ temp_names \in Nat /\ typeinfos \in Nat
  /\ temp_names = typeinfos \/ temp_names = typeinfos + 1
  /\ pc \in BeforeInput \cup BeforeOutput => temp_names = typeinfos
  /\ temp_names <= 2 * n + 2 * m
  /\ pc \in {"load", "env", "options", "session", "info"} => temp_names = 0
  /\ pc = "images" => i <= n + 1 /\ temp_names = i - 1
  /\ pc = "inputs" => i <= n + 1 /\ temp_names = n + i - 1
  /\ pc = "tensorIn" => temp_names <= 2 * n
  /\ pc = "named" => i <= m + 1 /\ temp_names <= 2 * n + i - 1
  /\ pc = "shaped" => i <= m + 1 /\ temp_names <= 2 * n + m + i - 1

LookInv ==
  /\ model \in Models /\ i \in Nat \ {0}
  /\ LookBounds(Len(model.inputs), Len(model.outputs))

LEMMA Lengths ==
  ASSUME NEW m \in Models PROVE Len(m.inputs) \in Nat /\ Len(m.outputs) \in Nat
PROOF BY ModelsAssumption, LenProperties

LEMMA ModelStays == [MNext]_mvars => model' = model
PROOF BY ReleaseFrame DEF MNext, mvars, ChangeFrame, LoadDMLResource, GiveUp, CreateEnv,
         CreateSessionOptions, CreateSession, CreateCpuMemoryInfo, Create, ReadFrame,
         InputByName, NoInputByName, InputByShape, NoInputByShape, CreateInputTensor,
         CreateTensor, OutputByName, NoOutputByName, OutputByShape, NoOutputByShape,
         Conclude, CreateOutputTensor, Preprocess, EndLoop, KeepUser

LEMMA LookStep == TensorInv /\ LookInv /\ [MNext]_mvars => LookInv'
PROOF
  <1> SUFFICES ASSUME TensorInv, LookInv, [MNext]_mvars PROVE LookInv'
    OBVIOUS
  <1> DEFINE n == Len(model.inputs)
             m == Len(model.outputs)
  <1>l. /\ n \in Nat /\ m \in Nat
        /\ model \in Models /\ i \in Nat \ {0} /\ LookBounds(n, m)
    BY Lengths DEF LookInv
  <1>m. model' = model
    BY ModelStays
  <1>r. n' = n /\ m' = m
    BY <1>m
  <1>n. n = Len(model.inputs) /\ m = Len(model.outputs)
    OBVIOUS
  <1>s. SUFFICES i' \in Nat \ {0} /\ LookBounds(n, m)'
    BY <1>l, <1>m DEF LookInv
  <1> HIDE DEF n, m
  <1> USE <1>l, <1>r DEF LookBounds, BeforeInput, BeforeOutput, Go, ortVars, lookVars
  <1>1. CASE ChangeFrame \/ UNCHANGED mvars
    BY <1>1 DEF ChangeFrame, mvars
  <1>2. CASE LoadDMLResource \/ ReadFrame \/ Conclude \/ EndLoop
    <2>1. CASE LoadDMLResource
      BY <2>1 DEF LoadDMLResource
    <2>2. CASE ReadFrame
      BY <2>2 DEF ReadFrame
    <2>3. CASE Conclude
      <3>1. pc = "sum" /\ pc' \in {"tensorOut", "release"} /\ i' = i /\ UNCHANGED lookVars
        BY <2>3 DEF Conclude
      <3> QED BY <3>1
    <2>4. CASE EndLoop
      BY <2>4 DEF EndLoop
    <2> QED BY <1>2, <2>1, <2>2, <2>3, <2>4
  <1>2a. CASE NoInputByName \/ NoInputByShape
    <2>1. /\ UNCHANGED lookVars /\ i > n
          /\ \/ pc = "images" /\ pc' = "inputs" /\ i' = 1
             \/ pc = "inputs" /\ pc' = "tensorIn" /\ i' = i
      BY <1>n, <1>2a DEF NoInputByName, NoInputByShape
    <2> QED BY <2>1
  <1>2b. CASE NoOutputByName \/ NoOutputByShape
    <2>1. /\ UNCHANGED lookVars /\ i > m
          /\ \/ pc = "named" /\ pc' = "shaped" /\ i' = 1
             \/ pc = "shaped" /\ pc' = "sum" /\ i' = i
      BY <1>n, <1>2b DEF NoOutputByName, NoOutputByShape
    <2> QED BY <2>1
  <1>3. CASE GiveUp
    <2>1. pc' = "release" /\ i' = i /\ pc \in BeforeInput \cup BeforeOutput \cup {"memory"}
      BY <1>3 DEF GiveUp, Checked, Looking
    <2>2. CASE UNCHANGED lookVars
      BY <2>1, <2>2
    <2>3. CASE /\ Looking /\ temp_names' = temp_names + 1
               /\ typeinfos' \in {typeinfos, typeinfos + 1}
      <3>1. \/ pc = "images" /\ i <= n
            \/ pc = "inputs" /\ i <= n
            \/ pc = "named" /\ i <= m
            \/ pc = "shaped" /\ i <= m
        BY <1>n, <2>3 DEF Looking
      <3>2. temp_names = typeinfos /\ temp_names + 1 <= 2 * n + 2 * m
        BY <3>1
      <3>3. /\ temp_names' \in Nat /\ typeinfos' \in Nat
            /\ temp_names' = typeinfos' \/ temp_names' = typeinfos' + 1
            /\ temp_names' <= 2 * n + 2 * m
        <4>1. temp_names \in Nat /\ typeinfos \in Nat
          OBVIOUS
        <4>2. /\ temp_names' = temp_names + 1
              /\ typeinfos' = typeinfos \/ typeinfos' = typeinfos + 1
          BY <2>3
        <4> HIDE <1>l DEF LookBounds
        <4> QED BY <1>l, <3>2, <4>1, <4>2
      <3> QED BY <2>1, <3>3
    <2> QED BY <1>3, <2>2, <2>3 DEF GiveUp
  <1>4. CASE CreateEnv \/ CreateSessionOptions \/ CreateSession \/ CreateCpuMemoryInfo
    BY <1>4 DEF CreateEnv, CreateSessionOptions, CreateSession, CreateCpuMemoryInfo, Create
  <1>5. CASE InputByName \/ InputByShape
    <2>1. /\ i <= n /\ temp_names' = temp_names + 1 /\ typeinfos' = typeinfos + 1
          /\ pc \in {"images", "inputs"}
          /\ \/ pc' = "tensorIn" /\ i' = i
             \/ pc' = pc /\ i' = i + 1
             \/ pc' = "release" /\ i' = i
      BY <1>n, <1>5 DEF InputByName, InputByShape, LookAtInput, Look, PassOver, TakeInput
    <2> QED BY <2>1
  <1>6. CASE OutputByName \/ OutputByShape
    <2>1. /\ i <= m /\ temp_names' = temp_names + 1 /\ typeinfos' = typeinfos + 1
          /\ pc \in {"named", "shaped"}
          /\ \/ pc' = "sum" /\ i' = i
             \/ pc' = pc /\ i' = i + 1
      BY <1>n, <1>6 DEF OutputByName, OutputByShape, LookAtOutput, Look, TakeOutput, NextOutput
    <2> QED BY <2>1
  <1>7. CASE CreateInputTensor \/ CreateOutputTensor
    <2>1. /\ UNCHANGED lookVars /\ i' = 1
          /\ \/ pc = "tensorIn" /\ pc' = "named"
             \/ pc = "tensorOut" /\ pc' = "memory"
      BY <1>7 DEF CreateInputTensor, CreateOutputTensor, CreateTensor
    <2> QED BY <2>1
  <1>8. CASE Preprocess
    BY <1>8 DEF Preprocess
  <1>9. CASE Release
    BY <1>9, ReleaseFrame DEF Freeing
  <1> QED BY <1>1, <1>2, <1>2a, <1>2b, <1>3, <1>4, <1>5, <1>6, <1>7, <1>8, <1>9 DEF MNext

LEMMA InitLook == MInit => LookInv
PROOF
  <1> SUFFICES ASSUME MInit PROVE LookInv
    OBVIOUS
  <1>1. pc = "load" /\ i = 1 /\ model \in Models /\ temp_names = 0 /\ typeinfos = 0
    BY DEF MInit
  <1>2. Len(model.inputs) \in Nat /\ Len(model.outputs) \in Nat
    BY <1>1, Lengths
  <1>3. ASSUME NEW n \in Nat, NEW m \in Nat PROVE LookBounds(n, m)
    BY <1>1 DEF LookBounds
  <1> QED BY <1>1, <1>2, <1>3 DEF LookInv

(* For any model, a load given up at any of its calls leaves no object the *)
(* code releases, and a session besides at most one tensor per frame; the  *)
(* names and the type information it never releases (dml-module.cpp:66,    *)
(* :100) are those of at most two looks at every node.                     *)
THEOREM OnlyLooksAndFramesAreLost == MSpec => []ReleaseLeavesLooksAndFrames
PROOF
  <1>1. ASSUME TensorInv, LookInv PROVE ReleaseLeavesLooksAndFrames
    <2>1. SUFFICES ASSUME pc = "gone"
                   PROVE  /\ held = {} /\ tensors = {} /\ values \in 0 .. frames
                          /\ temp_names \in 0 .. 2 * (Len(model.inputs) + Len(model.outputs))
                          /\ temp_names - typeinfos \in {0, 1}
      BY DEF ReleaseLeavesLooksAndFrames
    <2>2. held = {} /\ tensors = {} /\ values - Cardinality(tensors) \in 0 .. frames
          /\ values \in Nat /\ frames \in Nat
      BY <1>1, <2>1 DEF TensorInv, Freeing
    <2>3. values \in 0 .. frames
      BY <2>2, TensorCounts
    <2>4. Len(model.inputs) \in Nat /\ Len(model.outputs) \in Nat
      BY <1>1, Lengths DEF LookInv
    <2>5. LookBounds(Len(model.inputs), Len(model.outputs))
      BY <1>1 DEF LookInv
    <2>6. ASSUME NEW n \in Nat, NEW m \in Nat, LookBounds(n, m)
          PROVE  temp_names \in 0 .. 2 * (n + m) /\ temp_names - typeinfos \in {0, 1}
      BY <2>6 DEF LookBounds
    <2> QED BY <2>2, <2>3, <2>4, <2>5, <2>6
  <1> QED BY <1>1, InitTensor, InitLook, TensorStep, LookStep, PTL DEF MSpec

-----------------------------------------------------------------------------
InputTaken ==
  /\ input_idx \in DOMAIN model.inputs
  /\ input_dims = model.inputs[input_idx].dims
  /\ Len(input_dims) = 4
  /\ Input_size = input_dims[3] /\ Input_size = input_dims[4]

OutputTaken ==
  /\ output_idx \in DOMAIN model.outputs
  /\ output_dims = model.outputs[output_idx].dims

(* Once a node is marked as found the searches of its kind are over. *)
ChosenInv ==
  /\ TensorInv
  /\ model \in Models /\ i \in Nat \ {0}
  /\ hr_in \in BOOLEAN /\ hr_out \in BOOLEAN
  /\ hr_in => InputTaken /\ pc \notin BeforeInput \ {"tensorIn"}
  /\ hr_out => OutputTaken /\ pc \notin {"named", "shaped"} \cup BeforeInput
  /\ pc \in {"tensorOut", "memory", "loop"} => hr_in /\ hr_out

LEMMA ChosenStep == ChosenInv /\ [MNext]_mvars => ChosenInv'
PROOF
  <1> SUFFICES ASSUME ChosenInv, [MNext]_mvars PROVE ChosenInv'
    OBVIOUS
  <1>0. TensorInv'
    BY TensorStep DEF ChosenInv
  <1>m. model' = model
    BY ModelStays
  <1> USE <1>0, <1>m DEF ChosenInv, InputTaken, OutputTaken, BeforeInput, Go, inputVars,
          outputVars
  <1>1. CASE ChangeFrame \/ UNCHANGED mvars
    BY <1>1 DEF ChangeFrame, mvars
  <1>2. CASE LoadDMLResource \/ ReadFrame \/ NoInputByName \/ NoInputByShape
             \/ NoOutputByName \/ NoOutputByShape \/ Conclude \/ EndLoop
    BY <1>2 DEF LoadDMLResource, ReadFrame, NoInputByName, NoInputByShape, NoOutputByName,
       NoOutputByShape, Conclude, EndLoop
  <1>3. CASE GiveUp
    BY <1>3 DEF GiveUp, Checked, Looking
  <1>4. CASE CreateEnv \/ CreateSessionOptions \/ CreateSession \/ CreateCpuMemoryInfo
    BY <1>4 DEF CreateEnv, CreateSessionOptions, CreateSession, CreateCpuMemoryInfo, Create
  <1>5. CASE InputByName \/ InputByShape
    <2>1. i \in DOMAIN model.inputs /\ model.inputs \in Seq(Nodes)
      BY <1>5, ModelsAssumption DEF InputByName, InputByShape, LookAtInput
    <2>2. input_dims' = model.inputs[i].dims /\ ~hr_in /\ ~hr_out
      BY <1>5 DEF InputByName, InputByShape, LookAtInput
    <2>3. UNCHANGED outputVars
      BY <1>5 DEF InputByName, InputByShape
    <2>4. CASE TakeInput
      <3>1. Len(model.inputs[i].dims) = 4 /\ model.inputs[i].dims[3] = model.inputs[i].dims[4]
        BY <1>5, <2>1, <2>4, ModelsAssumption
           DEF InputByName, InputByShape, SquareInput, TakeInput, PassOver
      <3> QED BY <2>1, <2>2, <2>3, <2>4, <3>1 DEF TakeInput
    <2>5. CASE ~TakeInput
      <3>1. hr_in' = hr_in /\ i' \in {i, i + 1} /\ pc' \in {"images", "inputs", "release"}
        BY <1>5, <2>5 DEF InputByName, InputByShape, PassOver
      <3> QED BY <2>2, <2>3, <3>1
    <2> QED BY <2>4, <2>5
  <1>6. CASE OutputByName \/ OutputByShape
    <2>1. i \in DOMAIN model.outputs /\ model.outputs \in Seq(Nodes)
      BY <1>6, ModelsAssumption DEF OutputByName, OutputByShape, LookAtOutput
    <2>2. output_dims' = model.outputs[i].dims /\ ~hr_out
      BY <1>6 DEF OutputByName, OutputByShape, LookAtOutput
    <2>3. UNCHANGED inputVars
      BY <1>6 DEF OutputByName, OutputByShape
    <2>4. CASE TakeOutput
      BY <2>1, <2>2, <2>3, <2>4 DEF TakeOutput
    <2>5. CASE ~TakeOutput
      <3>1. hr_out' = hr_out /\ i' = i + 1 /\ pc' \in {"named", "shaped"}
        BY <1>6, <2>5 DEF OutputByName, OutputByShape, NextOutput
      <3> QED BY <2>2, <2>3, <3>1
    <2> QED BY <2>4, <2>5
  <1>7. CASE CreateInputTensor \/ CreateOutputTensor
    BY <1>7 DEF CreateInputTensor, CreateOutputTensor, CreateTensor
  <1>8. CASE Preprocess
    BY <1>8 DEF Preprocess
  <1>9. CASE Release
    BY <1>9, ReleaseFrame DEF Freeing
  <1> QED BY <1>1, <1>2, <1>3, <1>4, <1>5, <1>6, <1>7, <1>8, <1>9 DEF MNext

LEMMA InitChosen == MInit => ChosenInv
PROOF
  <1> SUFFICES ASSUME MInit PROVE ChosenInv
    OBVIOUS
  <1>1. pc = "load" /\ hr_in = FALSE /\ hr_out = FALSE /\ i \in Nat \ {0} /\ model \in Models
    BY DEF MInit
  <1> QED BY <1>1, InitTensor DEF ChosenInv

(* Whatever the order and the names of a model's nodes, the dimensions a   *)
(* session runs with are those of the nodes it has chosen.                 *)
THEOREM ChosenNodesStay == MSpec => []ChosenNodesAreKept
PROOF
  <1>1. ChosenInv => ChosenNodesAreKept
    BY DEF ChosenInv, TensorInv, InputTaken, OutputTaken, ChosenNodesAreKept
  <1> QED BY <1>1, InitChosen, ChosenStep, PTL DEF MSpec

-----------------------------------------------------------------------------
(* Product is a fold over the positions of the dimensions, taken in an     *)
(* order CHOOSE fixes: the equation it solves, on all sets of positions.   *)
One(s) == CHOOSE x \in s : TRUE
FoldStep(d, g, s) == IF s = {} THEN 1 ELSE d[One(s)] * g[s \ {One(s)}]
Folds(d, S, g) == g = [s \in S |-> FoldStep(d, g, s)]

LEMMA LeastNatural ==
  ASSUME NEW T, T \subseteq Nat, T # {}
  PROVE  \E m \in T : \A n \in T : m <= n
PROOF
  <1>1. IsWellFoundedOn(OpToRel(<, Nat), Nat)
    BY NatLessThanWellFounded
  <1>2. PICK m \in T : \A n \in T : ~(<<n, m>> \in OpToRel(<, Nat))
    BY <1>1, WFMin
  <1>3. \A n \in T : ~(n < m)
    BY <1>2 DEF OpToRel
  <1> QED BY <1>3

LEMMA ProductIsFold ==
  ASSUME NEW d PROVE Product(d) = (CHOOSE g : Folds(d, SUBSET DOMAIN d, g))[DOMAIN d]
PROOF BY DEF Product, FoldFunction, FoldFunctionOnSet, MapThenFoldSet, Folds, FoldStep, One

(* A set without its chosen position is smaller. *)
LEMMA OneSmaller ==
  ASSUME NEW D, IsFiniteSet(D), NEW s \in SUBSET D, s # {}
  PROVE  /\ One(s) \in s /\ s \ {One(s)} \in SUBSET D
         /\ Cardinality(s) \in Nat /\ Cardinality(s \ {One(s)}) \in Nat
         /\ Cardinality(s \ {One(s)}) = Cardinality(s) - 1
PROOF
  <1>1. One(s) \in s
    BY DEF One
  <1>2. IsFiniteSet(s) /\ IsFiniteSet(s \ {One(s)})
    BY FS_Subset
  <1> QED BY <1>1, <1>2, FS_RemoveElement, FS_CardinalityType

(* The equation has a solution: were there none for the sets of at most k  *)
(* positions, the least such k would have one built from that of k - 1.    *)
LEMMA FoldExists ==
  ASSUME NEW d, IsFiniteSet(DOMAIN d)
  PROVE  \E g : Folds(d, SUBSET DOMAIN d, g)
PROOF
  <1> DEFINE Upto(k) == {s \in SUBSET DOMAIN d : Cardinality(s) <= k}
             Bad == {k \in Nat : ~ \E g : Folds(d, Upto(k), g)}
  <1>1. ASSUME NEW k \in Nat, k \in Bad, \A n \in Bad : k <= n PROVE FALSE
    <2>1. CASE k = 0
      <3>1. \A s \in Upto(0) : s = {}
        <4> TAKE s \in Upto(0)
        <4>1. IsFiniteSet(s) /\ Cardinality(s) \in Nat
          BY FS_Subset, FS_CardinalityType
        <4> QED BY <4>1, FS_EmptySet
      <3>2. Folds(d, Upto(0), [s \in Upto(0) |-> 1])
        BY <3>1 DEF Folds, FoldStep
      <3> QED BY <1>1, <2>1, <3>2
    <2>2. CASE k # 0
      <3>1. k - 1 \in Nat /\ k - 1 \notin Bad
        <4> HIDE DEF Bad
        <4>1. k - 1 \in Nat /\ ~(k <= k - 1)
          BY <2>2
        <4> QED BY <1>1, <4>1
      <3>2. PICK g : Folds(d, Upto(k - 1), g)
        BY <3>1
      <3> DEFINE h == [s \in Upto(k) |-> FoldStep(d, g, s)]
      <3>3. ASSUME NEW s \in Upto(k) PROVE h[s] = FoldStep(d, h, s)
        <4>1. CASE s = {}
          BY <4>1 DEF FoldStep
        <4>2. CASE s # {}
          <5>1. s \ {One(s)} \in Upto(k - 1) /\ s \ {One(s)} \in Upto(k)
            BY <4>2, OneSmaller
          <5>2. g[s \ {One(s)}] = FoldStep(d, g, s \ {One(s)})
            BY <3>2, <5>1 DEF Folds
          <5>3. h[s \ {One(s)}] = g[s \ {One(s)}]
            BY <5>1, <5>2
          <5> QED BY <4>2, <5>3 DEF FoldStep
        <4> QED BY <4>1, <4>2
      <3>4. Folds(d, Upto(k), h)
        BY <3>3 DEF Folds
      <3> QED BY <1>1, <3>4
    <2> QED BY <2>1, <2>2
  <1>2. Bad = {}
    BY <1>1, LeastNatural
  <1>3. Cardinality(DOMAIN d) \in Nat
    BY FS_CardinalityType
  <1>4. Upto(Cardinality(DOMAIN d)) = SUBSET DOMAIN d
    BY FS_Subset
  <1> QED BY <1>2, <1>3, <1>4

(* Hence Product may be computed position by position. *)
LEMMA ProductStep ==
  ASSUME NEW d, IsFiniteSet(DOMAIN d)
  PROVE  \E h : /\ Product(d) = h[DOMAIN d]
                /\ h[{}] = 1
                /\ \A s \in SUBSET DOMAIN d :
                     s # {} => /\ One(s) \in s
                               /\ h[s] = d[One(s)] * h[s \ {One(s)}]
PROOF
  <1> DEFINE h == CHOOSE g : Folds(d, SUBSET DOMAIN d, g)
  <1>1. Folds(d, SUBSET DOMAIN d, h)
    BY FoldExists
  <1>2. \A s \in SUBSET DOMAIN d : h[s] = FoldStep(d, h, s)
    BY <1>1 DEF Folds
  <1>3. Product(d) = h[DOMAIN d]
    BY ProductIsFold
  <1> HIDE DEF h
  <1> QED BY <1>2, <1>3, OneSmaller DEF FoldStep

(* A set of positions with a product that is no integer would have to be   *)
(* least, and is not.                                                      *)
LEMMA ProductType ==
  ASSUME NEW d \in Seq(Int) PROVE Product(d) \in Int
PROOF
  <1>0. DOMAIN d = 1 .. Len(d) /\ Len(d) \in Nat /\ \A k \in DOMAIN d : d[k] \in Int
    BY LenProperties, ElementOfSeq
  <1>1. IsFiniteSet(DOMAIN d)
    BY <1>0, FS_Interval
  <1>2. PICK h : /\ Product(d) = h[DOMAIN d]
                 /\ h[{}] = 1
                 /\ \A s \in SUBSET DOMAIN d :
                      s # {} => One(s) \in s /\ h[s] = d[One(s)] * h[s \ {One(s)}]
    BY <1>1, ProductStep
  <1> DEFINE Bad == {s \in SUBSET DOMAIN d : h[s] \notin Int}
             Sizes == {Cardinality(s) : s \in Bad}
  <1>3. Bad = {}
    <2> SUFFICES ASSUME Bad # {} PROVE FALSE
      OBVIOUS
    <2>1. Sizes \subseteq Nat /\ Sizes # {}
      BY <1>1, FS_Subset, FS_CardinalityType
    <2>2. PICK s \in Bad : \A t \in Bad : Cardinality(s) <= Cardinality(t)
      <3>1. PICK n \in Sizes : \A m \in Sizes : n <= m
        BY <2>1, LeastNatural
      <3>2. PICK s \in Bad : n = Cardinality(s)
        BY <3>1
      <3>3. \A t \in Bad : Cardinality(t) \in Sizes
        OBVIOUS
      <3> QED BY <3>1, <3>2, <3>3
    <2>3. s # {} /\ h[s] = d[One(s)] * h[s \ {One(s)}] /\ One(s) \in s
      <3>1. s \in SUBSET DOMAIN d /\ h[s] \notin Int
        BY <2>2
      <3>2. s # {}
        <4>1. h[{}] \in Int
          BY <1>2
        <4> QED BY <3>1, <4>1, Zenon
      <3> QED BY <1>2, <3>1, <3>2
    <2>4. s \ {One(s)} \notin Bad
      BY <1>1, <2>2, <2>3, OneSmaller
    <2>5. d[One(s)] \in Int /\ h[s \ {One(s)}] \in Int
      BY <1>0, <2>3, <2>4
    <2>6. d[One(s)] * h[s \ {One(s)}] \in Int
      BY <2>5
    <2> QED BY <2>2, <2>3, <2>6
  <1> QED BY <1>2, <1>3

(* The order makes no difference. *)
LEMMA ProductOfThree ==
  ASSUME NEW d \in Seq(Int), Len(d) = 3
  PROVE  Product(d) = d[1] * d[2] * d[3]
PROOF
  <1>0. DOMAIN d = {1, 2, 3} /\ d[1] \in Int /\ d[2] \in Int /\ d[3] \in Int
    <2>1. DOMAIN d = 1 .. 3
      BY LenProperties
    <2>2. \A k \in 1 .. 3 : d[k] \in Int
      BY <2>1, ElementOfSeq
    <2> QED BY <2>1, <2>2
  <1>1. IsFiniteSet(DOMAIN d)
    BY LenProperties, FS_Interval
  <1>2. PICK h : /\ Product(d) = h[DOMAIN d]
                 /\ h[{}] = 1
                 /\ \A s \in SUBSET DOMAIN d :
                      s # {} => One(s) \in s /\ h[s] = d[One(s)] * h[s \ {One(s)}]
    BY <1>1, ProductStep
  <1>3. ASSUME NEW k \in {1, 2, 3} PROVE h[{k}] = d[k]
    <2>1. {k} \in SUBSET DOMAIN d /\ {k} # {}
      BY <1>0
    <2>2. One({k}) \in {k} /\ h[{k}] = d[One({k})] * h[{k} \ {One({k})}]
      BY <1>2, <2>1
    <2>3. {k} \ {k} = {}
      OBVIOUS
    <2>4. h[{k}] = d[k] * 1
      BY <1>2, <2>2, <2>3
    <2> QED BY <1>0, <2>4
  <1>4. ASSUME NEW j \in {1, 2, 3}, NEW k \in {1, 2, 3}, j # k
        PROVE  h[{j, k}] = d[j] * d[k]
    <2>1. {j, k} \in SUBSET DOMAIN d /\ {j, k} # {}
      BY <1>0
    <2>2. One({j, k}) \in {j, k} /\ h[{j, k}] = d[One({j, k})] * h[{j, k} \ {One({j, k})}]
      BY <1>2, <2>1
    <2>3. {j, k} \ {j} = {k} /\ {j, k} \ {k} = {j}
      BY <1>4
    <2>4. h[{j, k}] = d[j] * d[k] \/ h[{j, k}] = d[k] * d[j]
      BY <1>3, <2>2, <2>3
    <2>5. \A x, y \in Int : x * y = y * x
      OBVIOUS
    <2> QED BY <1>0, <2>4, <2>5
  <1> DEFINE S == {1, 2, 3}
  <1>5. S \ {1} = {2, 3} /\ S \ {2} = {1, 3} /\ S \ {3} = {1, 2}
    OBVIOUS
  <1>6. \/ h[DOMAIN d] = d[1] * (d[2] * d[3])
        \/ h[DOMAIN d] = d[2] * (d[1] * d[3])
        \/ h[DOMAIN d] = d[3] * (d[1] * d[2])
    <2>1. One(S) \in S /\ h[S] = d[One(S)] * h[S \ {One(S)}]
      BY <1>0, <1>2
    <2>2. h[{2, 3}] = d[2] * d[3] /\ h[{1, 3}] = d[1] * d[3] /\ h[{1, 2}] = d[1] * d[2]
      BY <1>4
    <2>3. DOMAIN d = S
      BY <1>0
    <2> HIDE DEF S
    <2>4. One(S) \in {1, 2, 3}
      BY <2>1 DEF S
    <2>5. CASE One(S) = 1
      BY <1>5, <2>1, <2>2, <2>3, <2>5
    <2>6. CASE One(S) = 2
      BY <1>5, <2>1, <2>2, <2>3, <2>6
    <2>7. CASE One(S) = 3
      BY <1>5, <2>1, <2>2, <2>3, <2>7
    <2> QED BY <2>4, <2>5, <2>6, <2>7
  <1>7. \A x, y, z \in Int : /\ x * (y * z) = x * y * z
                            /\ y * (x * z) = x * y * z
                            /\ z * (x * y) = x * y * z
    OBVIOUS
  <1> QED BY <1>0, <1>2, <1>6, <1>7

-----------------------------------------------------------------------------
LEMMA NumberAt ==
  ASSUME NEW d \in Seq(Int), NEW k \in 1 .. Len(d)
  PROVE  d[k] \in Int
PROOF BY ElementOfSeq

LEMMA NodeDims ==
  ASSUME NEW m \in Models
  PROVE  /\ m.inputs \in Seq(Nodes) /\ m.outputs \in Seq(Nodes)
         /\ \A k \in DOMAIN m.inputs :
              /\ m.inputs[k].dims \in Seq(Int)
              /\ m.inputs[k].name = "images" => Len(m.inputs[k].dims) = 4
         /\ \A k \in DOMAIN m.outputs :
              m.outputs[k].dims \in Seq(Int) /\ Len(m.outputs[k].dims) >= 3
PROOF
  <1>1. m.inputs \in Seq(Nodes) /\ m.outputs \in Seq(Nodes)
    BY ModelsAssumption
  <1>2. \A k \in DOMAIN m.inputs : m.inputs[k] \in Nodes
    BY <1>1, ElementOfSeq, LenProperties
  <1>3. \A k \in DOMAIN m.outputs : m.outputs[k] \in Nodes
    BY <1>1, ElementOfSeq, LenProperties
  <1> QED BY <1>1, <1>2, <1>3, ModelsAssumption DEF Nodes

TypeInv == TensorInv /\ MTypeOK /\ i >= 1

LEMMA TypeStep == TypeInv /\ [MNext]_mvars => TypeInv'
PROOF
  <1> SUFFICES ASSUME TypeInv, [MNext]_mvars PROVE TypeInv'
    OBVIOUS
  <1>0. TensorInv'
    BY TensorStep DEF TypeInv
  <1> USE <1>0 DEF TypeInv, MTypeOK, Go, KeepUser, inputVars, outputVars, ortVars, valueVars,
          lookVars, chosenVars
  <1>1. CASE ChangeFrame \/ UNCHANGED mvars
    BY <1>1 DEF ChangeFrame, mvars
  <1>2. CASE LoadDMLResource \/ ReadFrame
    <2>1. CASE LoadDMLResource
      BY <2>1 DEF LoadDMLResource, Checked
    <2>2. CASE ReadFrame
      BY <2>2 DEF ReadFrame, Checked
    <2> QED BY <1>2, <2>1, <2>2
  <1>3. CASE NoInputByName \/ NoInputByShape \/ NoOutputByName \/ NoOutputByShape
    <2>1. CASE NoInputByName
      BY <2>1 DEF NoInputByName, Checked
    <2>2. CASE NoOutputByName
      BY <2>2 DEF NoOutputByName, Checked
    <2>3. CASE NoInputByShape \/ NoOutputByShape
      BY <2>3 DEF NoInputByShape, NoOutputByShape, Checked
    <2> QED BY <1>3, <2>1, <2>2, <2>3
  <1>4. CASE Conclude \/ EndLoop \/ GiveUp
    <2>1. CASE Conclude \/ EndLoop
      BY <2>1 DEF Conclude, EndLoop, Checked
    <2>2. CASE GiveUp
      <3>1. /\ pc' = "release" /\ temp_names' \in Nat /\ typeinfos' \in Nat
            /\ UNCHANGED <<process_frame, model, i, chosenVars, inputVars, outputVars, held,
                           valueVars>>
        BY <2>2 DEF GiveUp
      <3> QED BY <3>1 DEF Checked
    <2> QED BY <1>4, <2>1, <2>2
  <1>5. CASE CreateEnv \/ CreateSessionOptions \/ CreateSession \/ CreateCpuMemoryInfo
    BY <1>5 DEF CreateEnv, CreateSessionOptions, CreateSession, CreateCpuMemoryInfo, Create, Checked
  <1>6. CASE InputByName \/ InputByShape
    <2>1. /\ i \in DOMAIN model.inputs
          /\ input_dims' = model.inputs[i].dims
          /\ input_tensor_size' = input_tensor_size * Product(input_dims')
      BY <1>6, NodeDims, LenProperties DEF InputByName, InputByShape, LookAtInput
    <2>2. input_dims' \in Seq(Int) /\ input_tensor_size' \in Int
      <3>1. input_dims' \in Seq(Int)
        BY <2>1, NodeDims
      <3>2. Product(input_dims') \in Int /\ input_tensor_size \in Int
        BY <3>1, ProductType
      <3> QED BY <2>1, <3>1, <3>2
    <2>3. /\ UNCHANGED <<process_frame, model, chosenVars, outputVars, held, valueVars>>
          /\ temp_names' \in Nat /\ typeinfos' \in Nat
      BY <1>6 DEF InputByName, InputByShape, LookAtInput, Look
    <2>4. CASE TakeInput
      <3>1. Len(input_dims') = 4
        BY <1>6, <2>1, <2>4, NodeDims DEF InputByName, InputByShape, SquareInput, TakeInput, PassOver
      <3>2. input_dims'[3] \in Int
        <4>1. input_dims' \in Seq(Int) /\ 3 \in 1 .. Len(input_dims')
          BY <2>2, <3>1
        <4> QED BY <4>1, NumberAt
      <3> QED BY <2>2, <2>3, <2>4, <3>2 DEF TakeInput, Checked
    <2>5. CASE ~TakeInput
      <3>1. /\ UNCHANGED <<input_idx, hr_in, Input_size>>
            /\ i' \in {i, i + 1} /\ pc' \in {"images", "inputs", "release"}
        BY <1>6, <2>5 DEF InputByName, InputByShape, PassOver
      <3> QED BY <2>2, <2>3, <3>1 DEF Checked
    <2> QED BY <2>4, <2>5
  <1>7. CASE OutputByName \/ OutputByShape
    <2>1. i \in DOMAIN model.outputs /\ output_dims' = model.outputs[i].dims
      BY <1>7, NodeDims, LenProperties DEF OutputByName, OutputByShape, LookAtOutput
    <2>2. output_dims' \in Seq(Int) /\ output_dims'[2] \in Int /\ output_dims'[3] \in Int
      <3>1. output_dims' \in Seq(Int) /\ Len(output_dims') >= 3
        BY <2>1, NodeDims
      <3> QED BY <3>1, ElementOfSeq, LenProperties
    <2>3. /\ UNCHANGED <<process_frame, model, chosenVars, inputVars, held, valueVars>>
          /\ temp_names' \in Nat /\ typeinfos' \in Nat
          /\ output_names_is_v8' \in BOOLEAN
      <3>1. /\ UNCHANGED <<process_frame, model, chosenVars, inputVars>> /\ LookAtOutput
            /\ \/ output_names_is_v8' = (frame = "yolov8")
               \/ output_names_is_v8' = output_names_is_v8
        BY <1>7 DEF OutputByName, OutputByShape
      <3>2. UNCHANGED <<held, valueVars>> /\ temp_names' \in Nat /\ typeinfos' \in Nat
        BY <3>1 DEF LookAtOutput, Look
      <3> QED BY <3>1, <3>2
    <2>4. CASE TakeOutput
      <3>1. Anchorbox_num' \in Int /\ num_classes' \in Int
        <4>1. /\ Anchorbox_num' \in {output_dims'[3], output_dims'[2]}
              /\ num_classes' \in {output_dims'[2] - 4, output_dims'[3] - 5}
          BY <2>4, Zenon DEF TakeOutput
        <4> HIDE DEF TypeInv
        <4> QED BY ONLY <2>2, <4>1
      <3>2. output_idx' = i /\ hr_out' = TRUE /\ i' = i /\ pc' = "sum"
        BY <2>4 DEF TakeOutput
      <3> QED BY <2>2, <2>3, <3>1, <3>2
    <2>5. CASE ~TakeOutput
      <3>1. /\ UNCHANGED <<output_idx, hr_out, Anchorbox_num, num_classes>>
            /\ i' = i + 1 /\ pc' \in {"named", "shaped"}
        BY <1>7, <2>5 DEF OutputByName, OutputByShape, NextOutput
      <3> QED BY <2>2, <2>3, <3>1 DEF Checked
    <2> QED BY <2>4, <2>5
  <1>8. CASE CreateInputTensor
    <2>1. tensors = {} /\ tensors' = {"input"}
      BY <1>8 DEF CreateInputTensor, CreateTensor, TensorInv, BeforeInput
    <2> QED BY <1>8, <2>1, TensorCounts DEF CreateInputTensor, CreateTensor, Checked
  <1>9. CASE CreateOutputTensor
    <2>1. tensors = {"input"} /\ tensors' = {"input", "output"}
      BY <1>9 DEF CreateOutputTensor, CreateTensor, TensorInv, BeforeOutput
    <2> QED BY <1>9, <2>1, TensorCounts DEF CreateOutputTensor, CreateTensor, Checked
  <1>10. CASE Preprocess
    <2>1. frames' \in 0 .. MaxFrames /\ values' \in Nat
      BY <1>10, MaxFramesAssumption DEF Preprocess
    <2> QED BY <1>10, <2>1 DEF Preprocess
  <1>11. CASE Release
    <2>1. values' \in Nat
      BY <1>0 DEF TensorInv
    <2> QED BY <1>11, <2>1, ReleaseFrame DEF Freeing, Checked
  <1> QED
    BY <1>1, <1>2, <1>3, <1>4, <1>5, <1>6, <1>7, <1>8, <1>9, <1>10, <1>11 DEF MNext

LEMMA InitType == MInit => TypeInv
PROOF
  <1> SUFFICES ASSUME MInit PROVE TypeInv
    OBVIOUS
  <1>1. <<>> \in Seq(Int)
    OBVIOUS
  <1>2. MTypeOK
    <2>1. /\ input_dims \in Seq(Int) /\ output_dims \in Seq(Int)
          /\ {input_tensor_size, Input_size, Anchorbox_num, num_classes} \subseteq Int
          /\ i \in Nat /\ input_idx \in Nat /\ output_idx \in Nat
          /\ values \in Nat /\ frames \in 0 .. MaxFrames
      BY <1>1, MaxFramesAssumption DEF MInit
    <2>2. /\ process_frame \in Frameworks /\ model \in Models /\ pc = "load"
          /\ Postprocess = "none" /\ frame = "none"
          /\ hr_in = FALSE /\ hr_out = FALSE /\ output_names_is_v8 = FALSE
          /\ held = {} /\ tensors = {} /\ temp_names = 0 /\ typeinfos = 0
      BY DEF MInit
    <2> QED BY <2>1, <2>2 DEF MTypeOK
  <1>3. i >= 1
    BY DEF MInit
  <1> QED BY <1>2, <1>3, InitTensor DEF TypeInv

LEMMA TypesHold == MSpec => []TypeInv
PROOF BY InitType, TypeStep, PTL DEF MSpec

(* The variables of a load keep their types for any models: the size that  *)
(* GetLayerInfo multiplies up is a number, no tensor is released that no   *)
(* call has made.                                                          *)
THEOREM ModelTypes == MSpec => []MTypeOK
PROOF
  <1>1. TypeInv => MTypeOK
    BY DEF TypeInv
  <1> QED BY <1>1, TypesHold, PTL

-----------------------------------------------------------------------------
(* What the sizes post-processing works with have to do with the output    *)
(* that was chosen, and what ONNX Runtime has checked of it.               *)
OutputSizes ==
  IF frame = "yolov8"
    THEN Anchorbox_num = output_dims[3] /\ num_classes = output_dims[2] - 4
    ELSE Anchorbox_num = output_dims[2] /\ num_classes = output_dims[3] - 5

ExtentInv ==
  /\ pc \in {"images", "inputs", "tensorIn", "memory", "loop"} \cup BeforeOutput =>
       frame \in Frameworks
  /\ hr_out => OutputSizes
  /\ pc \in {"memory", "loop"} => \A k \in 1 .. 3 : output_dims[k] >= 0

LEMMA ExtentStep == ChosenInv /\ TypeInv /\ ExtentInv /\ [MNext]_mvars => ExtentInv'
PROOF
  <1> SUFFICES ASSUME ChosenInv, TypeInv, ExtentInv, [MNext]_mvars PROVE ExtentInv'
    OBVIOUS
  <1>f. process_frame \in Frameworks
    BY DEF TypeInv, MTypeOK
  <1>h. /\ hr_out \in BOOLEAN
        /\ hr_out => pc \notin {"named", "shaped"} \cup BeforeInput
        /\ pc = "tensorOut" => hr_out
    BY DEF ChosenInv
  <1> HIDE DEF OutputSizes
  <1> USE <1>f, <1>h DEF ExtentInv, BeforeOutput, BeforeInput, Go, inputVars, outputVars, ortVars, chosenVars
  <1>1. CASE ChangeFrame \/ UNCHANGED mvars
    BY <1>1 DEF ChangeFrame, mvars, OutputSizes
  <1>2. CASE LoadDMLResource \/ NoInputByName \/ NoInputByShape \/ NoOutputByName
             \/ NoOutputByShape \/ Conclude \/ EndLoop
    BY <1>2 DEF LoadDMLResource, NoInputByName, NoInputByShape, NoOutputByName,
       NoOutputByShape, Conclude, EndLoop, OutputSizes
  <1>3. CASE GiveUp
    BY <1>3 DEF GiveUp, Checked, Looking, OutputSizes
  <1>4. CASE CreateEnv \/ CreateSessionOptions \/ CreateSession \/ CreateCpuMemoryInfo
    BY <1>4 DEF CreateEnv, CreateSessionOptions, CreateSession, CreateCpuMemoryInfo, Create,
       OutputSizes
  <1>5. CASE ReadFrame
    BY <1>5 DEF ReadFrame
  <1>6. CASE InputByName \/ InputByShape
    <2>1. /\ UNCHANGED <<frame, hr_out, output_dims>> /\ ~hr_out
          /\ pc \in {"images", "inputs"} /\ pc' \in {"images", "inputs", "tensorIn", "release"}
      BY <1>6 DEF InputByName, InputByShape, TakeInput, PassOver
    <2> QED BY <2>1
  <1>7. CASE OutputByName \/ OutputByShape
    <2>1. frame' = frame /\ ~hr_out /\ pc \in {"named", "shaped"} /\ pc' \in {"named", "shaped", "sum"}
      BY <1>7 DEF OutputByName, OutputByShape, TakeOutput, NextOutput
    <2>2. CASE TakeOutput
      <3>1. OutputSizes'
        BY <2>1, <2>2 DEF TakeOutput, OutputSizes
      <3> QED BY <2>1, <3>1
    <2>3. CASE ~TakeOutput
      <3>1. hr_out' = hr_out
        BY <1>7, <2>3 DEF OutputByName, OutputByShape, NextOutput
      <3> QED BY <2>1, <3>1
    <2> QED BY <2>2, <2>3
  <1>8. CASE CreateInputTensor
    BY <1>8 DEF CreateInputTensor, CreateTensor, OutputSizes
  <1>9. CASE CreateOutputTensor
    <2>1. output_dims \in Seq(Int) /\ Len(output_dims) >= 3
      <3>1. output_dims = model.outputs[output_idx].dims /\ output_idx \in DOMAIN model.outputs
        BY <1>9 DEF CreateOutputTensor, CreateTensor, ChosenInv, OutputTaken
      <3> QED BY <3>1, NodeDims DEF TypeInv, MTypeOK
    <2>2. \A k \in 1 .. 3 : SubSeq(output_dims, 1, 3)[k] = output_dims[k]
      BY <2>1, SubSeqProperties
    <2>3. DOMAIN SubSeq(output_dims, 1, 3) = 1 .. 3
      BY <2>1, SubSeqProperties, LenProperties
    <2>4. \A k \in 1 .. 3 : output_dims[k] >= 0
      BY <1>9, <2>2, <2>3 DEF CreateOutputTensor, CreateTensor
    <2> QED BY <1>9, <2>4 DEF CreateOutputTensor, CreateTensor, OutputSizes
  <1>10. CASE Preprocess
    BY <1>10 DEF Preprocess, OutputSizes
  <1>11. CASE Release
    BY <1>11, ReleaseFrame DEF Freeing, OutputSizes
  <1> QED
    BY <1>1, <1>2, <1>3, <1>4, <1>5, <1>6, <1>7, <1>8, <1>9, <1>10, <1>11 DEF MNext

LEMMA Monotone ==
  ASSUME NEW a \in Nat, NEW b \in Nat, NEW c \in Nat, a <= b
  PROVE  a * c <= b * c
PROOF
  <1>1. b * c = a * c + (b - a) * c
    OBVIOUS
  <1>2. (b - a) * c >= 0
    OBVIOUS
  <1> QED BY <1>1, <1>2

LEMMA BatchIsNoSmaller ==
  ASSUME NEW a \in Nat \ {0}, NEW b \in Nat, NEW c \in Nat
  PROVE  b * c <= a * b * c /\ c * b <= a * b * c
PROOF
  <1>1. 1 * b <= a * b
    BY Monotone
  <1>2. a * b \in Nat
    OBVIOUS
  <1>3. b * c <= (a * b) * c
    BY <1>1, <1>2, Monotone
  <1>4. c * b = b * c
    OBVIOUS
  <1> QED BY <1>3, <1>4

LEMMA GridIsNatural == Input_size \in Int => Grid(Input_size) \in Nat
PROOF
  <1> SUFFICES ASSUME Input_size \in Int PROVE Grid(Input_size) \in Nat
    OBVIOUS
  <1>1. \A q \in Int : q * q \in Nat
    OBVIOUS
  <1>2. \A s \in {8, 16, 32} : Input_size \div s \in Int
    OBVIOUS
  <1> QED BY <1>1, <1>2 DEF Grid

LEMMA ExtentFits == ChosenInv /\ TypeInv /\ ExtentInv => ReadsStayInside
PROOF
  <1> SUFFICES ASSUME ChosenInv, TypeInv, ExtentInv,
                      pc = "loop", Len(output_dims) = 3, output_dims[1] > 0,
                      Postprocess = frame, num_classes > 0,
                      frame = "yolox" => Grid(Input_size) <= Anchorbox_num
               PROVE  Extent <= Product(output_dims)
    BY DEF ReadsStayInside
  <1> DEFINE d == output_dims
  <1>1. d \in Seq(Int) /\ Input_size \in Int
    BY DEF TypeInv, MTypeOK
  <1>2. d[1] \in Nat \ {0} /\ d[2] \in Nat /\ d[3] \in Nat
    <2>1. d[1] \in Int /\ d[2] \in Int /\ d[3] \in Int
      <3>1. 1 \in 1 .. Len(d) /\ 2 \in 1 .. Len(d) /\ 3 \in 1 .. Len(d)
        OBVIOUS
      <3> HIDE DEF d
      <3> QED BY <1>1, <3>1, NumberAt
    <2>2. d[1] >= 0 /\ d[2] >= 0 /\ d[3] >= 0
      BY DEF ExtentInv
    <2> QED BY <2>1, <2>2
  <1>3. Product(d) = d[1] * d[2] * d[3]
    BY <1>1, ProductOfThree
  <1>4. OutputSizes /\ frame \in Frameworks
    BY DEF ExtentInv, ChosenInv
  <1>5. d[2] * d[3] <= Product(d) /\ d[3] * d[2] <= Product(d)
    BY <1>2, <1>3, BatchIsNoSmaller
  <1> HIDE DEF d
  <1>6. CASE frame = "yolov5"
    <2>1. Extent = d[2] * (5 + (d[3] - 5))
      BY <1>4, <1>6 DEF Extent, OutputSizes, d
    <2>2. 5 + (d[3] - 5) = d[3]
      BY <1>2
    <2> QED BY <1>5, <2>1, <2>2 DEF d
  <1>7. CASE frame = "yolox"
    <2>1. Extent = Grid(Input_size) * (5 + (d[3] - 5)) /\ Grid(Input_size) <= d[2]
      BY <1>4, <1>7 DEF Extent, OutputSizes, d
    <2>2. 5 + (d[3] - 5) = d[3]
      BY <1>2
    <2>3. Grid(Input_size) \in Nat
      BY <1>1, GridIsNatural
    <2>4. Grid(Input_size) * d[3] <= d[2] * d[3]
      BY <1>2, <2>1, <2>3, Monotone
    <2>5. Grid(Input_size) * d[3] \in Int /\ d[2] * d[3] \in Int /\ Product(d) \in Int
      BY <1>1, <1>2, <2>3, ProductType
    <2>6. Grid(Input_size) * d[3] <= Product(d)
      BY <1>5, <2>4, <2>5
    <2> QED BY <2>1, <2>2, <2>6 DEF d
  <1>8. CASE frame = "yolov8"
    <2>1. Extent = d[3] * (4 + (d[2] - 4))
      BY <1>4, <1>8 DEF Extent, OutputSizes, d
    <2>2. 4 + (d[2] - 4) = d[2]
      BY <1>2
    <2> QED BY <1>5, <2>1, <2>2 DEF d
  <1> QED BY <1>4, <1>6, <1>7, <1>8 DEF Frameworks

(* For any model of three output dimensions, of whichever framework: while *)
(* the two readings of process_frame agree, post-processing stays inside   *)
(* the tensor the model fills.                                             *)
THEOREM PostprocessStaysInside == MSpec => []ReadsStayInside
PROOF
  <1>1. MInit => ChosenInv /\ TypeInv /\ ExtentInv
    <2>1. MInit => ExtentInv
      BY DEF MInit, ExtentInv, BeforeOutput
    <2> QED BY <2>1, InitType, InitChosen
  <1> QED BY <1>1, ChosenStep, TypeStep, ExtentStep, ExtentFits, PTL DEF MSpec
=============================================================================
