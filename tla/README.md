# SF_DML: a TLA+ model of its threads, its mouse devices, its hand-offs and its settings

SF_DML is a Windows program of one process and three kinds of thread. A Dear ImGui window lets
the user choose a model, a mouse device ("move way") and some settings. *Create* starts an inference
thread, which grabs the screen, runs an ONNX model through DirectML and publishes the boxes it
found; it starts in turn a lock thread, which chooses a box and moves the mouse. The threads share
plain, unlocked globals (`Signl`, `Variables`, `Value`, `Process`, `MoveWay`, `LockMode`).
The program's own code is `src/src/` (2 759 lines) and the headers of two closed libraries
in `src/include/`; everything else in the repository is vendored and is left aside.

Paths below are relative to the repository, `dml-module.cpp:315` means `src/src/dml-module.cpp`.

## 1. Inventory

| Component | State | Operations | Talks to | What makes it correct |
|---|---|---|---|---|
| UI frame loop (`sf-trt.cpp`, `sf-trt.h`) | `ImGuiWinStop`, `ThreadReady`, `ThreadStopSignl`, all settings | `start_main` loop, `InferenceUI` (Create, Exit), settings pages | inference thread by flags and `DMLFrame` | Create starts a session iff none is there; Exit ends the one there is |
| Inference thread (`dml-module.cpp`) | static handle `dml_thread`, `DMLModel` | `DMLFrame`, `DMLThread` | UI flags, `SF_DXGI`, `LockMode`, `Process` | one thread at a time; resources held while the loop runs and released at its end; flags reset |
| Lock thread (`lock-module.cpp`) | `lock_event`, `lock_thread`, trigger timers | `InitLock`, `SetLockEvent`, `LockThread` | woken by the inference thread, reads `Process`, calls `MoveWay` | ends with its session; aims at the nearest eligible box; only reads what was published |
| Move ways (`move-way.cpp`) | `Lg`, `yjs`, `conitor`, the pointers `MoveR` and `MoveClose`, `mouse_io` | `InitMove` and its four ways, `LGMove`, `MoveClose` | drivers, MSDK box, user DLL | what is opened is closed once; a move arrives whole |
| Detection results (`framework.cpp`) | vectors `boxes`, `classes`, `indices` | `YoloV5Post`, `YoloXPost`, `YoloV8Post`, NMS | written by the inference thread, read by the lock thread and by `DrawBox` | indices, classes and boxes belong to one frame |
| Model loading (`dml-module.cpp`, `.h`) | session, tensors, layer names, sizes | `InitDML`, `GetModelInfo`, `Release` | `Variables::process_frame`, model file | layer choice, sizes and releases are consistent |
| Trigger and control (`lock-module.cpp`, `control-algorithm.*`) | `auto_start`, `sleep_start`, PID terms | aim offset, PID, FOV, three fire modes, key state | `Value`, `MoveWay` | fires only when due; moves stay within the limit |
| Configuration (`config-module.cpp`) | static root path, `Config_name`, INI files | load, save key by key, both from the frame loop | writes the settings while the threads read them | what was saved is what is loaded; an interrupted save loses no key |
| Window and device (`Imgui-module.cpp`) | D3D11 device, swap chain | create, resize, close | library | - |
| Start-up and utilities (`utils.cpp`) | - | driver, UAC and release checks, code page conversions | system | - |
| `SF_DXGI`, MSDK (`src/include`) | the desktop duplication; the port | `CaptureResource`, `Release`; `M_Open`, `M_MoveR`, `M_Close` | external, no source here | - |

Behaviours that are hard to test:

* *Interleavings.* `DMLFrame` stores the handle after the thread has started; the thread resets the
  flags and the handle itself, one after the other (`dml-module.cpp:315-317`); a lock thread may outlive
  its session and meet the next one in `MoveWay`; `Postprocess` rewrites the vectors under the lock
  thread's loop.
* *Partial failure.* Each of the six steps of a start can fail, and each leaves through one label.
* *Waiting.* The lock thread waits on an auto-reset event without a timeout; signals coalesce.
* *Time.* Two static timers hold the clicks back; each is read before a click, restarted after it, and outlives
  the session and the mode it was used in.
* *Crash.* A save is one call of `WritePrivateProfileString` per key, and the process may end between two.
* *Boundaries.* A packet's field is a signed char; vectors are indexed with stale positions;
  counters and sizes are multiplied and never reset.

`PROJECT.json` lists each hazard at its line, with the property that would catch it or the reason
why none does yet.

## 2. Modules

```
MoveWay  <--EXTENDS--  Session  --implements-->  InferenceSlot
                          |  ----implements, while each session has the device for itself-->  MoveClient
                          ^----- Session_proofs (TLAPS)
MoveWay  <--EXTENDS--  MoveClient  <--EXTENDS--  Trigger  <-- MCTrigger (TLC)
                          ^----- MoveClient_proofs <-- Trigger_proofs
Config                    ^----- MCConfig (TLC), Config_proofs
HandOff                   ^----- HandOff_proofs
GHubMove                  ^----- MCGHubMove (TLC), GHubMove_proofs
ModelInfo                 ^----- MCModelInfo (TLC), ModelInfo_proofs
```

**Session** is the core: the UI thread, the inference thread and the lock thread of every session, and
`MoveWay`. Each thread has a program counter (`ui`, `dml[s]`, `lock[s]`) whose value names the line it
is about to execute; there is one action per access to something another thread can see.

| Code | Model |
|---|---|
| `Signl::ThreadReady`, `ThreadStopSignl`, `ImGuiWinStop` | `threadReady`, `threadStopSignl`, `imGuiWinStop` |
| `static HANDLE dml_thread` | `dml_thread`: a session or `NoThread` |
| value returned by `CreateThread`, still in a register | `reg` |
| `start_main`, `InferenceUI`, the two buttons | `FrameTop`, `Panel`, `PressCreate`, `PressExit`, `LeaveMain` |
| `DMLFrame` (`dml-module.cpp:323-336`) | `FrameNotReady`, `FrameTest`, `FrameCreate`, `FrameStore`, `FrameVerify` |
| `DMLThread` up to the loop | `InitDML`, `CaptureResource`, `CreateLockEvent`, `InitMoveWay`, `CreateLockThread` |
| its loop | `LoopTest`, `Detect`, `LockStart` |
| from the loop's end, or the label `Free` | `CaptureRelease`, `DmlRelease`, `ResetStop`, `ResetReady`, `ResetHandle` |
| `LockThread` | `LockCheck`, `LockWait`, `LockWake`, `LockDecide`, `LockMove`, `LockClose`, `LockForget` |

A panel is drawn from one reading of `ThreadReady`, and its button acts on whatever is true when it is
pressed: that is why `Panel` and the presses are separate steps. Two decisions need a word:

* `KeepRunning`, the condition of both loops, reads its two flags in one step. `ImGuiWinStop` only
  ever falls, so a test that reads `ThreadStopSignl` first and `ImGuiWinStop` later gives TRUE only
  when the two were TRUE together at the first reading. It gives FALSE in states in which one reading
  of both, at the moment of the decisive one, gives FALSE too.
* `FrameVerify` (`dml-module.cpp:327`) tests the global just assigned while the new thread may be
  resetting it: a data race. The build may keep the value in a register or load it again, and the
  action allows both outcomes.

**MoveWay** has no behaviour of its own: it defines the state of the singleton and what each function
does to it, as actions that **Session** (from all threads) and **MoveClient** (from one client at a
time, the intended use; the way of each start is any, since a radio button or a load may have changed it) put to work. `ports` counts, per device, what was opened outside and not closed.
`LGMoveClose` is two steps, since `NtClose` and the assignment of null can be separated by another thread. The cases in which
`InitMove` answers TRUE and a pointer is not what a session needs are in the model as they are in the code:

* `Customize` tests `CustomizeConitor` alone (`move-way.cpp:164`): of `CustomizeMove` and `CustomizeFree` each may be missing, and `MoveR` or
  `MoveClose` is then null (`Export`). A DLL without `CustomizeInit` is called through null on the spot (`NullInit`).
* The `switch` has no default: a `move_way` no radio button gives, read from a file without a test (`config-module.cpp:147`), is the way
  `"unknown"`. The pointers stay as they were, null in a first session (`InitUnknown`).
* When `CreateThread` fails after it (`lock-module.cpp:281-286`), nothing undoes the `InitMove` (`Abandon`).

A call through a null pointer ends the process; in **Session** it is `NullInitCall` or `NullCall`, in **Trigger** `NullMove`, in **MoveClient**
`EndProcess`. Two ghosts let properties tell these cases apart without leaving them out: `fit` is false after a start that succeeded on
an unknown way or on a DLL that lacks one of the two functions, and `left` is the set of devices open because no lock thread was created.

**InferenceSlot** is the abstract specification of the start and exit buttons: one slot, taken only when free,
given back once. `Session` implements it under `holders <- Holders`, `used <- Used`.

**MoveClient** is the second abstract specification: the protocol `InitMove`, moves, `MoveClose` of one client, in which a start may also
fail for want of a lock thread (`StartFails`) and the process may end at any point (`EndProcess`). The threads of
`Session` follow it under `phase <- Phase` except where `lock-module.cpp` does not keep to it: two sessions on the device
(`OneUser` is false). `OrderlyUse` says that every other step is a
`MoveClient` step, `OnlyLeftOversShare` that two sessions meet on the device only through a lock thread left over by the first.

**HandOff** is one frame's way from `Postprocess` to the choice of a target. A box is its squared
distance from the centre, all that the choice reads. The writer's steps are the three `clear`s, the pushes
and suppression; the reader's are the steps of `LockThread` between two waits. The number of anchors
and the outcome of suppression are free within what `NMSBoxes` guarantees (distinct indices of boxes; there may
be none, because `YoloXPost` pushes a detection whose confidence is just the threshold and suppression wants more). Reading past the end of a vector is undefined behaviour; the model stops
the reader in `"fault"` and claims nothing of what follows. `quiet` is a ghost: no `Postprocess` step and
no tick of a class has happened since the reader woke. `YoloXPost` pushes a detection's class before its
box, the other two after; the model has the latter order, and the properties do not look between the two.

**Trigger** composes `MoveClient` with what `LockThread` does once it has a target (`lock-module.cpp:165-260`).
`Aim` is lines 165 to 209, all on locals: lead, range, control, limit, debounce. The rest of a pass is `RefreshSleep`
(the first reading of the key), `Fire` or `HoldStill` (the second), `Shoot` or `HoldFire` (box and timer),
`LeftButtonClick` and `RestartTimer`; without the trigger it is `MoveOnly`. A pass without a target, or dropped by range or debounce,
changes at most `fame_temp`. Switches, keys and the mode are read while the
user changes them, so each reading is free, and the copy of the mode that the `switch` works on is `model`. FOV and PID control
are floating point: their outputs are any of `Offsets`. A timer is its age, exact up to `Cap`; `gap` and `up` are ghosts that
remember when a timer last let a click out and when the key was last seen up. `NullConitor` is the call of
`IGetAsyncKeyState` through a null pointer, `NullMove` that of `MoveR`; either ends the process (`lock = "fault"`). The limit `MaxPixels` is
any integer, since its field (`sf-trt.cpp:213`) has no bounds. In C++ `x` and `y` are floats;
the comparisons made with them are the model's, on integers.

**Config** is `config-module.cpp` and the part of the frame loop that calls it. A value is the text the file holds for it, a
path the sequence of its components, a file a function from keys to texts in which `Absent` is a key that is not there.
`SaveParame` is the path, the creation of the file and the position at the first key; `WriteConfig` writes one key;
`Stop` may come anywhere, and takes the settings and the static `root_path` with it while the files stay. `image` is a ghost: per file, what its last completed save
had to write, for the keys that the UI thread alone sets (`Own`). The key `max_range` is not one of them: `GetModelInfo` sets it on the inference thread (`dml-module.cpp:109`, `:125`), and
`Infer` may do so between any two steps, those of a save included. `move_dll`, `customize_data`, `lock_key_switch` and `dx_gpu_idx` have a
widget and no key in `OperationParame`: they are settings (`Unsaved`) that no save writes, no load changes and every end of the process loses. A key
that is absent loads as "0" if it is a number and as the empty text if it is a string (`Strings`). The six decimals of `std::to_string` are enough for every slider, so that a number and its text are taken for the same. An
edit is one key of one frame. The keys, in the order of `OperationParame`, are the constant `Order`.

**GHubMove** is `LGMove`: the tail recursion is the loop from `stepY` back to `test`, `Char` is the
conversion of an int to a signed char. `asked` and `moved` are ghosts.

**ModelInfo** is `DMLModel`: `InitDML`, the two passes over the inputs and the two over the outputs of
`GetModelInfo` (one action per turn of a loop and one for its end), the frames, and `Release`. A model is a
record of named nodes with dimensions. `GiveUp` is the failure of any call under `CHECKORT` or `asserthr`.
`held` and `tensors` are what the object points to, `values` counts the tensors that exist; `ChangeFrame` is a
configuration load on the UI thread, the one way `process_frame` changes while the radio buttons are hidden. `temp_names` counts the names the
allocator has given and `typeinfos` the `OrtTypeInfo`s obtained: every look at a node takes one of each, and nothing ever
gives them back (`Look`). `Release` is one action per object, in the order of the lines, which the comment at `dml-module.cpp:312` calls wrong; no other thread touches the
object, so the order shows in the model only as the states in between. `Extent` is how far the
post-processing that was pointed to reads, from the arguments `GetModelInfo` has left for it. In the code a failing
`SessionGetOutputName` is not looked at; the model lets that call succeed, and takes the first checked call after it as the one that fails. The `OrtStatus` of appending the DirectML
provider (line 52) is neither looked at nor released, and is not counted.

Operators named `<Definition>_<Fault>` and marked "Faulty" sit before the definition they vary. No
specification uses them; each is a plausible bug that must break a property, and so shows
that the property depends on the code.

## 3. Runs

| Run | Configuration | Question | Result |
|---|---|---|---|
| `session` | 2 sessions, the two-step way, the DLL and an unknown way, fairness of the inference threads; 1.4 million states | Is there at most one inference thread, is the start panel honest, does a running loop keep its resources, is a stop kept, is the slot implemented, is the device used as `MoveClient` says, is a null pointer called only after an unfit start, is the capture given back, does a loop end after Exit? | holds |
| `trigger` | five ways in any order, 2 offsets per axis, ages to 2, two ports open at most; 4.7 million states | Is everything that is opened closed, and by the right way's function, but after a start without a lock thread? Are moves limited and clicks held back as long as they should? Does a session on a DLL with its exports call no null pointer? | holds |
| `config` | 5 keys and a setting without one, 4 names, 2 directories, 2 saves, `max_range` set and the process ending anywhere; 2.3 million states | Is what was saved what is loaded? Does an interrupted save lose a number? Do saves go to the name on the screen, and does KeepSave keep the keys of the last frame? | holds |
| `ghub_move` | 14 lengths per axis | Does a move arrive whole, without overshoot, in as many packets as its longer axis needs, and does `LGMove` return? | holds |
| `hand_off` | 2 anchors, 2 distances, a class that can be ticked and one that cannot; 1.6 million states | Do published vectors match, does an undisturbed pass aim at the nearest eligible box and miss none? | holds |
| `model_info` | 13 models, 2 frames; 39 000 states | Are the dimensions kept those of the chosen nodes, does a release leave nothing but the frames' tensors and what the looks at nodes took, does post-processing stay inside the output? | holds |
| `lock_stop` | fairness | Does the stop signal reach the lock thread? | violated |
| `ready_when_idle` | | With no thread and no start under way, is the start panel drawn? | violated |
| `starts_armed` | | Does a session start with the stop signal reset? | violated |
| `indices_race` | 1 anchor | Do the indices have boxes while the lock thread goes through them? | violated |
| `model_names` | 1 frame | Can a model that `GetModelInfo` accepts be run under the names `Detect` uses? | violated |
| `shot_on_target` | as `trigger` | Does the mode that shoots within the target shoot only there? | violated |

Properties of the passing runs that need several threads to break:

* `SlotExclusive` holds although the handle that guards `CreateThread` is neither atomic nor joined:
  `ThreadReady` is written before the test and is given back by the thread just before the handle.
* `ReadyMeansReleased` rests on the order of the resets (`ThreadReady` after the release, before the handle).
* `RunningHasItsResources` says that no leftover lock thread and no failing start takes the capture or the
  event away from a loop.
* `StopIsKept` says that the reset of one session never eats the stop of another. The violated
  `StartsArmed` is its complement: a stop pressed late does reach into the next session.
* `OnlyLeftOversShare` and `OrderlyUse` say where the shared device may go wrong and that it goes wrong nowhere else: sharing
  starts with a lock thread that outlives its session, never with two sessions of which both are under way.
* `CaptureGivenBack` says that the duplication is given back before the model is freed and stays free until the thread is over, whichever
  session starts next; a start that fails after `CaptureResource` is outside it, since that one does keep it.
* `LockAfterInit` says that the calls through null which `Customize` and the `switch` let pass are the only ones: a lock thread, left over or
  not, meets an unset pointer only while the last start to succeed was unfit. Without `fit` the statement is false.
* `HeldDeviceIsTheOneClosed` relates the pointers to the device across failed, unknown and changed ways: they never name another device than the
  one that is held, and name it unless the DLL lacks the function. `NothingHeldWhenIdle` says that a device outlives its session only if no
  lock thread was created for it.
* `ClicksAreSpaced` and `ReleaseHoldsFire` relate a click to events of earlier passes, sessions and modes.
* `DllSessionsDoNotFault` rests on `Customize` setting the pointers last: a load that fails half way may leave
  `conitor` null, but then no session runs on the DLL. It is about a DLL with all of its exports.
* `SavedIsLoaded` spans any number of saves elsewhere, loads and ends of the process; `InterruptedSaveLosesNoKey` says that no
  number of a whole file is ever absent, which the next load would read as zero. `KeepSaveKeeps` puts the file, the settings and the path in
  one state: with KeepSave on, ending the process between two frames loses no key that the UI thread alone sets. It does lose the four settings without a key,
  and the file may have an older `max_range` than the program.
* `AimsAtNearest`, `QuietPassIsSafe` and `NoTargetOverlooked` are about passes nobody writes under;
  `indices_race` shows that the others do happen.
* `ChosenNodesAreKept` is about vectors that every node looked at overwrites. `ReleaseLeavesLooksAndFrames` balances what eleven calls, each of
  which may fail, have created against what `Release` gives back: what it does not is a tensor per frame at most, and the names and type
  information of two looks at every node at most.
* `PacketsAreCounted` says that every packet takes exactly one off a number the two lengths determine, however the axes compare.
* `ReadsStayInside` relates the dimensions found to the reads made later; it leaves out a batch of no images, a choice of framework that changed
  between its two readings and a model of another framework run as YOLOX, whose cells come from the input size and not from the output.

**Bounds.** Sessions are never reused, so the number of sessions bounds how often Create succeeds. A
hazard between sessions involves an old thread (or its leftover lock thread) and a new one, so two
suffice to meet each; a failed `CreateThread` is not counted. With three sessions and one move way the
safety properties held as well (2.6 million states), and so did all of them with two sessions and all five ways (2.5 million). The run kept has the ways that differ most for the threads: Ghub, which is released in two steps,
the user's DLL, which may fail, may lack exports and is counted, and the unknown way, which leaves the pointers alone; `trigger` has all five. The violation runs use one move way, since
the others add states and not behaviours. `Anchors = 2` gives empty frames, frames with one box, and
frames with two in either order of suppression, with equal and different distances and classes; a frame
overlapping another needs no third box. Class 4 stands for the classes the switch at `lock-module.cpp:123`
has no case for. `Trigger` has the offsets -9 and 2: on both sides of the centre, within and beyond the limit (3), the debounce (3) and the box (4),
the first in the range (20) only until a lead of 2 is added, the second beyond the limit only with it; an interval of 1 with a random part of 2 gives delays of 1 and 2, none above `Cap`, so that a
click too early and on time are different states. `MaxPorts` ends the count of what one start after another opens and leaves:
at 2 one device is open for want of a lock thread and that device, or another, once more by a session. `Config` has the name, the flag the loop reads, a string, the key the inference thread sets, and one number, which
stands for the others; two names beside the program, one in a directory and the empty one; and `move_dll` for the settings without a key. Two saves make an interrupted one
and another that completes over it, or one to each of two files; a third meets the same files, whole or mixed, that the program may find at its
start. Lengths of `GHubMove` lie on both sides of one, two and three packets (127/128, 254/255,
381/382), on both sides of zero, and as different values on the two axes. The models of `ModelInfo` have
32 x 32 inputs, small enough for the products and large enough for all three strides of YOLOX; there is one
of each framework, named as expected, named otherwise, with another node before and after the one looked for, and some to be turned down
(not square, dimensions left open, nothing that fits); batches of none and of two, a batch of none being what the code accepts by name
and no output can hold.

**Deadlock** is not checked where the system really stops: when the process has ended (`ui = "gone"`),
when the reader has faulted, when the model has been released, when a null pointer was called, or when no save is left while KeepSave is on. `GHubMove` never stops.

**Fairness.** `StopEnds` is checked under `InferenceFairSpec`, weak fairness of each inference thread's loop and release, and so holds
even if the UI thread and the lock threads stand still. `FairSpec`, under which `lock_stop` refutes `StopReachesLock`, adds
the UI thread and each lock thread: the Windows scheduler runs each ready thread, and none of these steps
waits for anything but the event, which is a guard. The start of a session is left out, since it loads
a model of any size and may sit in a message box. A loop iteration ends because `Detect` does. `GFairSpec` says that
`LGMove`, once called, runs.

## 4. Findings

1. **A stop may not reach the lock thread** (`lock-module.cpp:112`). It waits without a timeout, its signaller has left,
   and the inference thread sets the signal back to TRUE without waiting for it. The thread stays, holds
   its device, and wakes in the next session beside the new one.
2. **The start panel may never come back** (`dml-module.cpp:317`). Create pressed between the reset of
   `ThreadReady` and that of the handle makes `ThreadReady` FALSE, sees the old handle and starts nothing. The same
   happens when a thread fails before `DMLFrame` has stored its handle.
3. **A session may start already stopped** (`dml-module.cpp:315`): an Exit drawn before the reset and written after it.
4. **Indices without boxes** (`lock-module.cpp:139`): `Postprocess` clears `boxes` first and `indices` last.
5. **Accepted models that cannot run** (`dml-module.cpp:233`): the searches by shape, and the name `output0` for YOLOv5 and YOLOX,
   lead to a `Run` under names the model does not have.
6. **Shots beside the target** (`lock-module.cpp:230`): the mode described as "do not move, shoot within the target range"
   (`sf-trt.cpp:293`) compares the box with the move after control and limit. With a limit shorter than half the box every target in the
   effective range is shot at, wherever the centre is.

Seen while modelling and not checked as properties, because no statement of the repository is at odds with them: `InitLogitech` answers
TRUE when no device opened (`move-way.cpp:92`); a start that fails in `InitLock` jumps past `sf->Release()`
and keeps the duplication (`dml-module.cpp:279`); two readings of `process_frame` may differ, and the layout of one framework then
goes with the post-processing of another (`dml-module.cpp:89`); a name with a directory in it nests deeper at every save
(`config-module.cpp:17`); with KeepSave on, every prefix of a name being typed becomes a file (`sf-trt.cpp:109`);
BOX monitoring on a way other than the DLL calls through null (`lock-module.cpp:53`); after a pause without targets the fixed delay is already over
(`lock-module.cpp:239`); a leftover lock thread moves through the handle another one has
closed (`move-way.cpp:98`); every frame makes a tensor and only the last is released (`dml-module.cpp:221`).

One disagreement is in the model and in a property that holds, and has no run of its own. `onnxruntime_c_api.h` (`src/include/`) says of the type information of a node
"Must be freed with OrtApi::ReleaseTypeInfo" (lines 1102, 1112) and of its name "Must be freed using `allocator`" (lines 1133, 1144). `GetLayerInfo` and `GetModelInfo`
(`dml-module.cpp:61-84`, `:98`, `:121`, `:142`, `:174`) free neither. `ReleaseLeavesLooksAndFrames` states what is left; that nothing but the frames' tensors is
left would be false in every load that has looked at a node.

## 5. Proofs

TLAPS checks the theorems below for every value of the constants. The assumptions are that `NoThread` is not a
session and `MoveWays` are ways (Session), that `Lengths` are integers (GHubMove), that distances and
classes are natural numbers and `Anchors` is one (HandOff), that offsets and the limit are integers, the other sizes natural numbers and no delay exceeds `Cap` (Trigger),
that a number's text is never empty (a string's may be), that the settings without a key are not keys, names have paths of at least one component, the files found are files, the program starts without KeepSave and with a plain name, and a file found under it gives that name or none (Config), and that the nodes of a model have as many dimensions as the code
reads without asking (ModelInfo).

**Session_proofs.** The type invariant comes first (`TypeCorrect`). `SlotExclusive` is not inductive: that nobody creates a
second thread depends on who holds which handle.

* `HandleInv`: a live inference thread is the one `dml_thread` names, or the one whose handle is in
  `reg` waiting to be stored, while the variable is empty. There is one place for a thread at any time,
  hence one thread (`OneInferenceThread`).
* `ReadyInv`: `ThreadReady` is TRUE, or a start is at its test, only while every thread is past
  `ResetReady`. Given `HandleInv` this is inductive and contains `ReadyMeansReleased` (`ReadyOnlyWhenReleased`).
* `ResourceInv`: at each line of its start a session has what the lines above acquired. Preserving it
  for one session while another releases needs `OneInferenceThread` (`LoopHasItsResources`). It also says that the pointers are set from
  `"spawn"` on, and under every lock thread, if the last start was fit; nothing sets one back to null but an unfit start (`PointersSet`).
* `StopNotTakenBack` is the action property: only `ResetStop` raises the signal, and its thread is
  then the only one alive, so no loop is running.
* `SessionImplementsSlot`: `FrameCreate` maps to `Acquire`, `ResetHandle` to `Release`, the other steps to a
  stutter; that `Acquire` finds the slot empty is `ReadyInv` and `HandleInv` at `"create"`.
* `LockAfterSetUp` says that a lock thread exists only once its session is past `"spawn"`. With `OneInferenceThread` it gives
  `OnlyLeftOversShareTheDevice`: of two sessions on the device at most one inference thread is alive, and a lock thread whose inference
  thread is not alive has lost it to its end.
* `RunsGiveTheCaptureBack` needs the same two facts: while one session frees, no other is at `"capture"`.
* `OrderlyStepsAreClientSteps` goes through the steps of the threads: the lines that touch `MoveWay` map to `Start`, `StartFails`, `StopNtClose`,
  `StopForget` and `StopClose`, the end of the process and the calls through null to `EndProcess`; every other step leaves `MoveWay` and, because only one session uses the device, `Phase` alone
  (`PhaseKept`). It follows that behaviours in which this is so throughout implement `MoveClient` (`OrderlySessionsAreAClient`), and
  that what is proved of `MoveClient` holds of them (`OrderlySessionsLeaveNothingOpen`): its module of theorems is instantiated with the
  mapping. The hypothesis `[]OneUser` is what the code fails to guarantee; it is stated
  in the theorem and not assumed of the code, and every behaviour in which the lock thread ends before the next start
  satisfies it. Failed threads, unknown ways and incomplete DLLs are inside the theorem.

**GHubMove_proofs.** The invariant says that what was sent and what is left add up to what was asked, and that on
`stepY` the x axis has been dealt with. `MoveConserved`, `MoveDelivered` and `MoveDoesNotOvershoot` follow
for every integer length: a packet never exceeds 127, so `Char` changes none (`PacketsFit`). `PacketsCountDown` is the safety half of
`MoveReturns`: `PacketsLeft` is a natural number that each packet lowers by one (`RoundsFall`: a round takes one off each axis that has
any left), so that what TLC adds is only that the steps are taken.

**HandOff_proofs.** `VectorsInv` states what the vectors have in common at each line of `Postprocess`
(empty, of equal length, or one box ahead); `SignalledVectorsMatch` follows for any number of anchors. `HandTypes` adds to the
types that an anchor half pushed is still to be counted (`HandOffTypes`). A quiet pass needs more than its end says: `ScanSoFar` is its loop
invariant, that the local vector holds the pair of every wanted index so far, nothing else and, with classes unused, at the index's own
position. That a first smallest distance exists is well-foundedness of the natural numbers (`LeastNatural`,
`NearestIsLeast`); with `NearestIsBest` and `ScanKeeps` follow `QuietPassStaysInside`, `QuietPassAims` and `QuietPassOverlooksNone`.

**ModelInfo_proofs.** `TensorInv` says which tensors there are at each line, and how many values exist while no frame has
run, and that no more than one is lost per frame, line by line through the release; `LookInv` bounds the looks by the pass and the node it has come to. `OnlyLooksAndFramesAreLost` is their last line. `ChosenInv` says that once `hr_in` or `hr_out` is set the dimension
vector is the chosen node's and no search of that kind goes on; `ChosenNodesStay` follows. The sizes are products of dimensions,
folds in the model. A fold is the function that satisfies its recursive equations, if there is one; that there is one for a finite
sequence is proved by taking a smallest subset for which there is none (`FoldExists`), that it is an integer likewise (`ProductType`), and
for three dimensions it is their product (`ProductOfThree`). This gives the types (`ModelTypes`) and, with the framework's
layout of the output added to the invariant, `PostprocessStaysInside`, where what remains is arithmetic: each of the three extents is at most
the product of the last two dimensions, and a batch of at least one only adds to it. Without that premise the statement is false, since
a batch of none makes the product zero.

**MoveClient_proofs.** `HoldInv` says who holds what in each phase: between sessions nothing but what is `left`, within one the pointers
name its way, or are null where a DLL has no function, and a port is open just when the member that holds it says so. `NothingStaysOpen` and `OpenDeviceIsClosed`
follow; `MonitorInv` adds that a session on the DLL has its `conitor`.

**Trigger_proofs.** Every step is one of `MoveClient` or leaves it alone (`TriggerIsAClient`), so its invariants carry
over (`SessionsLeaveNothingOpen`). Moves:
`MaxMovePixel` bounds any integer (`LimitBounds`), and `x`, `y` are only written through it (`MovesAreLimited`). Time: `ClicksAreSpaced` is not
inductive, since nothing in it says how old the timer is; `TimeInv` adds that the time since a click is never less than the age of
the timer that released it, but for the moment between the click and the restart, that `sleep_start` is no older than the last sight of the key up, and that a
click is under way only with an age of at least the interval (`ClicksKeepTheirDistance`, `ReleaseDelaysFire`). `FaultInv` ties the fault to a session
that is not the DLL's (`DllSessionsReadKeys`).

**Config_proofs.** `TypeInv` adds to the types that no number is the empty text. `SaveInv` is the loop invariant of a save: those of the keys
before `next` that the UI thread alone sets hold the settings, whatever `Infer` has done to the others meanwhile, and the file being written has no image; at the last key, since every key is in `Order`,
the file has those settings (`LoadUndoesSave`). `InterruptedSavesLoseNothing` is an action property and needs `TypeInv` alone.
`PlainInv` says that names without a directory leave the path one component long (`SavesGoToTheName`). `StartInv` says that the file the program
starts from never comes to give another file's name, as only a name that spells its path is saved to it; with the
three invariants before it, `KeepSaveKeeps` follows (`FramesAreKept`).

*Only model-checked:* the liveness properties `StopEnds` and `MoveReturns` (liveness under fairness is out of this prover's reach), and
all violated properties, which are counterexamples and not theorems. Every invariant and action property of a passing run has
its theorem.

## 6. Not modelled

* The decoding of the network's output, the PID and FOV arithmetic: floating point. The Kalman class is constructed and never used.
* The device a click goes to (`auto_click`): `Trigger` has the click and not its path; a sleep between frames (`fps_limit`) is no shared state.
* Of the ONNX Runtime, the calls whose answer the code does not look at are taken to succeed (`SessionGetOutputName`, the DirectML provider).
* What Windows does with the modules `LoadLibraryA` loads again at every start of the DLL way, and never frees.
* Texts that the file's format changes: a name with leading blanks or quotes comes back without them.
* `DrawBox` reads `Process` on the thread that writes it, and so meets no interleaving.
* Window, device, start-up checks, code page conversions: library calls or conversions without shared state.
* `abs(INT_MIN)` in `LGMove`: the lengths it is given are bounded by the screen.

## 7. Plan

Done, in this order: `MoveWay`, `MoveClient`, `InferenceSlot`, `Session`, `GHubMove`, `HandOff`, `ModelInfo`, `Trigger` and `Config`, then
theorems for all their invariants and action properties, and the two refinements of `MoveClient`. Left:

1. **GHubMove with two callers** that share `mouse_io`, as the leftover lock thread of `lock_stop` would.
2. **YoloPost**: the anchor loop as a function against a reference definition.
3. **What a leftover lock thread can do at worst**: an invariant of `ports` and the pointers in `Session` without `OneUser`, for the
   hazards at `lock-module.cpp:264`, `:18` and `move-way.cpp:61`.

Composition: `ModelInfo` details `InitDML`, `Detect` and `DmlRelease` of `Session`; `Trigger` takes the place of `LockDecide`
and `LockMove` for one thread at a time, and its `Elsewhere` is the rest of the program; `HandOff` refines `Detect` and `LockDecide`; the larger models stay separate because
the product of their states is out of TLC's reach.
