------------------------------- MODULE Config -------------------------------
(***************************************************************************)
(* The configuration file (src/src/config-module.cpp) and the frame loop   *)
(* that loads and saves it (start_main and BaseUI of src/src/sf-trt.cpp).  *)
(* The UI thread is alone with the files and with the settings its widgets *)
(* edit; the inference thread sets max_range, also while a save is going   *)
(* on (dml-module.cpp:109).  The process may end between any two writes: a *)
(* save is one call of WritePrivateProfileString per key.                  *)
(*                                                                         *)
(* A value is the text the file holds for it (six decimals are enough for  *)
(* every slider), a path the sequence of its components below the          *)
(* program's directory.                                                    *)
(***************************************************************************)
EXTENDS Integers, Sequences, SequencesExt

CONSTANTS
  Order,        (* the keys in the order of OperationParame                 *)
  Strings,      (* those of the keys that are strings                       *)
  Inferred,     (* those the inference thread sets (max_range)              *)
  Unsaved,      (* the settings with a widget that OperationParame does not *)
                (* list: move_dll, customize_data, lock_key_switch and      *)
                (* dx_gpu_idx                                               *)
  Typed,        (* per setting, the texts its widget or thread may leave    *)
  Default,      (* per setting, the text of what the program starts with    *)
  Components,   (* per file name, the components of the path it spells      *)
  Directories,  (* the directories that exist                               *)
  Found,        (* the sets of files the program may find when it starts    *)
  ProgramName,  (* the executable's                                         *)
  MaxSaves      (* bound on the saves begun                                 *)

Keys == Range(Order)
Members == Keys \cup Unsaved
Own == Keys \ Inferred       (* the keys only the UI thread sets            *)
Names == DOMAIN Components

(* What GetPrivateProfileString leaves of a key that is not in the file. *)
Absent == ""

Texts == (UNION {Typed[k] \cup {Default[k]} : k \in Members}) \cup {Absent, "0"}
Settings == [Members -> Texts]
Files == [Keys -> Texts]
Paths == Seq(STRING)

ASSUME OrderAssumption ==
  /\ Order \in Seq(STRING)
  /\ {"Config_name", "KeepSave"} \subseteq Own
  /\ "Config_name" \in Strings /\ "KeepSave" \notin Strings
  /\ Strings \subseteq Keys /\ Inferred \subseteq Keys
  /\ Unsaved \cap Keys = {}
ASSUME TextsAssumption ==
  /\ Default \in Settings
  /\ Typed["Config_name"] \cup {Default["Config_name"], Absent} \subseteq Names
  /\ \A k \in Keys \ Strings : Absent \notin Typed[k] \cup {Default[k]}
ASSUME PathsAssumption ==
  /\ Components \in [Names -> Paths \ {<<>>}]
  /\ ProgramName \in STRING
  /\ MaxSaves \in Nat
  /\ \A files \in Found :
       /\ files \in [DOMAIN files -> Files]
       /\ \A p \in DOMAIN files : files[p]["Config_name"] \in Names

(* The program starts without KeepSave, under a name beside it; a file it  *)
(* finds there is one it has saved under that name, or whose name is lost. *)
StartFile == Components[Default["Config_name"]]
HasItsName(files) ==
  StartFile \in DOMAIN files =>
    LET name == files[StartFile]["Config_name"]
    IN name = Absent \/ Components[name] = StartFile
ASSUME StartAssumption ==
  /\ Default["KeepSave"] = "0"
  /\ Len(StartFile) = 1
  /\ Components[Absent] = <<"">>
  /\ \A files \in Found : HasItsName(files)

VARIABLES
  settings,  (* the members of Value, Variables, Signl and Config_name      *)
  root_path, (* the static variable of GetConfigPath                        *)
  at,        (* "down", "layout", "keep" (line 524), "write"                *)
  next,      (* the key to write next                                       *)
  back,      (* where SaveParame returns to                                 *)
  saves,     (* the saves begun                                             *)
  disk,      (* the files there are                                         *)
  image,     (* ghost: per file, the Own settings when its last save ended  *)
  plain      (* ghost: no name with a directory has been saved to yet       *)

vars == <<settings, root_path, at, next, back, saves, disk, image, plain>>

Program == <<ProgramName>>

CfgInit ==
  /\ settings = Default
  /\ root_path = Program
  /\ at = "down" /\ next = 1 /\ back = "layout" /\ saves = 0
  /\ disk \in Found
  /\ image = [p \in {} |-> Default]
  /\ plain = TRUE

-----------------------------------------------------------------------------
(* Faulty: the default of an absent key is no number. *)
LoadParame_BadDefault(k, text) == IF text = Absent THEN "none" ELSE text

(* LoadParame: a string that is absent becomes empty, a number zero. *)
LoadParame(k, text) == IF text = Absent /\ k \notin Strings THEN "0" ELSE text

(* GetParame(p): a file that is not there leaves the settings alone, and   *)
(* one that is there those it has no keys for.                             *)
GetParame(p) ==
  [k \in Members |->
     IF p \in DOMAIN disk /\ k \in Keys THEN LoadParame(k, disk[p][k]) ELSE settings[k]]

(* GetIniPath puts the name beside the program.                            *)
GetIniPath == Components[settings["Config_name"]]

(* start_main, before any file has had a chance to change the name.        *)
Start ==
  /\ at = "down"
  /\ at' = "layout"
  /\ settings' = GetParame(GetIniPath)
  /\ UNCHANGED <<root_path, next, back, saves, disk, image, plain>>

(* A frame of the layout ends at the test of KeepSave. *)
InLayout ==
  /\ at = "layout"
  /\ at' = "keep"
  /\ UNCHANGED <<root_path, next, back, saves, disk, image, plain>>

Idle == InLayout /\ UNCHANGED settings

Edit(k) == InLayout /\ \E text \in Typed[k] : settings' = [settings EXCEPT ![k] = text]

(* GetModelInfo of the inference thread, at any moment of a frame.         *)
Infer(k) ==
  /\ at # "down"
  /\ \E text \in Typed[k] : settings' = [settings EXCEPT ![k] = text]
  /\ UNCHANGED <<root_path, at, next, back, saves, disk, image, plain>>

LoadConfig(p) == InLayout /\ p \in DOMAIN disk /\ settings' = GetParame(p)

-----------------------------------------------------------------------------
(* Faulty: the name is put behind the whole of the last path. *)
GetConfigPath_NoSubstr(name) == root_path \o Components[name]

(* GetConfigPath: what precedes the last backslash, and the name. *)
GetConfigPath(name) == Front(root_path) \o Components[name]

(* A file can be made in a directory that exists, under a name. *)
Writable(p) == Front(p) \in Directories /\ Last(p) # ""

EmptyFile == [k \in Keys |-> Absent]

With(files, p, file) ==
  [q \in DOMAIN files \cup {p} |-> IF q = p THEN file ELSE files[q]]

Without(files, p) == [q \in DOMAIN files \ {p} |-> files[q]]

(* Faulty: the file is opened for writing although it is there. *)
CreateConfigFile_Truncates(p) == IF Writable(p) THEN With(disk, p, EmptyFile) ELSE disk

CreateConfigFile(p) ==
  IF Writable(p) /\ p \notin DOMAIN disk THEN With(disk, p, EmptyFile) ELSE disk

(* SaveParame up to OperationParame, called from BaseUI or from the loop.  *)
SaveParame(from, to) ==
  LET p == GetConfigPath(settings["Config_name"])
  IN /\ at = from
     /\ saves < MaxSaves /\ saves' = saves + 1
     /\ root_path' = p
     /\ disk' = CreateConfigFile(p)
     /\ image' = Without(image, p)
     /\ plain' = (plain /\ Len(Components[settings["Config_name"]]) = 1)
     /\ at' = "write" /\ next' = 1 /\ back' = to
     /\ UNCHANGED settings

PressSave == settings["KeepSave"] = "0" /\ SaveParame("layout", "keep")

KeepSave == settings["KeepSave"] # "0" /\ SaveParame("keep", "layout")

(* Faulty: the loop does not look at KeepSave. *)
NoKeepSave_Always ==
  /\ at = "keep"
  /\ at' = "layout"
  /\ UNCHANGED <<settings, root_path, next, back, saves, disk, image, plain>>

NoKeepSave ==
  /\ at = "keep" /\ settings["KeepSave"] = "0"
  /\ at' = "layout"
  /\ UNCHANGED <<settings, root_path, next, back, saves, disk, image, plain>>

(* Faulty: the last key is left out. *)
LastKey_Skipped == Len(Order) - 1

LastKey == Len(Order)

(* WritePrivateProfileString for one key; its failure is not looked at. *)
WriteConfig ==
  /\ at = "write" /\ next <= LastKey
  /\ disk' = IF root_path \in DOMAIN disk
             THEN [disk EXCEPT ![root_path][Order[next]] = settings[Order[next]]] ELSE disk
  /\ next' = next + 1
  /\ UNCHANGED <<settings, root_path, at, back, saves, image, plain>>

SaveReturns ==
  /\ at = "write" /\ next > LastKey
  /\ at' = back
  /\ image' = IF root_path \in DOMAIN disk
              THEN With(image, root_path, [k \in Own |-> settings[k]]) ELSE image
  /\ UNCHANGED <<settings, root_path, next, back, saves, disk, plain>>

(* The window is closed, or another thread brings the process down. *)
Stop ==
  /\ at # "down"
  /\ at' = "down"
  /\ settings' = Default
  /\ root_path' = Program
  /\ next' = 1 /\ back' = "layout"
  /\ plain' = TRUE
  /\ UNCHANGED <<saves, disk, image>>

CfgNext ==
  \/ Start
  \/ Idle
  \/ \E k \in Members \ Inferred : Edit(k)
  \/ \E k \in Inferred : Infer(k)
  \/ \E p \in DOMAIN disk : LoadConfig(p)
  \/ PressSave
  \/ KeepSave
  \/ NoKeepSave
  \/ WriteConfig
  \/ SaveReturns
  \/ Stop

CfgSpec == CfgInit /\ [][CfgNext]_vars

-----------------------------------------------------------------------------
CfgTypeOK ==
  /\ settings \in Settings
  /\ root_path \in Paths \ {<<>>}
  /\ at \in {"down", "layout", "keep", "write"}
  /\ next \in 1 .. Len(Order) + 1
  /\ back \in {"layout", "keep"}
  /\ saves \in 0 .. MaxSaves
  /\ disk \in [DOMAIN disk -> Files]
  /\ image \in [DOMAIN image -> [Own -> Texts]]
  /\ plain \in BOOLEAN

(* What a completed save has put into a file is what loading it gives back,*)
(* for every key the UI thread alone sets, whatever was saved elsewhere,   *)
(* loaded or interrupted since.                                            *)
SavedIsLoaded ==
  \A p \in DOMAIN image :
    p \in DOMAIN disk /\ \A k \in Own : GetParame(p)[k] = image[p][k]

(* A file that was whole once stays whole: a save the end of the process   *)
(* interrupts leaves some keys old and the others new, and no number       *)
(* absent, which the next load would take for zero.                        *)
Whole(files, p) == p \in DOMAIN files /\ \A k \in Keys \ Strings : files[p][k] # Absent
InterruptedSaveLosesNoKey == [][\A p \in DOMAIN disk : Whole(disk, p) => Whole(disk', p)]_vars

(* As long as no name with a directory in it was used, a save goes to that *)
(* name beside the program, although the path starts from the last one.    *)
PlainNamesStayBeside ==
  at = "write" /\ plain => root_path = Components[settings["Config_name"]]

(* With KeepSave on, the end of the process between two frames loses no    *)
(* setting that has a key and that the UI thread alone sets: the file of   *)
(* that name has what the last frame left.  It does lose the settings that *)
(* have no key, and of max_range the file may have an older value, if the  *)
(* inference thread has set it since the save went by.                     *)
KeepSaveKeeps ==
  at = "layout" /\ settings["KeepSave"] # "0" /\ plain
    => LET p == Components[settings["Config_name"]]
       IN Writable(p) => /\ p \in DOMAIN disk
                         /\ \A k \in Own : GetParame(p)[k] = settings[k]
=============================================================================
