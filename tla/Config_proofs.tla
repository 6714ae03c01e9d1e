--------------------------- MODULE Config_proofs ---------------------------
(* Proofs about Config, for any keys, file names, directories and files    *)
(* found at the first start.                                               *)
EXTENDS Config, SequenceTheorems, TLAPS

USE DEF Keys, Members, Own

LEMMA PathIsThere ==
  ASSUME NEW path \in Paths \ {<<>>}, NEW name \in Names
  PROVE  /\ Front(path) \o Components[name] \in Paths \ {<<>>}
         /\ Len(path) = 1 => Front(path) \o Components[name] = Components[name]
<1>1. Components[name] \in Seq(STRING) /\ Components[name] # <<>>
  BY PathsAssumption DEF Paths
<1>2. Front(path) \in Seq(STRING)
  <2>1. Len(path) \in Nat /\ \A i \in 1 .. Len(path) - 1 : path[i] \in STRING
    BY ElementOfSeq, LenProperties DEF Paths
  <2> QED BY <2>1, SubSeqProperties DEF Front
<1>3. Len(path) = 1 => Front(path) = <<>>
  BY SubSeqEmpty DEF Front
<1>4. Front(path) \o Components[name] \in Seq(STRING) /\ Front(path) \o Components[name] # <<>>
  BY <1>1, <1>2, ConcatProperties, ConcatEqualIffEmpty
<1>5. <<>> \o Components[name] = Components[name]
  BY <1>1, ConcatEmptySeq
<1> QED BY <1>3, <1>4, <1>5 DEF Paths

LEMMA TextsAreThere ==
  /\ {Absent, "0"} \subseteq Texts
  /\ \A k \in Members : Typed[k] \subseteq Texts
BY DEF Texts

LEMMA ProgramIsAPath == Program \in Paths \ {<<>>} /\ Len(Program) = 1
BY PathsAssumption DEF Program, Paths

(* What is there of settings and files: a number is never the empty text,  *)
(* which is what makes loading the inverse of saving.                      *)
Numbers(s) == \A k \in Keys \ Strings : s[k] # Absent

TypeInv ==
  /\ CfgTypeOK
  /\ Numbers(settings)
  /\ settings["Config_name"] \in Names
  /\ \A p \in DOMAIN disk : disk[p]["Config_name"] \in Names

(* A load, of any file, gives settings of that kind. *)
LEMMA LoadIsTyped ==
  ASSUME TypeInv, NEW p
  PROVE  /\ GetParame(p) \in Settings
         /\ Numbers(GetParame(p))
         /\ GetParame(p)["Config_name"] \in Names
<1> USE OrderAssumption
<1>1. /\ GetParame(p) = [k \in Members |-> GetParame(p)[k]]
      /\ \A k \in Members : GetParame(p)[k] = IF p \in DOMAIN disk /\ k \in Keys
                                             THEN LoadParame(k, disk[p][k]) ELSE settings[k]
  BY DEF GetParame
<1>2. CASE p \in DOMAIN disk
  <2>1. disk[p] \in Files /\ settings \in Settings
    BY <1>2 DEF TypeInv, CfgTypeOK
  <2>2. \A k \in Keys : LoadParame(k, disk[p][k]) \in Texts
    BY <2>1, TextsAreThere DEF LoadParame, Files
  <2>3. \A k \in Keys \ Strings : LoadParame(k, disk[p][k]) # Absent
    BY DEF LoadParame, Absent
  <2>4. LoadParame("Config_name", disk[p]["Config_name"]) \in Names
    BY <1>2 DEF LoadParame, TypeInv
  <2>5. \A k \in Members : GetParame(p)[k] \in Texts
    BY <1>1, <1>2, <2>1, <2>2 DEF Settings
  <2>6. GetParame(p) \in Settings
    BY <1>1, <2>5 DEF Settings
  <2> QED BY <1>1, <1>2, <2>3, <2>4, <2>6 DEF Numbers
<1>3. CASE p \notin DOMAIN disk
  <2>1. \A k \in Members : GetParame(p)[k] = settings[k] /\ settings[k] \in Texts
    BY <1>1, <1>3 DEF TypeInv, CfgTypeOK, Settings
  <2>2. GetParame(p) \in Settings
    BY <1>1, <2>1 DEF Settings
  <2> QED BY <2>1, <2>2 DEF TypeInv, Numbers
<1> QED BY <1>2, <1>3

(* A key of the file is loaded, whatever the settings are. *)
LEMMA LoadOfKey ==
  ASSUME NEW p \in DOMAIN disk, NEW k \in Keys
  PROVE  GetParame(p)[k] = LoadParame(k, disk[p][k])
BY DEF GetParame

LEMMA SetIsTyped ==
  ASSUME TypeInv, NEW k \in Members, NEW text \in Typed[k],
         settings' = [settings EXCEPT ![k] = text]
  PROVE  /\ settings' \in Settings /\ Numbers(settings') /\ settings'["Config_name"] \in Names
         /\ \A j \in Members \ {k} : settings'[j] = settings[j]
<1>1. text \in Texts
  BY TextsAreThere
<1>2. settings \in Settings /\ Numbers(settings) /\ settings["Config_name"] \in Names
  BY DEF TypeInv, CfgTypeOK
<1>3. settings' \in Settings /\ \A j \in Members \ {k} : settings'[j] = settings[j]
  BY <1>1, <1>2 DEF Settings
<1>4. settings'[k] = text
  BY <1>2 DEF Settings
<1>5. Numbers(settings')
  BY <1>2, <1>3, <1>4, TextsAssumption, OrderAssumption DEF Numbers
<1>6. settings'["Config_name"] \in Names
  BY <1>2, <1>3, <1>4, TextsAssumption, OrderAssumption
<1> QED BY <1>3, <1>5, <1>6

LEMMA EditIsTyped ==
  ASSUME TypeInv, NEW k \in Members \ Inferred, Edit(k)
  PROVE  settings' \in Settings /\ Numbers(settings') /\ settings'["Config_name"] \in Names
<1>1. PICK text \in Typed[k] : settings' = [settings EXCEPT ![k] = text]
  BY DEF Edit
<1> QED BY <1>1, SetIsTyped

(* The inference thread leaves what the UI thread sets alone. *)
LEMMA InferKeepsOwn ==
  ASSUME TypeInv, NEW k \in Inferred, Infer(k)
  PROVE  /\ at # "down"
         /\ UNCHANGED <<root_path, at, next, back, saves, disk, image, plain>>
         /\ settings' \in Settings /\ Numbers(settings') /\ settings'["Config_name"] \in Names
         /\ \A j \in Own : settings'[j] = settings[j]
<1>1. PICK text \in Typed[k] : settings' = [settings EXCEPT ![k] = text]
  BY DEF Infer
<1>2. k \in Members
  BY OrderAssumption
<1>3. \A j \in Own : j \in Members \ {k}
  OBVIOUS
<1> QED BY <1>1, <1>2, <1>3, SetIsTyped DEF Infer

LEMMA TypeInit == CfgInit => TypeInv
<1> SUFFICES ASSUME CfgInit PROVE TypeInv
  OBVIOUS
<1>1. settings \in Settings /\ Numbers(settings) /\ settings["Config_name"] \in Names
  BY TextsAssumption DEF CfgInit, Numbers
<1>2. next \in 1 .. Len(Order) + 1 /\ saves \in 0 .. MaxSaves
  BY OrderAssumption, PathsAssumption DEF CfgInit
<1>3. /\ disk \in [DOMAIN disk -> Files] /\ image \in [DOMAIN image -> [Own -> Texts]]
      /\ \A p \in DOMAIN disk : disk[p]["Config_name"] \in Names
  BY PathsAssumption DEF CfgInit
<1> QED BY <1>1, <1>2, <1>3, ProgramIsAPath DEF CfgInit, TypeInv, CfgTypeOK

LEMMA TypeNext == TypeInv /\ [CfgNext]_vars => TypeInv'
<1> SUFFICES ASSUME TypeInv, [CfgNext]_vars PROVE TypeInv'
  OBVIOUS
<1> USE OrderAssumption
<1>1. CASE Start
  BY <1>1, LoadIsTyped DEF Start, TypeInv, CfgTypeOK, Numbers
<1>2. CASE Idle
  BY <1>2 DEF Idle, InLayout, TypeInv, CfgTypeOK, Numbers
<1>3. ASSUME NEW k \in Members \ Inferred, Edit(k) PROVE TypeInv'
  BY <1>3, EditIsTyped DEF Edit, InLayout, TypeInv, CfgTypeOK, Numbers
<1>3a. ASSUME NEW k \in Inferred, Infer(k) PROVE TypeInv'
  BY <1>3a, InferKeepsOwn DEF TypeInv, CfgTypeOK, Numbers
<1>4. ASSUME NEW p \in DOMAIN disk, LoadConfig(p) PROVE TypeInv'
  BY <1>4, LoadIsTyped DEF LoadConfig, InLayout, TypeInv, CfgTypeOK, Numbers
<1>5. ASSUME NEW from, NEW to \in {"layout", "keep"}, SaveParame(from, to) PROVE TypeInv'
  <2> DEFINE path == GetConfigPath(settings["Config_name"])
  <2>1. /\ root_path' = path /\ disk' = CreateConfigFile(path) /\ image' = Without(image, path)
        /\ plain' \in BOOLEAN
        /\ at' = "write" /\ next' = 1 /\ back' = to /\ UNCHANGED settings
    BY <1>5 DEF SaveParame
  <2>2. path \in Paths \ {<<>>}
    BY PathIsThere DEF TypeInv, CfgTypeOK, GetConfigPath
  <2>3. EmptyFile \in Files /\ EmptyFile["Config_name"] \in Names
    BY TextsAreThere, TextsAssumption, OrderAssumption DEF EmptyFile, Files
  <2>4. disk' \in [DOMAIN disk' -> Files] /\ \A p \in DOMAIN disk' : disk'[p]["Config_name"] \in Names
    BY <2>1, <2>3 DEF CreateConfigFile, With, TypeInv, CfgTypeOK
  <2>5. image' \in [DOMAIN image' -> [Own -> Texts]]
    BY <2>1 DEF Without, TypeInv, CfgTypeOK
  <2>6. saves' \in 0 .. MaxSaves
    BY <1>5, PathsAssumption DEF SaveParame, TypeInv, CfgTypeOK
  <2>7. 1 \in 1 .. Len(Order) + 1
    OBVIOUS
  <2> QED BY <2>1, <2>2, <2>4, <2>5, <2>6, <2>7 DEF TypeInv, CfgTypeOK, Numbers
<1>6. CASE NoKeepSave
  BY <1>6 DEF NoKeepSave, TypeInv, CfgTypeOK, Numbers
<1>7. CASE WriteConfig
  <2>1. next \in 1 .. Len(Order) /\ next' \in 1 .. Len(Order) + 1 /\ Order[next] \in Keys
    BY <1>7 DEF WriteConfig, LastKey, TypeInv, CfgTypeOK, Range
  <2>2. settings[Order[next]] \in Texts
    BY <2>1 DEF TypeInv, CfgTypeOK, Settings
  <2>3. disk' \in [DOMAIN disk' -> Files] /\ \A p \in DOMAIN disk' : disk'[p]["Config_name"] \in Names
    BY <1>7, <2>1, <2>2 DEF WriteConfig, TypeInv, CfgTypeOK, Files
  <2> QED BY <1>7, <2>1, <2>3 DEF WriteConfig, TypeInv, CfgTypeOK, Numbers
<1>8. CASE SaveReturns
  <2>1. [k \in Own |-> settings[k]] \in [Own -> Texts]
    BY DEF TypeInv, CfgTypeOK, Settings
  <2>2. image' \in [DOMAIN image' -> [Own -> Texts]]
    BY <1>8, <2>1 DEF SaveReturns, With, TypeInv, CfgTypeOK
  <2> QED BY <1>8, <2>2 DEF SaveReturns, TypeInv, CfgTypeOK, Numbers
<1>9. CASE Stop
  <2>1. settings' \in Settings /\ Numbers(settings') /\ settings'["Config_name"] \in Names
    BY <1>9, TextsAssumption DEF Stop, Numbers
  <2>2. next' \in 1 .. Len(Order) + 1
    BY <1>9 DEF Stop
  <2> QED BY <1>9, <2>1, <2>2, ProgramIsAPath DEF Stop, TypeInv, CfgTypeOK
<1>10. CASE UNCHANGED vars
  BY <1>10 DEF vars, TypeInv, CfgTypeOK, Numbers
<1> QED BY <1>1, <1>2, <1>3, <1>3a, <1>4, <1>5, <1>6, <1>7, <1>8, <1>9, <1>10
        DEF CfgNext, PressSave, KeepSave

(* Settings, paths and files keep their types through edits, loads, saves  *)
(* and ends of the process at any point (config-module.cpp).               *)
THEOREM ConfigTypes == CfgSpec => []CfgTypeOK
BY TypeInit, TypeNext, PTL DEF CfgSpec, TypeInv

-----------------------------------------------------------------------------
(* A save in progress has written the keys before `next`, those of the UI  *)
(* thread all from settings nobody else changes meanwhile, and the file it *)
(* works on has lost its image; every other image is what its file holds.  *)
SaveInv ==
  /\ at = "write" => root_path \notin DOMAIN image
  /\ at = "write" /\ root_path \in DOMAIN disk =>
       \A i \in 1 .. next - 1 :
         Order[i] \in Own => disk[root_path][Order[i]] = settings[Order[i]]
  /\ \A p \in DOMAIN image :
       /\ p \in DOMAIN disk
       /\ \A k \in Own : /\ disk[p][k] = image[p][k]
                         /\ k \notin Strings => image[p][k] # Absent

LEMMA SaveNext == TypeInv /\ SaveInv /\ [CfgNext]_vars => SaveInv'
<1> SUFFICES ASSUME TypeInv, SaveInv, [CfgNext]_vars PROVE SaveInv'
  OBVIOUS
<1>1. ASSUME NEW from, NEW to, SaveParame(from, to) PROVE SaveInv'
  <2> DEFINE path == GetConfigPath(settings["Config_name"])
  <2>1. /\ root_path' = path /\ disk' = CreateConfigFile(path) /\ image' = Without(image, path)
        /\ at' = "write" /\ next' = 1
    BY <1>1 DEF SaveParame
  <2>2. /\ DOMAIN image' = DOMAIN image \ {path}
        /\ \A p \in DOMAIN image' : image'[p] = image[p]
    BY <2>1 DEF Without
  <2>3. \A p \in DOMAIN disk : p \in DOMAIN disk' /\ disk'[p] = disk[p]
    BY <2>1 DEF CreateConfigFile, With
  <2>4. 1 .. next' - 1 = {}
    BY <2>1
  <2> QED BY <2>1, <2>2, <2>3, <2>4 DEF SaveInv
<1>2. CASE WriteConfig
  <2>1. /\ next \in 1 .. Len(Order) /\ Order[next] \in Keys
        /\ at = "write" /\ UNCHANGED <<settings, root_path, at, image>> /\ next' = next + 1
    BY <1>2, OrderAssumption DEF WriteConfig, LastKey, TypeInv, CfgTypeOK, Range
  <2>2. DOMAIN disk' = DOMAIN disk
    BY <1>2 DEF WriteConfig
  <2>3. ASSUME NEW p \in DOMAIN disk, NEW k \in Keys
        PROVE  disk'[p][k] = IF p = root_path /\ k = Order[next] THEN settings[k] ELSE disk[p][k]
    BY <1>2, <2>3 DEF WriteConfig, TypeInv, CfgTypeOK, Files
  <2>4. \A i \in 1 .. next : i \in 1 .. next - 1 \/ i = next
    BY <2>1
  <2>5. \A i \in 1 .. next : Order[i] \in Keys
    BY <2>1, OrderAssumption DEF Range
  <2>6. 1 .. next' - 1 = 1 .. next
    BY <2>1
  <2> QED BY <2>1, <2>2, <2>3, <2>4, <2>5, <2>6 DEF SaveInv
<1>3. CASE SaveReturns
  <2>1. at' # "write" /\ UNCHANGED <<settings, root_path, disk>>
    BY <1>3 DEF SaveReturns, TypeInv, CfgTypeOK
  <2>2. CASE root_path \notin DOMAIN disk
    BY <1>3, <2>1, <2>2 DEF SaveReturns, SaveInv
  <2>3. CASE root_path \in DOMAIN disk
    <3>1. \A k \in Own : disk[root_path][k] = settings[k]
      <4> SUFFICES ASSUME NEW k \in Own PROVE disk[root_path][k] = settings[k]
        OBVIOUS
      <4>1. PICK i \in 1 .. Len(Order) : k = Order[i]
        BY OrderAssumption DEF Range
      <4>2. i \in 1 .. next - 1
        BY <1>3, OrderAssumption DEF SaveReturns, LastKey, TypeInv, CfgTypeOK
      <4> QED BY <1>3, <2>3, <4>1, <4>2 DEF SaveReturns, SaveInv
    <3>2. image' = With(image, root_path, [k \in Own |-> settings[k]])
      BY <1>3, <2>3 DEF SaveReturns
    <3>3. \A k \in Own : k \notin Strings => settings[k] # Absent
      BY DEF TypeInv, Numbers
    <3> QED BY <2>1, <2>3, <3>1, <3>2, <3>3 DEF SaveInv, With
  <2> QED BY <2>2, <2>3
<1>4. CASE Start \/ Stop
  BY <1>4 DEF Start, Stop, SaveInv
<1>5. CASE \/ Idle \/ NoKeepSave \/ \E k \in Members \ Inferred : Edit(k)
           \/ \E p \in DOMAIN disk : LoadConfig(p)
  BY <1>5 DEF Idle, Edit, LoadConfig, InLayout, NoKeepSave, SaveInv
<1>6. CASE UNCHANGED vars
  BY <1>6 DEF vars, SaveInv
<1>7. ASSUME NEW k \in Inferred, Infer(k) PROVE SaveInv'
  <2>1. /\ UNCHANGED <<root_path, at, next, disk, image>>
        /\ \A j \in Own : settings'[j] = settings[j]
    BY <1>7, InferKeepsOwn
  <2> QED BY <2>1 DEF SaveInv
<1> QED BY <1>1, <1>2, <1>3, <1>4, <1>5, <1>6, <1>7 DEF CfgNext, PressSave, KeepSave

LEMMA SaveHolds == CfgSpec => [](TypeInv /\ SaveInv)
<1>1. CfgInit => SaveInv
  BY DEF CfgInit, SaveInv
<1> QED BY <1>1, TypeInit, TypeNext, SaveNext, PTL DEF CfgSpec

LEMMA ImageIsLoaded == TypeInv /\ SaveInv => SavedIsLoaded
<1> SUFFICES ASSUME TypeInv, SaveInv, NEW p \in DOMAIN image
             PROVE  p \in DOMAIN disk /\ \A k \in Own : GetParame(p)[k] = image[p][k]
  BY DEF SavedIsLoaded
<1>1. p \in DOMAIN disk
  BY DEF SaveInv
<1>2. \A k \in Own : LoadParame(k, disk[p][k]) = image[p][k]
  BY DEF SaveInv, LoadParame
<1> QED BY <1>1, <1>2, LoadOfKey

(* Loading what a completed save left gives its settings back, for every   *)
(* key the UI thread alone sets (SaveParame and GetParame of               *)
(* config-module.cpp).                                                     *)
THEOREM LoadUndoesSave == CfgSpec => []SavedIsLoaded
BY ImageIsLoaded, SaveHolds, PTL

(* No end of the process makes a whole file lose a number: a save writes   *)
(* over the keys one by one (config-module.cpp:214).                       *)
THEOREM InterruptedSavesLoseNothing == CfgSpec => InterruptedSaveLosesNoKey
<1>1. TypeInv /\ [CfgNext]_vars => \A p \in DOMAIN disk : Whole(disk, p) => Whole(disk', p)
  <2> SUFFICES ASSUME TypeInv, [CfgNext]_vars, NEW p \in DOMAIN disk, Whole(disk, p)
               PROVE  Whole(disk', p)
    OBVIOUS
  <2>1. ASSUME NEW from, NEW to, SaveParame(from, to) PROVE Whole(disk', p)
    BY <2>1 DEF SaveParame, CreateConfigFile, With, Whole
  <2>2. CASE WriteConfig
    <3>1. p \in DOMAIN disk'
      BY <2>2 DEF WriteConfig
    <3>2. ASSUME NEW k \in Keys \ Strings PROVE disk'[p][k] # Absent
      BY <2>2, <3>2 DEF WriteConfig, Whole, TypeInv, CfgTypeOK, Files, Numbers
    <3> QED BY <3>1, <3>2 DEF Whole
  <2>3. CASE UNCHANGED disk
    BY <2>3
  <2> QED
    BY <2>1, <2>2, <2>3 DEF CfgNext, PressSave, KeepSave, Start, Idle, Edit, Infer, LoadConfig,
                            InLayout, NoKeepSave, SaveReturns, Stop, vars
<1> QED BY <1>1, SaveHolds, PTL DEF CfgSpec, InterruptedSaveLosesNoKey

-----------------------------------------------------------------------------
(* Names without a directory leave root_path one component long, so that   *)
(* the next name replaces it (GetConfigPath, config-module.cpp:17).        *)
PlainInv ==
  plain => /\ Len(root_path) = 1
           /\ at = "write" => root_path = Components[settings["Config_name"]]

LEMMA PlainNext == TypeInv /\ PlainInv /\ [CfgNext]_vars => PlainInv'
<1> SUFFICES ASSUME TypeInv, PlainInv, [CfgNext]_vars PROVE PlainInv'
  OBVIOUS
<1>1. ASSUME NEW from, NEW to, SaveParame(from, to) PROVE PlainInv'
  <2> SUFFICES ASSUME plain' PROVE PlainInv'
    BY DEF PlainInv
  <2>1. /\ plain = TRUE /\ Len(Components[settings["Config_name"]]) = 1
        /\ UNCHANGED settings
        /\ root_path' = Front(root_path) \o Components[settings["Config_name"]]
    BY <1>1 DEF SaveParame, GetConfigPath
  <2>2. root_path' = Components[settings["Config_name"]]
    BY <2>1, PathIsThere DEF PlainInv, TypeInv, CfgTypeOK
  <2> QED BY <2>1, <2>2 DEF PlainInv
<1>2. CASE Stop
  BY <1>2, ProgramIsAPath DEF Stop, PlainInv
<1>3. CASE \/ Start \/ Idle \/ NoKeepSave \/ \E k \in Members \ Inferred : Edit(k)
           \/ \E p \in DOMAIN disk : LoadConfig(p)
  BY <1>3 DEF Start, Idle, Edit, LoadConfig, InLayout, NoKeepSave, PlainInv
<1>4. CASE WriteConfig \/ SaveReturns
  BY <1>4 DEF WriteConfig, SaveReturns, PlainInv, TypeInv, CfgTypeOK
<1>5. CASE UNCHANGED vars
  BY <1>5 DEF vars, PlainInv
<1>6. ASSUME NEW k \in Inferred, Infer(k) PROVE PlainInv'
  BY <1>6, InferKeepsOwn, OrderAssumption DEF PlainInv
<1> QED BY <1>1, <1>2, <1>3, <1>4, <1>5, <1>6 DEF CfgNext, PressSave, KeepSave

LEMMA PlainHolds == CfgSpec => []PlainInv
<1>1. CfgInit => PlainInv
  BY ProgramIsAPath DEF CfgInit, PlainInv
<1> QED BY <1>1, PlainNext, SaveHolds, PTL DEF CfgSpec

(* A save goes beside the program under the name on the screen, as long as *)
(* no name had a directory in it.                                          *)
THEOREM SavesGoToTheName == CfgSpec => []PlainNamesStayBeside
<1>1. PlainInv => PlainNamesStayBeside
  BY DEF PlainInv, PlainNamesStayBeside
<1> QED BY <1>1, PlainHolds, PTL

-----------------------------------------------------------------------------
(* The layout is entered after a load, of the file with the first name, or *)
(* after a save.  Only a save under a name that spells it can touch that   *)
(* file, for a path of one component has no room for a directory.          *)
StartInv ==
  /\ at = "down" => settings = Default
  /\ HasItsName(disk)
  /\ at = "write" /\ root_path = StartFile => Components[settings["Config_name"]] = StartFile
  /\ at = "write" /\ Writable(root_path) => root_path \in DOMAIN disk

LEMMA OneComponent ==
  ASSUME NEW path \in Paths \ {<<>>}, NEW name \in Names,
         Len(Front(path) \o Components[name]) = 1
  PROVE  Front(path) \o Components[name] = Components[name]
<1>1. Components[name] \in Seq(STRING) /\ Components[name] # <<>>
  BY PathsAssumption DEF Paths
<1>2. Front(path) \in Seq(STRING)
  <2>1. Len(path) \in Nat /\ \A i \in 1 .. Len(path) - 1 : path[i] \in STRING
    BY ElementOfSeq, LenProperties DEF Paths
  <2> QED BY <2>1, SubSeqProperties DEF Front
<1>3. /\ Len(Front(path)) \in Nat /\ Len(Components[name]) \in Nat \ {0}
      /\ Len(Front(path) \o Components[name]) = Len(Front(path)) + Len(Components[name])
  BY <1>1, <1>2, ConcatProperties, EmptySeq, LenProperties
<1>4. Front(path) = <<>>
  BY <1>2, <1>3, EmptySeq
<1> QED BY <1>1, <1>4, ConcatEmptySeq

LEMMA StartNext == TypeInv /\ StartInv /\ [CfgNext]_vars => StartInv'
<1> SUFFICES ASSUME TypeInv, StartInv, [CfgNext]_vars PROVE StartInv'
  OBVIOUS
<1>1. ASSUME NEW from, NEW to, SaveParame(from, to) PROVE StartInv'
  <2> DEFINE path == GetConfigPath(settings["Config_name"])
  <2>1. /\ root_path' = path /\ disk' = CreateConfigFile(path)
        /\ at' = "write" /\ UNCHANGED settings
    BY <1>1 DEF SaveParame
  <2>2. HasItsName(disk)'
    BY <2>1, OrderAssumption DEF CreateConfigFile, With, EmptyFile, StartInv, HasItsName
  <2>3. path = StartFile => Components[settings["Config_name"]] = StartFile
    BY OneComponent, StartAssumption DEF GetConfigPath, TypeInv, CfgTypeOK
  <2>4. Writable(path) => path \in DOMAIN disk'
    BY <2>1 DEF CreateConfigFile, With
  <2> QED BY <2>1, <2>2, <2>3, <2>4 DEF StartInv, Writable
<1>2. CASE WriteConfig
  <2>1. /\ at = "write" /\ UNCHANGED <<settings, root_path, at>> /\ DOMAIN disk' = DOMAIN disk
    BY <1>2 DEF WriteConfig
  <2>2. ASSUME StartFile \in DOMAIN disk
        PROVE  \/ disk'[StartFile]["Config_name"] = disk[StartFile]["Config_name"]
               \/ /\ root_path = StartFile
                  /\ disk'[StartFile]["Config_name"] = settings["Config_name"]
    BY <1>2, <2>2, OrderAssumption DEF WriteConfig, TypeInv, CfgTypeOK, Files
  <2>3. HasItsName(disk)'
    BY <2>1, <2>2 DEF StartInv, HasItsName
  <2> QED BY <2>1, <2>3 DEF StartInv, Writable
<1>3. CASE SaveReturns
  BY <1>3 DEF SaveReturns, StartInv, HasItsName, TypeInv, CfgTypeOK
<1>4. CASE \/ Start \/ Idle \/ NoKeepSave \/ \E k \in Members \ Inferred : Edit(k)
           \/ \E p \in DOMAIN disk : LoadConfig(p)
  BY <1>4 DEF Start, Idle, Edit, LoadConfig, InLayout, NoKeepSave, StartInv, HasItsName
<1>5. CASE Stop
  BY <1>5 DEF Stop, StartInv, HasItsName
<1>6. CASE UNCHANGED vars
  BY <1>6 DEF vars, StartInv, HasItsName, Writable
<1>7. ASSUME NEW k \in Inferred, Infer(k) PROVE StartInv'
  <2>1. /\ at # "down" /\ UNCHANGED <<root_path, at, disk>>
        /\ settings'["Config_name"] = settings["Config_name"]
    BY <1>7, InferKeepsOwn, OrderAssumption
  <2> QED BY <2>1 DEF StartInv, HasItsName, Writable
<1> QED BY <1>1, <1>2, <1>3, <1>4, <1>5, <1>6, <1>7 DEF CfgNext, PressSave, KeepSave

LEMMA StartHolds == CfgSpec => []StartInv
<1>1. CfgInit => StartInv
  BY StartAssumption DEF CfgInit, StartInv
<1> QED BY <1>1, StartNext, SaveHolds, PTL DEF CfgSpec

(* Which settings a frame leaves to the file. *)
LEMMA KeepNext ==
  ASSUME TypeInv, SavedIsLoaded', PlainInv, StartInv, KeepSaveKeeps, [CfgNext]_vars
  PROVE  KeepSaveKeeps'
<1> SUFFICES ASSUME NEW p, p = Components[settings'["Config_name"]], Writable(p),
                    at' = "layout", settings'["KeepSave"] # "0", plain'
             PROVE  p \in DOMAIN disk' /\ \A k \in Own : GetParame(p)'[k] = settings'[k]
  BY DEF KeepSaveKeeps
<1>o. \A k \in Own : k \in Keys
  OBVIOUS
<1>1. CASE Start
  <2>1. settings = Default /\ settings' = GetParame(StartFile) /\ UNCHANGED disk
    BY <1>1 DEF Start, StartInv, GetIniPath, StartFile
  <2>2. StartFile \in DOMAIN disk
    <3>1. CASE StartFile \notin DOMAIN disk
      <4>1. settings'["KeepSave"] = settings["KeepSave"]
        BY <2>1, <3>1, OrderAssumption DEF GetParame
      <4> QED BY <2>1, <4>1, StartAssumption
    <3> QED BY <3>1
  <2>3. \A k \in Keys : settings'[k] = LoadParame(k, disk[StartFile][k])
    BY <2>1, <2>2, LoadOfKey
  <2>4. settings'["Config_name"] = disk[StartFile]["Config_name"]
    BY <2>3, OrderAssumption DEF LoadParame
  <2>5. p # <<"">>
    <3>1. Len(<<"">>) = 1 /\ <<"">>[1] = ""
      OBVIOUS
    <3>2. Last(<<"">>) = ""
      BY <3>1 DEF Last
    <3> QED BY <3>2 DEF Writable
  <2>6. p = StartFile
    BY <2>2, <2>4, <2>5, StartAssumption DEF StartInv, HasItsName
  <2>7. \A k \in Own : GetParame(p)'[k] = LoadParame(k, disk[p][k])
    BY <2>1, <2>2, <2>6 DEF GetParame
  <2> QED BY <1>o, <2>1, <2>2, <2>3, <2>6, <2>7
<1>2. CASE SaveReturns
  <2>1. /\ at = "write" /\ UNCHANGED <<settings, root_path, disk, plain>>
        /\ root_path \in DOMAIN disk =>
             image' = With(image, root_path, [k \in Own |-> settings[k]])
    BY <1>2 DEF SaveReturns
  <2>2. root_path = p
    BY <2>1 DEF PlainInv
  <2>3. p \in DOMAIN disk
    BY <2>1, <2>2 DEF StartInv
  <2>4. p \in DOMAIN image' /\ image'[p] = [k \in Own |-> settings[k]]
    BY <2>1, <2>2, <2>3 DEF With
  <2>5. \A q \in DOMAIN image' : \A k \in Own : GetParame(q)'[k] = image'[q][k]
    BY DEF SavedIsLoaded
  <2>6. \A k \in Own : GetParame(p)'[k] = image'[p][k]
    BY <2>4, <2>5
  <2> QED BY <2>1, <2>3, <2>4, <2>6
<1>3. CASE NoKeepSave
  BY <1>3 DEF NoKeepSave
<1>4. CASE \/ Idle \/ WriteConfig \/ Stop \/ \E k \in Members \ Inferred : Edit(k)
           \/ \E q \in DOMAIN disk : LoadConfig(q)
  BY <1>4 DEF Idle, Edit, LoadConfig, InLayout, WriteConfig, Stop
<1>5. ASSUME NEW from, NEW to, SaveParame(from, to) PROVE FALSE
  BY <1>5 DEF SaveParame
<1>6. CASE UNCHANGED vars \/ \E k \in Inferred : Infer(k)
  <2>1. /\ UNCHANGED <<at, disk, plain>>
        /\ \A j \in Own : settings'[j] = settings[j]
    BY <1>6, InferKeepsOwn DEF vars
  <2>2. p = Components[settings["Config_name"]] /\ settings["KeepSave"] # "0"
    BY <2>1, OrderAssumption
  <2>3. p \in DOMAIN disk /\ \A k \in Own : GetParame(p)[k] = settings[k]
    BY <2>1, <2>2 DEF KeepSaveKeeps
  <2>4. \A k \in Own : GetParame(p)'[k] = GetParame(p)[k]
    BY <1>o, <2>1, <2>3 DEF GetParame
  <2> QED BY <2>1, <2>3, <2>4
<1> QED BY <1>1, <1>2, <1>3, <1>4, <1>5, <1>6 DEF CfgNext, PressSave, KeepSave

(* With KeepSave on, the end of the process between two frames loses no    *)
(* setting with a key that the UI thread alone sets, although the          *)
(* inference thread sets another while the save goes on (sf-trt.cpp:524,   *)
(* config-module.cpp:210).                                                 *)
THEOREM FramesAreKept == CfgSpec => []KeepSaveKeeps
<1>1. CfgInit => KeepSaveKeeps
  BY DEF CfgInit, KeepSaveKeeps
<1>2. TypeInv /\ SavedIsLoaded' /\ PlainInv /\ StartInv /\ KeepSaveKeeps /\ [CfgNext]_vars
        => KeepSaveKeeps'
  BY KeepNext
<1> QED BY <1>1, <1>2, SaveHolds, LoadUndoesSave, PlainHolds, StartHolds, PTL DEF CfgSpec
=============================================================================
