------------------------------ MODULE MCConfig ------------------------------
(* Config for TLC: the name, the flag the loop reads, a path, the size the *)
(* inference thread sets, a number that an older version does not write,   *)
(* and a setting without a key; two names beside the program, one in a     *)
(* directory, and the empty one.                                           *)
EXTENDS Config

MCOrder == <<"Config_name", "KeepSave", "cpu_onnx", "max_range", "fps_limit">>

MCTyped ==
  [Config_name |-> {"Config.ini", "b.ini", "cfg\\Config.ini", ""},
   KeepSave |-> {"0", "1"},
   cpu_onnx |-> {"a.onnx"},
   max_range |-> {"416"},
   fps_limit |-> {"240"},
   move_dll |-> {"b.dll"}]

MCDefault ==
  [Config_name |-> "Config.ini", KeepSave |-> "0", cpu_onnx |-> "", max_range |-> "640",
   fps_limit |-> "120", move_dll |-> "mybox.dll"]

MCComponents ==
  ("Config.ini" :> <<"Config.ini">>) @@ ("b.ini" :> <<"b.ini">>)
    @@ ("cfg\\Config.ini" :> <<"cfg", "Config.ini">>) @@ ("" :> <<"">>)

MCDirectories == {<<>>, <<"cfg">>}

OldFile ==
  [Config_name |-> "Config.ini", KeepSave |-> "1", cpu_onnx |-> "a.onnx",
   max_range |-> "640", fps_limit |-> ""]

MCFound == {<<>>, [p \in {<<"Config.ini">>} |-> OldFile]}
=============================================================================
