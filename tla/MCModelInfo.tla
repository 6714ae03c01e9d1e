---------------------------- MODULE MCModelInfo ----------------------------
(* ModelInfo for TLC: models of every framework, with the names the code   *)
(* knows and without them, with more than one node, and some it must turn  *)
(* down; batches of none and of two.  The sizes are small; YOLOX has 21    *)
(* anchors at 32 x 32.                                                     *)
EXTENDS ModelInfo

Node(n, d) == [name |-> n, dims |-> d]
Model(ins, outs) == [inputs |-> ins, outputs |-> outs]

Images == Node("images", <<1, 3, 32, 32>>)
Scale  == Node("other", <<1, 2>>)
V5 == <<1, 63, 7>>
V8 == <<1, 6, 21>>
Heads == Node("other", <<1, 3, 4, 4, 7>>)

MCModels == {
  Model(<<Images>>, <<Node("output", V5)>>),
  Model(<<Images>>, <<Node("output0", V5), Heads>>),
  Model(<<Images>>, <<Node("output0", V8)>>),
  Model(<<Images>>, <<Node("output", <<1, 21, 7>>)>>),
  Model(<<Node("other", <<1, 3, 32, 32>>), Scale>>, <<Heads, Node("other", V5)>>),
  Model(<<Scale, Images>>, <<Heads, Node("output", V5)>>),
  Model(<<Images>>, <<Node("other", V8), Heads>>),
  Model(<<Node("images", <<1, 3, 32, 64>>)>>, <<Node("output", V5)>>),
  Model(<<Node("images", <<1, 3, -1, -1>>)>>, <<Node("output", V5)>>),
  Model(<<Scale>>, <<Node("output", V5)>>),
  Model(<<Images>>, <<Node("output", <<0, 63, 7>>)>>),
  Model(<<Images>>, <<Node("output0", <<2, 6, 21>>)>>),
  Model(<<Images>>, <<Node("other", <<1, 1, 1>>)>>) }
=============================================================================
