----------------------------- MODULE MCGHubMove -----------------------------
(* GHubMove for TLC: lengths around the limit of one packet, of two and of *)
(* three, on both sides of zero.                                           *)
EXTENDS GHubMove

MCLengths ==
  {-382, -255, -254, -128, -127, -1, 0, 1, 126, 127, 128, 254, 255, 381}
=============================================================================
