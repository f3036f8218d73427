------------------------------- MODULE MCMount -------------------------------
(* Instances of Mount for TLC. *)
EXTENDS Mount, TLC

AllScenes == {{"shares"}, {"shares", "life"}, {"files"}, {"files", "life"}}
=============================================================================
