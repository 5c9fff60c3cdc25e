---------------------------- MODULE MCStateHook ----------------------------
(* Instances of StateHook for TLC. *)
EXTENDS StateHook, TLC

CONSTANT A   \* a block ID
=============================================================================
