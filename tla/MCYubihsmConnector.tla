------------------------- MODULE MCYubihsmConnector -------------------------
(* Instances of YubihsmConnector for TLC. *)
EXTENDS YubihsmConnector

CONSTANTS c1, c2

TwoCommands == {c1, c2}
AllSettings == YubihsmConfig
=============================================================================
