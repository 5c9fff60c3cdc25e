----------------------------- MODULE MCYubihsm -----------------------------
(* Small instances of Yubihsm for TLC. *)
EXTENDS Yubihsm, TLC

CONSTANTS d1, d2, m1, m2, k0, k1, backup, validator_json, foreign

TwoDevices == {d1, d2}
TwoMnemonics == {m1, m2}
OneId == {1}
TwoKeys == {k0, k1}
TwoPaths == {backup, validator_json}
Interchangeable ==
    Permutations({d1, d2}) \cup Permutations({m1, m2})
=============================================================================
