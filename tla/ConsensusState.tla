--------------------------- MODULE ConsensusState ---------------------------
(***************************************************************************)
(* tendermint::consensus::State, the height / round / step / block ID that *)
(* tmkms last agreed to sign, and the comparisons chain::State makes       *)
(* before it replaces that value (src/chain/state.rs).                     *)
(***************************************************************************)
EXTENDS Integers

CONSTANTS
    BlockIds,                   \* block::Id values: a block hash and its part set header
    None,                       \* Rust's Option::None, here: a vote for <nil>
    RoundModulus,               \* 2^16: rounds are tracked as u16
    BLOCK_HEIGHT_SANITY_LIMIT   \* 9000 in hook.rs

ASSUME NoneAssumption == None \notin BlockIds
ASSUME RoundAssumption == RoundModulus \in Nat \ {0}
ASSUME SanityAssumption == BLOCK_HEIGHT_SANITY_LIMIT \in Nat

Steps == 0..2    \* Proposal, PreVote, PreCommit

State == [height   : Nat,
          round    : 0 .. RoundModulus - 1,
          step     : Steps,
          block_id : BlockIds \cup {None}]

(* consensus::State { height: h, ..Default::default() } *)
StateAtHeight(h) == [height |-> h, round |-> 0, step |-> 0, block_id |-> None]

-----------------------------------------------------------------------------
(* State::update_consensus_state: the three regressions and the double sign. *)

SameRound(last, new) == new.height = last.height /\ new.round = last.round

MutNoRoundRegression(last, new) ==
    \/ new.height < last.height
    \/ SameRound(last, new) /\ new.step < last.step

MutNoStepRegression(last, new) ==
    \/ new.height < last.height
    \/ new.height = last.height /\ new.round < last.round

Regression(last, new) ==
    \/ new.height < last.height
    \/ new.height = last.height /\ new.round < last.round
    \/ SameRound(last, new) /\ new.step < last.step

MutNilNotCompared(last, new) ==
    /\ SameRound(last, new)
    /\ new.block_id # last.block_id
    /\ new.block_id # None /\ last.block_id # None

DoubleSign(last, new) ==
    /\ SameRound(last, new)
    /\ new.block_id # last.block_id
    /\ \/ new.block_id # None /\ last.block_id # None
       \/ new.step = last.step

UpdateResult(last, new) ==
    IF Regression(last, new) THEN "Regression"
    ELSE IF DoubleSign(last, new) THEN "DoubleSign" ELSE "Ok"

MutHookTrusted(last, h) == StateAtHeight(h)

(* State::update_from_hook_output: the state it leaves in memory. *)
UpdateFromHookOutput(last, h) ==
    IF h > last.height /\ h - last.height < BLOCK_HEIGHT_SANITY_LIMIT
    THEN StateAtHeight(h) ELSE last

-----------------------------------------------------------------------------
(* The order the checks are meant to keep. *)

Before(a, b) ==
    \/ a.height < b.height
    \/ a.height = b.height /\ a.round < b.round
    \/ SameRound(a, b) /\ a.step < b.step

(* b may be tracked once a is: it is a itself, or later in the protocol. *)
Follows(a, b) == a = b \/ Before(a, b)
=============================================================================
