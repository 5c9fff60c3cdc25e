----------------------------- MODULE SignRequest -----------------------------
(***************************************************************************)
(* A SignProposal or SignVote request as it comes off the wire, what       *)
(* validate() demands of it, the consensus::State it is tracked as, and    *)
(* the content that gets signed (src/amino_types, parse_request).          *)
(***************************************************************************)
EXTENDS ConsensusState

CONSTANT BadSize   \* a hash that is neither empty nor 32 bytes long

ASSUME BadSizeAssumption == BadSize \notin BlockIds \cup {None}

(* BlockId { hash, parts_header }.  The field hash is None for an empty     *)
(* hash; otherwise it names the block::Id that parse_block_id makes of the  *)
(* two parts, with their total cut from i64 to u32: requests whose totals   *)
(* differ by a multiple of 2^32 are one request here.  The parts header     *)
(* "parses"; is missing, empty or without parts ("unparsable"); has a hash  *)
(* of the wrong size ("badsize"); or has a "negative" total, which fails    *)
(* validate_basic and wraps when parsed.                                    *)
WireBlockId == [hash  : BlockIds \cup {None, BadSize},
                parts : {"parses", "unparsable", "badsize", "negative"}]

VoteTypes == {"PreVote", "PreCommit"}
MsgTypes  == VoteTypes \cup {"Proposal"}

(* fields_ok: the message is present, and its POL round, validator index    *)
(* and validator address pass validate_basic.                               *)
Request == [kind      : {"SignProposal", "SignVote"},
            type      : MsgTypes \cup {"Unknown"},
            height    : Int,
            round     : Int,
            block_id  : WireBlockId \cup {None},
            fields_ok : BOOLEAN]

-----------------------------------------------------------------------------
BlockIdValid(b) ==
    b # None => b.hash # BadSize /\ b.parts \notin {"badsize", "negative"}

(* Proposal::validate_basic does not look at the block ID. *)
ValidateProposal(r) == r.kind = "SignProposal" /\ r.type = "Proposal"

ValidateVote(r) ==
    r.kind = "SignVote" /\ r.type \in VoteTypes /\ BlockIdValid(r.block_id)

Validate(r) == /\ r.fields_ok
               /\ r.height >= 0 /\ r.round >= 0
               /\ ValidateProposal(r) \/ ValidateVote(r)

(* An ID that does not parse is tracked like a missing one. *)
ParseBlockId(b) ==
    IF b # None /\ b.hash \in BlockIds /\ b.parts \in {"parses", "negative"}
    THEN b.hash ELSE None

StepOf(type) == CASE type = "Proposal"  -> 0
                  [] type = "PreVote"   -> 1
                  [] type = "PreCommit" -> 2

(* parse_request: the state a message is tracked as. *)
TrackedState(m) == [height   |-> m.height,
                    round    |-> m.round % RoundModulus,
                    step     |-> StepOf(m.type),
                    block_id |-> ParseBlockId(m.block_id)]

-----------------------------------------------------------------------------
(* sign_bytes: the canonical message, up to its timestamp and POL round.    *)
(* The protobuf encoding drops a block ID whose hash is empty.              *)
CanonicalBlockId(b, protobuf) ==
    IF protobuf /\ b # None /\ b.hash = None THEN None ELSE b

SignBytes(r, protobuf) == [type     |-> r.type,
                           height   |-> r.height,
                           round    |-> r.round,
                           block_id |-> CanonicalBlockId(r.block_id, protobuf)]

SignedMsg == [type : MsgTypes, height : Nat, round : Nat,
              block_id : WireBlockId \cup {None}]

(* The hash a message commits to, and whether tracking sees all of it. *)
VotedHash(m) == IF m.block_id = None THEN None ELSE m.block_id.hash

FullyTracked(m) == VotedHash(m) = ParseBlockId(m.block_id)

SameVote(m, n) == m.type = n.type /\ m.height = n.height /\ m.round = n.round
=============================================================================
