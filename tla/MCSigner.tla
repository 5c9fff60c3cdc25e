------------------------------ MODULE MCSigner ------------------------------
(* Small instances of Signer for TLC. *)
EXTENDS Signer, TLC

CONSTANTS A, B, s1, s2

(* Well-formed requests of the three types for the given heights and rounds. *)
KindOf(type) == IF type = "Proposal" THEN "SignProposal" ELSE "SignVote"

Complete(b) == [hash |-> b, parts |-> "parses"]

Msg(type, h, r, bid) ==
    [kind |-> KindOf(type), type |-> type, height |-> h, round |-> r,
     block_id |-> bid, fields_ok |-> TRUE]

Msgs(types, heights, rounds, ids) ==
    {Msg(t, h, r, b) : t \in types, h \in heights, r \in rounds, b \in ids}

(* One round of one height, every way to combine blocks, <nil> and steps,  *)
(* and with it the prevotes of the next round.                             *)
Ids == {None, Complete(A), Complete(B)}
OneRoundRequests == Msgs(MsgTypes, {1}, {0}, Ids)
TwoRoundRequests == OneRoundRequests \cup Msgs({"PreVote"}, {1}, {1}, Ids)

(* Several heights and rounds, rounds that wrap around the modulus, IDs     *)
(* that are not fully tracked, and requests that do not validate.           *)
WideRequests ==
    Msgs({"PreVote"}, {1, 2}, {0, 1, 2}, {Complete(A), Complete(B)})
    \cup Msgs({"PreVote", "Proposal"}, {1}, {0},
              {[hash |-> A, parts |-> "unparsable"], [hash |-> None, parts |-> "unparsable"],
               [hash |-> B, parts |-> "negative"], [hash |-> BadSize, parts |-> "parses"]})
    \cup Msgs({"PreVote"}, {-1, 3}, {0}, {None})
    \cup Msgs({"PreCommit"}, {1}, {-1}, {None})
    \cup {[Msg("PreVote", 1, 0, None) EXCEPT !.fields_ok = FALSE],
          [Msg("Proposal", 1, 0, None) EXCEPT !.type = "Unknown"]}

(* Few requests, for the run about refusals. *)
FewRequests == Msgs({"PreVote", "PreCommit"}, {1}, {0}, {None, Complete(A)})

MaxHeight2 == s1 :> 2
Unlimited1 == s1 :> None
Unlimited2 == s1 :> None @@ s2 :> None
=============================================================================
