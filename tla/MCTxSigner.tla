----------------------------- MODULE MCTxSigner -----------------------------
(* Instances of TxSigner for TLC. *)
EXTENDS TxSigner

CONSTANTS vote, send

Types == {vote, send}
VoteOnly == {vote}

Offer(chain, parses, types) == [chain_ok |-> chain, parses |-> parses, types |-> types]

NoOffers == {}

Votes == {Offer(TRUE, TRUE, {vote})}

(* An authorized, a partly authorized, a foreign and a malformed request. *)
AllOffers == {Offer(TRUE, TRUE, {vote}), Offer(TRUE, TRUE, {vote, send}),
              Offer(FALSE, TRUE, {vote}), Offer(TRUE, FALSE, {vote})}
=============================================================================
