------------------------------- MODULE RpcNode -------------------------------
(***************************************************************************)
(* The Tendermint node behind tx_signer's rpc_client and the account whose *)
(* transactions it checks. This is not code of the repository: it is what  *)
(* tx_signer.rs can observe through `status` and `broadcast_tx_commit`.    *)
(***************************************************************************)
EXTENDS Naturals

CONSTANTS
    MsgTypes,       \* amino message types of the schema
    MaxBlock,       \* bound: the last block
    MaxFallbacks,   \* bound: how often the node falls back to an older block
    MaxAccount      \* bound: account sequence up to which others use the account

ASSUME NodeBounds == MaxBlock \in Nat /\ MaxFallbacks \in Nat /\ MaxAccount \in Nat

VARIABLES
    height,      \* latest_block_height of `status`
    fallbacks,   \* how often the node has fallen back
    account,     \* the sequence number the account's next transaction needs
    mempool,     \* transactions on their way to CheckTx
    processed    \* transactions that got a result

nodeVars == <<height, fallbacks, account, mempool, processed>>

(* A signed transaction: the poll it was requested in, its sequence, its types. *)
SignedTx == [poll : Nat, seq : Nat, types : SUBSET MsgTypes]

Results == {"check_err", "deliver_err", "ok"}
Processed == [tx : SignedTx, result : Results]

Accepted(e) == e.result # "check_err"

NodeTypeOK == /\ height \in Nat /\ fallbacks \in Nat /\ account \in Nat
              /\ mempool \subseteq SignedTx
              /\ processed \subseteq Processed

NodeInit == /\ height = 1 /\ fallbacks = 0
            /\ account \in 0..MaxAccount
            /\ mempool = {} /\ processed = {}

Grow == /\ height < MaxBlock
        /\ height' = height + 1
        /\ UNCHANGED <<fallbacks, account, mempool, processed>>

(* The node is restored from a snapshot, or another one answers. *)
FallBack == /\ fallbacks < MaxFallbacks
            /\ height' \in 1..(height - 1)
            /\ fallbacks' = fallbacks + 1
            /\ UNCHANGED <<account, mempool, processed>>

(* CheckTx, and DeliverTx if it succeeds. CheckTx demands the sequence. *)
Process(t, result) ==
    /\ t \in mempool
    /\ result # "check_err" => t.seq = account
    /\ mempool' = mempool \ {t}
    /\ processed' = processed \cup {[tx |-> t, result |-> result]}
    /\ account' = IF result = "check_err" THEN account ELSE account + 1
    /\ UNCHANGED <<height, fallbacks>>

(* The transaction never arrives. *)
Lose(t) == /\ t \in mempool
           /\ mempool' = mempool \ {t}
           /\ UNCHANGED <<height, fallbacks, account, processed>>

(* Somebody else uses the account. *)
OtherTx == /\ account < MaxAccount
           /\ account' = account + 1
           /\ UNCHANGED <<height, fallbacks, mempool, processed>>

NodeNext == \/ Grow \/ FallBack \/ OtherTx
            \/ \E t \in mempool : Lose(t) \/ \E r \in Results : Process(t, r)
=============================================================================
