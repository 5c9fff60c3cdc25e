------------------------------ MODULE TxSigner ------------------------------
(***************************************************************************)
(* The transaction signer (tx_signer.rs) with its sequence file            *)
(* (tx_signer/sequence_file.rs): it waits for a block height, asks the     *)
(* transaction source for a transaction, signs it with the next sequence   *)
(* number and broadcasts it, trying up to two higher sequence numbers if   *)
(* that fails and nothing has been answered before.                        *)
(***************************************************************************)
EXTENDS RpcNode

CONSTANTS
    None,
    block_interval,   \* poll_interval.blocks
    acl,              \* acl.msg_type
    Offers,           \* what the transaction source may answer with
    MaxPolls          \* bound: how often the source is polled

TxSigningRequest == [chain_ok : BOOLEAN, parses : BOOLEAN, types : SUBSET MsgTypes]

ASSUME SignerConfig == /\ block_interval \in Nat \ {0}
                       /\ Offers \subseteq TxSigningRequest
                       /\ MaxPolls \in Nat
                       /\ None \notin Nat

VARIABLES
    pc,          \* down, sync, wait, request, attempt, await
    file,        \* the sequence in the sequence file, or None
    sequence,    \* SequenceFile::sequence in memory, or None while down
    last_tx,     \* "None", "Response" or "Error"
    next_block,  \* the height waited for
    tx,          \* the transaction being tried, or None
    polls,       \* history: how often the source has been asked
    polled_at,   \* history: the height it was asked at last
    doubts       \* history: polls with an attempt that was unanswered, unsynced or cut off

signerVars == <<pc, file, sequence, last_tx, next_block, tx, polls, polled_at, doubts>>
vars == <<nodeVars, signerVars>>

(* An attempt: a transaction, its number, and request_and_sign_tx's retry_on_failure. *)
Attempt == [poll : Nat, seq : Nat, types : SUBSET MsgTypes, try : 1..3, retry : BOOLEAN]

(* The transaction an attempt signs (SignMsg::new, to_stdtx). *)
TxOf(a) == [poll |-> a.poll, seq |-> a.seq, types |-> a.types]

ASSUME NoneIsNoAttempt == None \notin Attempt

TypeOK == /\ NodeTypeOK
          /\ pc \in {"down", "sync", "wait", "request", "attempt", "await"}
          /\ file \in Nat \cup {None}
          /\ sequence \in Nat \cup {None}
          /\ last_tx \in {"None", "Response", "Error"}
          /\ next_block \in Nat /\ polls \in Nat /\ polled_at \in Nat
          /\ tx \in Attempt \cup {None}
          /\ doubts \subseteq Nat
          /\ pc # "down" => sequence # None /\ file # None
          /\ pc \in {"attempt", "await"} <=> tx # None

Init == /\ NodeInit
        /\ pc = "down" /\ file = None /\ sequence = None /\ last_tx = "None"
        /\ next_block = 0 /\ tx = None
        /\ polls = 0 /\ polled_at = 0 /\ doubts = {}

-----------------------------------------------------------------------------
(* Starting and stopping: TxSigner::new, run_async_executor.                *)

MutFileRecreated == 0

(* SequenceFile::open, which creates a missing file. *)
OpenedSequence == IF file = None THEN 0 ELSE file

Start == /\ pc = "down"
         /\ pc' = "sync"
         /\ file' = OpenedSequence
         /\ sequence' = OpenedSequence
         /\ last_tx' = "None"
         /\ UNCHANGED <<nodeVars, next_block, tx, polls, polled_at, doubts>>

Crash == /\ pc # "down"
         /\ pc' = "down"
         /\ sequence' = None /\ last_tx' = "None" /\ next_block' = 0 /\ tx' = None
         /\ doubts' = IF pc = "await" THEN doubts \cup {tx.poll} ELSE doubts
         /\ UNCHANGED <<nodeVars, file, polls, polled_at>>

-----------------------------------------------------------------------------
(* run and wait_until_block_height.                                         *)

MutNextBlockIncluded(h) == h + ((block_interval - (h % block_interval)) % block_interval)

next_block_after(h) == h - (h % block_interval) + block_interval

(* The loop at the top of run; a failed `status` is retried. *)
InitialStatus == /\ pc = "sync"
                 /\ pc' = "wait"
                 /\ next_block' = next_block_after(height)
                 /\ UNCHANGED <<nodeVars, file, sequence, last_tx, tx, polls, polled_at, doubts>>

MutExactHeight == height = next_block

(* When wait_until_block_height returns: the target is reached, or out of reach. *)
WaitIsOver == height >= next_block \/ next_block - height > block_interval

(* Sleeping until min_secs have passed lies between Poll and the request it leads to. *)
Poll == /\ pc = "wait" /\ polls < MaxPolls
        /\ WaitIsOver
        /\ pc' = "request"
        /\ next_block' = next_block_after(height)
        /\ polls' = polls + 1 /\ polled_at' = height
        /\ UNCHANGED <<nodeVars, file, sequence, last_tx, tx, doubts>>

-----------------------------------------------------------------------------
(* request_and_sign_tx.                                                     *)

(* The source fails, has nothing, or offers what the chain ID or the schema rules out. *)
NothingToSign ==
    /\ pc = "request"
    /\ pc' = "wait"
    /\ UNCHANGED <<nodeVars, file, sequence, last_tx, next_block, tx, polls, polled_at, doubts>>

TakeOffer(o) ==
    /\ pc = "request"
    /\ o.chain_ok /\ o.parses
    /\ pc' = "attempt"
    /\ tx' = [poll |-> polls, seq |-> sequence, types |-> o.types, try |-> 1,
              retry |-> last_tx # "Response"]
    /\ UNCHANGED <<nodeVars, file, sequence, last_tx, next_block, polls, polled_at, doubts>>

(* request_and_sign_tx returns. *)
Finish == pc' = "wait" /\ tx' = None

MutSameSequence ==
    IF tx.retry /\ tx.try < 3
    THEN pc' = "attempt" /\ tx' = [tx EXCEPT !.try = @ + 1]
    ELSE Finish

MutFourAttempts ==
    IF tx.retry /\ tx.try < 4
    THEN pc' = "attempt" /\ tx' = [tx EXCEPT !.seq = @ + 1, !.try = @ + 1]
    ELSE Finish

(* broadcast_tx returned an error: try the next sequence number, or give up. *)
AfterFailure ==
    IF tx.retry /\ tx.try < 3
    THEN pc' = "attempt" /\ tx' = [tx EXCEPT !.seq = @ + 1, !.try = @ + 1]
    ELSE Finish

MutTryOnceMore == AfterFailure

(* broadcast_tx returned Ok. *)
AfterSuccess == Finish

-----------------------------------------------------------------------------
(* sign_tx and broadcast_tx.                                                *)

(* SignMsg::authorize *)
authorize(types) == \A type \in types : type \in acl

(* sign_tx fails: the ACL, or the key cannot sign. *)
SignTxFails ==
    /\ pc = "attempt"
    /\ AfterFailure
    /\ UNCHANGED <<nodeVars, file, sequence, last_tx, next_block, polls, polled_at, doubts>>

(* sign_tx succeeds and broadcast_tx_commit is called. *)
SendTx ==
    /\ pc = "attempt"
    /\ authorize(tx.types)
    /\ pc' = "await"
    /\ mempool' = mempool \cup {TxOf(tx)}
    /\ UNCHANGED <<height, fallbacks, account, processed, file, sequence, last_tx,
                   next_block, tx, polls, polled_at, doubts>>

(* broadcast_tx_commit fails, whatever becomes of the transaction. *)
RpcFails ==
    /\ pc = "await"
    /\ last_tx' = "Error"
    /\ doubts' = doubts \cup {tx.poll}
    /\ AfterFailure
    /\ UNCHANGED <<nodeVars, file, sequence, next_block, polls, polled_at>>

Answered(e) == /\ pc = "await"
               /\ e.tx.poll = tx.poll /\ e.tx.seq = tx.seq
               /\ last_tx' = "Response"

MutCountsRefused(e) ==
    /\ Answered(e)
    /\ e.result = "check_err"
    /\ sequence' = tx.seq + 1 /\ file' = tx.seq + 1
    /\ AfterFailure
    /\ UNCHANGED <<nodeVars, next_block, polls, polled_at, doubts>>

CheckTxFailed(e) ==
    /\ Answered(e)
    /\ e.result = "check_err"
    /\ AfterFailure
    /\ UNCHANGED <<nodeVars, file, sequence, next_block, polls, polled_at, doubts>>

MutOnlyDeliveredCounts(e) ==
    /\ Answered(e)
    /\ Accepted(e)
    /\ IF e.result = "ok" THEN sequence' = tx.seq + 1 /\ file' = tx.seq + 1 /\ AfterSuccess
                          ELSE UNCHANGED <<sequence, file>> /\ AfterFailure
    /\ UNCHANGED <<nodeVars, next_block, polls, polled_at, doubts>>

(* CheckTx succeeded and SequenceFile::persist too; DeliverTx may have failed. *)
Persisted(e) ==
    /\ Answered(e)
    /\ Accepted(e)
    /\ sequence' = tx.seq + 1 /\ file' = tx.seq + 1
    /\ IF e.result = "ok" THEN AfterSuccess ELSE AfterFailure
    /\ UNCHANGED <<nodeVars, next_block, polls, polled_at, doubts>>

(* persist sets the sequence in memory, but sync_to_disk fails. *)
PersistFails(e) ==
    /\ Answered(e)
    /\ Accepted(e)
    /\ sequence' = tx.seq + 1
    /\ doubts' = doubts \cup {tx.poll}
    /\ AfterFailure
    /\ UNCHANGED <<nodeVars, file, next_block, polls, polled_at>>

-----------------------------------------------------------------------------
Reply == \E e \in processed : CheckTxFailed(e) \/ Persisted(e) \/ PersistFails(e)

Next == \/ Start \/ Crash \/ InitialStatus \/ Poll
        \/ NothingToSign \/ (\E o \in Offers : TakeOffer(o))
        \/ SignTxFails \/ SendTx \/ RpcFails \/ Reply
        \/ NodeNext /\ UNCHANGED signerVars

Spec == Init /\ [][Next]_vars

(* Blocks keep coming, and the status poll of a waiting signer is answered. *)
LiveSpec == Spec /\ WF_vars(Grow /\ UNCHANGED signerVars) /\ WF_vars(Poll)

-----------------------------------------------------------------------------
Sent == mempool \cup {e.tx : e \in processed}

(* The sequence number, in memory and on file, is never beyond the one the  *)
(* account needs next: retries only go up, so a signer that is ahead would  *)
(* never be accepted again (persist in broadcast_tx).                       *)
SequenceNeverAhead == /\ sequence # None => sequence <= account
                      /\ file # None => file <= account

(* The sequence file never goes back, whatever is retried, fails to sync or *)
(* restarts (SequenceFile::open, persist).                                  *)
SequenceFileMonotone == [][file # None => file' >= file]_vars

(* A transaction that passed CheckTx is counted in the sequence file even   *)
(* if DeliverTx failed (the comment in broadcast_tx), unless its answer     *)
(* was lost, not synced, or is still being awaited.                         *)
AcceptedIsCounted ==
    \A e \in processed :
        /\ Accepted(e)
        /\ e.tx.poll \notin doubts
        /\ tx # None => tx.poll # e.tx.poll \/ tx.seq # e.tx.seq
        => file # None /\ file > e.tx.seq

(* The speculative retries of request_and_sign_tx execute what the source   *)
(* asked for twice only if an attempt was unanswered or not synced.         *)
ExecutedOnce ==
    \A a, b \in processed :
        /\ a.result = "ok" /\ b.result = "ok"
        /\ a.tx.poll = b.tx.poll /\ a # b
        => a.tx.poll \in doubts

(* All that is ever sent for one answer of the source carries the messages  *)
(* of that answer, under at most three sequence numbers in a row, whatever  *)
(* fails, is lost or restarts in between (request_and_sign_tx).             *)
RetriesBounded ==
    \A t, u \in Sent : t.poll = u.poll => t.types = u.types /\ t.seq <= u.seq + 2

(* The source is polled at most once per block interval, across restarts    *)
(* too, as long as the node does not fall back (run, next_block_after).     *)
PolledOncePerInterval ==
    [][polls' # polls /\ polls > 0 /\ fallbacks = 0
       => polled_at' \div block_interval > polled_at \div block_interval]_vars

(* Waiting for a block ends once the chain gets there, although it may move *)
(* past the target between two polls or fall back (wait_until_block_height).*)
WaitEnds == (pc = "wait" /\ polls < MaxPolls /\ next_block <= MaxBlock) ~> pc # "wait"

(* tx_signer.rs:240 "If no transaction broadcasted successfully before,     *)
(* retry with a higher sequence number to see if we're out-of-sync".        *)
RetriesUntilSuccess ==
    [][pc = "await" /\ pc' = "wait" /\ (\A e \in processed : ~ Accepted(e))
       => tx.try = 3]_vars
-----------------------------------------------------------------------------
(* The conjuncts that make the safety properties inductive.                 *)

(* Memory is at or after the file, an attempt at or after memory. *)
SequencesOrdered == /\ pc # "down" => file <= sequence
                    /\ tx # None => sequence <= tx.seq

AcceptedBelowAccount == \A e \in processed : Accepted(e) => e.tx.seq < account

(* A transaction has one result, and none while it is on its way. *)
ResultsUnique == /\ \A e, f \in processed : e.tx = f.tx => e = f
                 /\ \A e \in processed : e.tx \notin mempool

(* Polls are numbered in order, and attempts of a poll have rising sequences. *)
AttemptsOrdered ==
    /\ tx # None => tx.poll = polls
    /\ \A t \in Sent : t.poll <= polls
    /\ pc = "request" => \A t \in Sent : t.poll < polls
    /\ pc = "attempt" => \A t \in Sent : t.poll = polls => t.seq < tx.seq
    /\ pc = "await" => \A t \in Sent : t.poll = polls => t.seq < tx.seq \/ t = TxOf(tx)

(* What is on its way is being awaited, unless its poll is in doubt. *)
InFlight == \A t \in mempool : t.poll \in doubts \/ (pc = "await" /\ t = TxOf(tx))

(* No attempt follows an executed one, unless its poll is in doubt. *)
Settled == \A e \in processed :
               e.result = "ok" /\ e.tx.poll \notin doubts /\ tx # None /\ tx.poll = e.tx.poll
               => pc = "await" /\ e.tx = TxOf(tx)

(* The inductive invariant behind the theorems of TxSignerProofs: what      *)
(* broadcast_tx has sent, been answered and counted, in every interleaving. *)
TxInv == /\ TypeOK /\ SequenceNeverAhead /\ SequencesOrdered /\ AcceptedBelowAccount
        /\ ResultsUnique /\ AttemptsOrdered /\ InFlight /\ Settled
        /\ AcceptedIsCounted /\ ExecutedOnce

(* What was sent before the current attempt: its distance is the number of  *)
(* retries made.                                                            *)
RetryWindow ==
    tx # None => \A t \in Sent :
        t.poll = polls => t.types = tx.types /\ tx.seq < t.seq + tx.try

(* While the node has not fallen back, the height waited for is the one     *)
(* after a height between the last poll and now, which is what keeps two    *)
(* polls an interval apart (run, also after a restart).                     *)
TargetKept ==
    fallbacks = 0 =>
        /\ polled_at <= height
        /\ pc \notin {"down", "sync"} =>
              \E h \in polled_at .. height : next_block = next_block_after(h)
=============================================================================
