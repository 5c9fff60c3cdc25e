--------------------------- MODULE TxSignerProofs ---------------------------
(***************************************************************************)
(* Proofs about the transaction signer: its sequence number never runs     *)
(* ahead of the account, its file never goes back, every accepted          *)
(* transaction is counted, and retries execute nothing twice unless an     *)
(* answer was lost.                                                        *)
(***************************************************************************)
EXTENDS TxSigner, TLAPS

Ordered == /\ SequenceNeverAhead /\ SequencesOrdered /\ AcceptedBelowAccount
History == ResultsUnique /\ AttemptsOrdered /\ InFlight /\ Settled

(* The steps of the signer that end or follow an attempt of broadcast_tx. *)
EndsAttempt == \/ SignTxFails \/ RpcFails \/ Reply

-----------------------------------------------------------------------------
(* The two outcomes of a failed attempt in request_and_sign_tx. *)
LEMMA AfterFailureCases ==
    ASSUME TypeOK, tx # None, AfterFailure
    PROVE  /\ tx' \in Attempt \cup {None}
           /\ pc' \in {"attempt", "wait"}
           /\ pc' = "attempt" <=> tx' # None
           /\ tx' # None => /\ tx'.seq = tx.seq + 1
                            /\ tx'.poll = tx.poll
                            /\ tx'.types = tx.types
<1>1. tx \in Attempt
  BY DEF TypeOK
<1>2. CASE tx.retry /\ tx.try < 3
  <2>1. /\ pc' = "attempt"
        /\ tx' = [tx EXCEPT !.seq = tx.seq + 1, !.try = tx.try + 1]
    BY <1>2 DEF AfterFailure
  <2>2. tx.seq + 1 \in Nat /\ tx.try + 1 \in 1..3
    BY <1>1, <1>2 DEF Attempt
  <2>3. tx' \in Attempt /\ tx'.seq = tx.seq + 1 /\ tx'.poll = tx.poll /\ tx'.types = tx.types
    BY <1>1, <2>1, <2>2 DEF Attempt
  <2>4. tx' # None
    BY <2>3, NoneIsNoAttempt
  <2> QED
    BY <2>1, <2>3, <2>4
<1>3. CASE ~ (tx.retry /\ tx.try < 3)
  BY <1>3 DEF AfterFailure, Finish
<1> QED
  BY <1>2, <1>3

(* The transaction an attempt signs is well-typed. *)
LEMMA TxOfType ==
    ASSUME NEW a \in Attempt
    PROVE  TxOf(a) \in SignedTx /\ TxOf(a).poll = a.poll /\ TxOf(a).seq = a.seq
BY DEF Attempt, TxOf, SignedTx

(* The initial states: no process, no file, nothing sent. *)
LEMMA InitInv == Init => TxInv
<1> SUFFICES ASSUME Init PROVE TxInv
  OBVIOUS
<1>1. TypeOK
  BY NodeBounds, NoneIsNoAttempt DEF Init, NodeInit, TypeOK, NodeTypeOK
<1>2. Ordered
  BY DEF Init, NodeInit, Ordered, SequenceNeverAhead, SequencesOrdered, AcceptedBelowAccount
<1>3. Sent = {}
  BY DEF Init, NodeInit, Sent
<1>4. History
  BY <1>3 DEF Init, NodeInit, History, ResultsUnique, AttemptsOrdered, InFlight, Settled
<1>5. AcceptedIsCounted /\ ExecutedOnce
  BY DEF Init, NodeInit, AcceptedIsCounted, ExecutedOnce
<1> QED
  BY <1>1, <1>2, <1>4, <1>5 DEF TxInv, Ordered, History

-----------------------------------------------------------------------------
(* The type invariant is preserved by every step of Next. *)
LEMMA TypeStep ==
    ASSUME TypeOK, [Next]_vars
    PROVE  TypeOK'
<1> USE DEF TypeOK, NodeTypeOK, nodeVars, signerVars
<1>1. CASE Start
  BY <1>1, SignerConfig DEF Start, OpenedSequence
<1>2. CASE Crash
  <2>1. doubts' \subseteq Nat
    BY <1>2 DEF Crash, Attempt
  <2> QED
    BY <1>2, <2>1 DEF Crash
<1>3. CASE InitialStatus \/ Poll
  <2>1. next_block_after(height) \in Nat
    BY SignerConfig DEF next_block_after
  <2>2. CASE InitialStatus
    BY <2>1, <2>2 DEF InitialStatus
  <2>3. CASE Poll
    BY <2>1, <2>3 DEF Poll
  <2> QED
    BY <1>3, <2>2, <2>3
<1>4. CASE NothingToSign
  BY <1>4 DEF NothingToSign
<1>5. ASSUME NEW o \in Offers, TakeOffer(o)
      PROVE  TypeOK'
  <2>1. tx' \in Attempt
    BY <1>5, SignerConfig DEF TakeOffer, Attempt, TxSigningRequest
  <2>2. tx' # None
    BY <2>1, NoneIsNoAttempt
  <2> QED
    BY <1>5, <2>1, <2>2 DEF TakeOffer
<1>6. CASE SignTxFails
  BY <1>6, AfterFailureCases DEF SignTxFails
<1>7. CASE SendTx
  BY <1>7, TxOfType DEF SendTx
<1>8. CASE RpcFails
  <2>1. tx.poll \in Nat
    BY <1>8 DEF RpcFails, Attempt
  <2> QED
    BY <1>8, <2>1, AfterFailureCases DEF RpcFails
<1>9. CASE Reply
  <2>1. PICK e \in processed : CheckTxFailed(e) \/ Persisted(e) \/ PersistFails(e)
    BY <1>9 DEF Reply
  <2>2. tx \in Attempt /\ tx # None /\ tx.poll \in Nat /\ tx.seq + 1 \in Nat
    BY <2>1 DEF CheckTxFailed, Persisted, PersistFails, Answered, Attempt
  <2>3. AfterFailure \/ Finish
    BY <2>1 DEF CheckTxFailed, Persisted, PersistFails, AfterSuccess
  <2>4. /\ tx' \in Attempt \cup {None}
        /\ pc' \in {"attempt", "wait"}
        /\ pc' = "attempt" <=> tx' # None
    BY <2>2, <2>3, AfterFailureCases DEF Finish
  <2> QED
    BY <2>1, <2>2, <2>4, SignerConfig
    DEF CheckTxFailed, Persisted, PersistFails, Answered
<1>10. CASE NodeNext /\ UNCHANGED signerVars
  <2>1. NodeTypeOK'
    BY <1>10 DEF NodeNext, Grow, FallBack, OtherTx, Lose, Process, Processed
  <2> QED
    BY <1>10, <2>1
<1>11. CASE UNCHANGED vars
  BY <1>11 DEF vars
<1> QED
  BY <1>1, <1>2, <1>3, <1>4, <1>5, <1>6, <1>7, <1>8, <1>9, <1>10, <1>11 DEF Next

-----------------------------------------------------------------------------
(* A node step leaves the signer alone, and its effect is one of these. *)
LEMMA NodeEffect ==
    ASSUME TxInv, NodeNext, UNCHANGED signerVars
    PROVE  /\ UNCHANGED <<pc, file, sequence, last_tx, next_block, tx, polls, polled_at, doubts>>
           /\ account \in Nat /\ account' \in Nat /\ account' >= account
           /\ \/ mempool' \subseteq mempool /\ processed' = processed
              \/ \E t \in mempool, r \in Results :
                    /\ r # "check_err" => t.seq = account /\ account' = account + 1
                    /\ mempool' = mempool \ {t}
                    /\ processed' = processed \cup {[tx |-> t, result |-> r]}
<1> USE DEF TxInv, TypeOK, NodeTypeOK
<1>1. UNCHANGED <<pc, file, sequence, last_tx, next_block, tx, polls, polled_at, doubts>>
  BY DEF signerVars
<1>2. CASE Grow \/ FallBack \/ OtherTx
  BY <1>1, <1>2 DEF Grow, FallBack, OtherTx
<1>3. ASSUME NEW t \in mempool, Lose(t)
      PROVE  account' = account /\ mempool' \subseteq mempool /\ processed' = processed
  BY <1>3 DEF Lose
<1>4. ASSUME NEW t \in mempool, NEW r \in Results, Process(t, r)
      PROVE  /\ r # "check_err" => t.seq = account /\ account' = account + 1
             /\ account' \in Nat /\ account' >= account
             /\ mempool' = mempool \ {t}
             /\ processed' = processed \cup {[tx |-> t, result |-> r]}
  BY <1>4 DEF Process
<1> QED
  BY <1>1, <1>2, <1>3, <1>4 DEF NodeNext

(* An answer is the result of the transaction of the current attempt. *)
LEMMA AnswerIsCurrent ==
    ASSUME TxInv, NEW e \in processed, Answered(e)
    PROVE  /\ e.tx = TxOf(tx) /\ tx \in Attempt /\ tx # None /\ pc = "await"
           /\ \A f \in processed : f.tx = TxOf(tx) => f = e
           /\ TxOf(tx) \notin mempool
<1>1. tx \in Attempt /\ tx # None /\ pc = "await"
  BY DEF TxInv, TypeOK, Answered
<1>2. e.tx \in Sent /\ e.tx.poll = polls /\ e.tx.seq = tx.seq /\ tx.seq \in Nat
  BY <1>1 DEF TxInv, AttemptsOrdered, Answered, Sent, Attempt
<1>3. e.tx = TxOf(tx)
  BY <1>1, <1>2 DEF TxInv, AttemptsOrdered
<1> QED
  BY <1>1, <1>3 DEF TxInv, ResultsUnique

(* What a step of Reply does: the end of broadcast_tx once it is answered. *)
LEMMA ReplyEffect ==
    ASSUME TxInv, Reply
    PROVE  \E e \in processed :
              /\ Answered(e)
              /\ UNCHANGED <<nodeVars, next_block, polls, polled_at>>
              /\ \/ /\ AfterFailure /\ ~ Accepted(e)
                    /\ UNCHANGED <<file, sequence, doubts>>
                 \/ /\ Accepted(e) /\ sequence' = tx.seq + 1 /\ file' = tx.seq + 1
                    /\ IF e.result = "ok" THEN Finish ELSE AfterFailure
                    /\ UNCHANGED doubts
                 \/ /\ Accepted(e) /\ sequence' = tx.seq + 1 /\ file' = file
                    /\ AfterFailure
                    /\ doubts' = doubts \cup {tx.poll}
BY DEF Reply, CheckTxFailed, Persisted, PersistFails, AfterSuccess, Accepted

-----------------------------------------------------------------------------
(* Account, file, memory and attempt stay in order: a sequence is only      *)
(* persisted after CheckTx accepted its predecessor.                        *)
LEMMA OrderedStep ==
    ASSUME TxInv, [Next]_vars
    PROVE  Ordered' /\ (file # None => file' # None /\ file' >= file)
<1> USE DEF TxInv, Ordered, SequenceNeverAhead, SequencesOrdered, AcceptedBelowAccount,
            nodeVars, TypeOK, NodeTypeOK, Accepted
<1>1. CASE Start
  BY <1>1, SignerConfig DEF Start, OpenedSequence
<1>2. CASE Crash
  BY <1>2 DEF Crash
<1>3. CASE InitialStatus \/ Poll \/ NothingToSign
  BY <1>3 DEF InitialStatus, Poll, NothingToSign
<1>4. ASSUME NEW o \in Offers, TakeOffer(o)
      PROVE  Ordered' /\ (file # None => file' # None /\ file' >= file)
  BY <1>4 DEF TakeOffer
<1>5. CASE SignTxFails \/ RpcFails
  <2>1. tx # None /\ tx \in Attempt /\ tx.seq \in Nat /\ AfterFailure
    BY <1>5 DEF SignTxFails, RpcFails, Attempt
  <2>2. tx' # None => tx'.seq = tx.seq + 1
    BY <2>1, AfterFailureCases
  <2>3. pc' # "down" /\ UNCHANGED <<file, sequence, account, processed>>
    BY <1>5, <2>1, AfterFailureCases DEF SignTxFails, RpcFails
  <2> QED
    BY <1>5, <2>1, <2>2, <2>3 DEF SignTxFails, RpcFails
<1>6. CASE SendTx
  BY <1>6 DEF SendTx
<1>7. CASE Reply
  <2>1. PICK e \in processed :
              /\ Answered(e)
              /\ UNCHANGED <<nodeVars, next_block, polls, polled_at>>
              /\ \/ /\ AfterFailure /\ ~ Accepted(e)
                    /\ UNCHANGED <<file, sequence, doubts>>
                 \/ /\ Accepted(e) /\ sequence' = tx.seq + 1 /\ file' = tx.seq + 1
                    /\ IF e.result = "ok" THEN Finish ELSE AfterFailure
                    /\ UNCHANGED doubts
                 \/ /\ Accepted(e) /\ sequence' = tx.seq + 1 /\ file' = file
                    /\ AfterFailure
                    /\ doubts' = doubts \cup {tx.poll}
    BY <1>7, ReplyEffect
  <2>2. tx # None /\ tx \in Attempt /\ tx.seq \in Nat /\ e.tx = TxOf(tx) /\ e.tx.seq = tx.seq
    BY <2>1, AnswerIsCurrent, TxOfType DEF Attempt
  <2>3. /\ tx' # None => tx'.seq = tx.seq + 1
        /\ pc' # "down"
    BY <2>1, <2>2, AfterFailureCases DEF Finish
  <2>4. Accepted(e) => tx.seq + 1 <= account
    BY <2>2
  <2>5. file \in Nat /\ sequence \in Nat /\ file <= sequence /\ sequence <= tx.seq /\ account \in Nat
    BY <2>1, <2>2 DEF Answered
  <2>6. tx.seq + 1 # None
    BY <2>2, SignerConfig
  <2>7. CASE ~ Accepted(e)
    BY <2>1, <2>2, <2>3, <2>5, <2>7
  <2>8. CASE Accepted(e)
    <3>1. /\ sequence' = tx.seq + 1 /\ file' \in {file, tx.seq + 1}
          /\ UNCHANGED <<account, processed>>
      BY <2>1, <2>8
    <3> QED
      BY <2>2, <2>3, <2>4, <2>5, <2>6, <2>8, <3>1
  <2> QED
    BY <2>7, <2>8
<1>8. CASE NodeNext /\ UNCHANGED signerVars
  <2>1. SequenceNeverAhead' /\ SequencesOrdered' /\ (file # None => file' # None /\ file' >= file)
    BY <1>8, NodeEffect
  <2>2. \A e \in processed : e.tx.seq \in Nat
    BY DEF Processed, SignedTx
  <2>3. \A t \in mempool : t.seq \in Nat
    BY DEF SignedTx
  <2>4. AcceptedBelowAccount'
    BY <1>8, <2>2, <2>3, NodeEffect
  <2> QED
    BY <2>1, <2>4
<1>9. CASE UNCHANGED vars
  BY <1>9 DEF vars, signerVars
<1> QED
  BY <1>1, <1>2, <1>3, <1>4, <1>5, <1>6, <1>7, <1>8, <1>9 DEF Next

-----------------------------------------------------------------------------
(* The steps that send nothing and get no result keep what was sent. *)
LEMMA SentUnchanged ==
    ASSUME mempool' = mempool, processed' = processed
    PROVE  Sent' = Sent /\ (ResultsUnique => ResultsUnique')
BY DEF Sent, ResultsUnique

(* Results stay unique: only a new transaction is sent, only one on its way *)
(* gets a result.                                                           *)
LEMMA UniqueStep ==
    ASSUME TxInv, [Next]_vars
    PROVE  ResultsUnique'
<1>1. CASE UNCHANGED <<mempool, processed>>
  BY <1>1, SentUnchanged DEF TxInv
<1>2. CASE SendTx
  <2>1. tx \in Attempt /\ pc = "attempt" /\ tx.poll = polls /\ tx.seq \in Nat
    BY <1>2 DEF TxInv, TypeOK, AttemptsOrdered, SendTx, Attempt
  <2>2. TxOf(tx) \notin Sent
    BY <2>1, TxOfType DEF TxInv, AttemptsOrdered
  <2>3. mempool' = mempool \cup {TxOf(tx)} /\ processed' = processed
    BY <1>2 DEF SendTx
  <2> QED
    BY <2>2, <2>3 DEF TxInv, ResultsUnique, Sent
<1>3. CASE NodeNext /\ UNCHANGED signerVars
  <2>1. CASE mempool' \subseteq mempool /\ processed' = processed
    BY <2>1 DEF TxInv, ResultsUnique
  <2>2. ASSUME NEW t \in mempool, NEW r \in Results,
               mempool' = mempool \ {t},
               processed' = processed \cup {[tx |-> t, result |-> r]}
        PROVE  ResultsUnique'
    BY <2>2 DEF TxInv, ResultsUnique
  <2> QED
    BY <1>3, <2>1, <2>2, NodeEffect
<1> QED
  BY <1>1, <1>2, <1>3
  DEF Next, vars, nodeVars, Start, Crash, InitialStatus, Poll, NothingToSign, TakeOffer,
      SignTxFails, RpcFails, Reply, CheckTxFailed, Persisted, PersistFails

(* Every step that ends an attempt: pc, tx, and what it leaves alone. *)
LEMMA EndEffect ==
    ASSUME TxInv, EndsAttempt
    PROVE  /\ tx \in Attempt /\ tx # None /\ tx.poll = polls /\ tx.seq \in Nat
           /\ UNCHANGED <<mempool, processed, polls>>
           /\ pc' \in {"attempt", "wait"}
           /\ pc' = "attempt" <=> tx' # None
           /\ tx' # None => tx'.seq = tx.seq + 1 /\ tx'.poll = tx.poll
<1>1. tx \in Attempt /\ tx # None /\ tx.poll = polls /\ tx.seq \in Nat
  BY DEF TxInv, TypeOK, AttemptsOrdered, EndsAttempt, SignTxFails, RpcFails, Reply,
         CheckTxFailed, Persisted, PersistFails, Answered, Attempt
<1>2. AfterFailure \/ Finish
  BY DEF EndsAttempt, SignTxFails, RpcFails, Reply, CheckTxFailed, Persisted, PersistFails,
         AfterSuccess
<1>3. UNCHANGED <<mempool, processed, polls>>
  BY DEF EndsAttempt, SignTxFails, RpcFails, Reply, CheckTxFailed, Persisted, PersistFails,
         nodeVars
<1> QED
  BY <1>1, <1>2, <1>3, AfterFailureCases DEF TxInv, Finish

(* Polls stay numbered in order and attempts of a poll keep rising. *)
LEMMA AttemptsStep ==
    ASSUME TxInv, [Next]_vars
    PROVE  AttemptsOrdered'
<1> USE DEF TxInv, AttemptsOrdered
<1>0. \A t \in Sent : t \in SignedTx /\ t.poll \in Nat /\ t.seq \in Nat
  BY DEF TypeOK, NodeTypeOK, Sent, Processed, SignedTx
<1>a. polls \in Nat /\ (pc \in {"attempt", "await"} <=> tx # None)
  BY DEF TypeOK
<1>1. CASE Start \/ Crash \/ InitialStatus \/ NothingToSign
  <2>1. Sent' = Sent /\ polls' = polls /\ tx' \in {tx, None} /\ pc' \in {"down", "sync", "wait"}
    BY <1>1, SentUnchanged DEF Start, Crash, InitialStatus, NothingToSign, nodeVars
  <2> QED
    BY <2>1, <1>a
<1>2. CASE Poll
  <2>1. Sent' = Sent /\ polls' = polls + 1 /\ tx' = tx /\ pc = "wait" /\ pc' = "request"
    BY <1>2, SentUnchanged DEF Poll, nodeVars
  <2> QED
    BY <2>1, <1>a, <1>0
<1>3. ASSUME NEW o \in Offers, TakeOffer(o)
      PROVE  AttemptsOrdered'
  <2>1. Sent' = Sent /\ polls' = polls /\ tx'.poll = polls /\ pc = "request" /\ pc' = "attempt"
    BY <1>3, SentUnchanged DEF TakeOffer, nodeVars
  <2> QED
    BY <2>1, <1>a, <1>0
<1>4. CASE EndsAttempt
  <2>1. Sent' = Sent
    BY <1>4, EndEffect, SentUnchanged
  <2>2. \A t \in Sent : t.poll = polls => t.seq < tx.seq + 1
    <3>1. CASE pc = "attempt"
      BY <1>4, <1>0, <3>1, EndEffect
    <3>2. CASE pc = "await"
      BY <1>4, <1>0, <3>2, EndEffect, TxOfType
    <3> QED
      BY <1>4, <1>a, <3>1, <3>2, EndEffect
  <2> QED
    BY <1>4, <1>a, <2>1, <2>2, EndEffect
<1>5. CASE SendTx
  <2>1. tx \in Attempt /\ pc = "attempt" /\ tx.poll = polls
    BY <1>5, <1>a DEF SendTx, TypeOK
  <2>2. Sent' = Sent \cup {TxOf(tx)} /\ tx' = tx /\ polls' = polls /\ pc' = "await"
    BY <1>5 DEF SendTx, Sent
  <2> QED
    BY <1>0, <1>a, <2>1, <2>2, TxOfType
<1>6. CASE NodeNext /\ UNCHANGED signerVars
  <2>1. Sent' \subseteq Sent
    BY <1>6, NodeEffect DEF Sent
  <2> QED
    BY <1>6, <2>1, NodeEffect
<1>7. CASE UNCHANGED vars
  BY <1>7, SentUnchanged DEF vars, nodeVars, signerVars
<1> QED
  BY <1>1, <1>2, <1>3, <1>4, <1>5, <1>6, <1>7 DEF Next, EndsAttempt

(* Doubts are never withdrawn, and leaving an attempt unanswered raises one. *)
LEMMA DoubtsGrow ==
    ASSUME TxInv, [Next]_vars
    PROVE  /\ doubts \subseteq doubts'
           /\ pc = "await" /\ (Crash \/ RpcFails) => tx.poll \in doubts'
<1>1. doubts \subseteq doubts'
  BY DEF Next, vars, nodeVars, signerVars, Start, Crash, InitialStatus, Poll, NothingToSign,
         TakeOffer, SignTxFails, SendTx, RpcFails, Reply, CheckTxFailed, Persisted, PersistFails
<1> QED
  BY <1>1 DEF Crash, RpcFails

(* Whatever is on its way is awaited or in doubt. *)
LEMMA InFlightStep ==
    ASSUME TxInv, [Next]_vars
    PROVE  InFlight'
<1> USE DEF TxInv, InFlight
<1>1. CASE pc # "await" /\ mempool' = mempool
  BY <1>1, DoubtsGrow
<1>2. CASE Crash \/ RpcFails
  <2>1. mempool' = mempool
    BY <1>2 DEF Crash, RpcFails, nodeVars
  <2>2. pc = "await" => tx \in Attempt /\ TxOf(tx).poll = tx.poll
    BY TxOfType DEF TypeOK
  <2> QED
    BY <1>2, <2>1, <2>2, DoubtsGrow
<1>3. CASE Reply
  <2>1. PICK e \in processed : Answered(e)
    BY <1>3, ReplyEffect
  <2>2. TxOf(tx) \notin mempool /\ mempool' = mempool
    BY <1>3, <2>1, AnswerIsCurrent, EndEffect DEF EndsAttempt
  <2> QED
    BY <2>2, DoubtsGrow
<1>4. CASE SendTx
  BY <1>4 DEF SendTx
<1>5. CASE NodeNext /\ UNCHANGED signerVars
  <2>1. mempool' \subseteq mempool
    BY <1>5, NodeEffect
  <2> QED
    BY <1>5, <2>1, NodeEffect
<1>6. CASE UNCHANGED vars
  BY <1>6 DEF vars, nodeVars, signerVars
<1> QED
  BY <1>1, <1>2, <1>3, <1>4, <1>5, <1>6
  DEF Next, nodeVars, Start, InitialStatus, Poll, NothingToSign, TakeOffer, SignTxFails

(* The result that ended an attempt is the only one of its transaction, so  *)
(* no attempt follows an executed one unless its poll is in doubt.          *)
LEMMA SettledStep ==
    ASSUME TxInv, [Next]_vars
    PROVE  Settled'
<1> USE DEF TxInv, Settled
<1>1. CASE tx' = None
  BY <1>1
<1>2. CASE UNCHANGED <<pc, tx, processed>>
  BY <1>2, DoubtsGrow
<1>3. ASSUME NEW o \in Offers, TakeOffer(o)
      PROVE  Settled'
  <2>1. /\ tx'.poll = polls /\ pc = "request" /\ processed' = processed
        /\ polls \in Nat
    BY <1>3 DEF TakeOffer, nodeVars, TypeOK
  <2>2. \A e \in processed : e.tx.poll \in Nat /\ e.tx.poll < polls
    BY <2>1 DEF AttemptsOrdered, Sent, TypeOK, NodeTypeOK, Processed, SignedTx
  <2> QED
    BY <2>1, <2>2
<1>4. CASE SignTxFails \/ SendTx
  <2>1. pc = "attempt" /\ processed' = processed /\ (tx' # None => tx'.poll = tx.poll)
    BY <1>4, EndEffect DEF EndsAttempt, SignTxFails, SendTx
  <2> QED
    BY <2>1, <1>4, DoubtsGrow DEF TypeOK
<1>5. CASE RpcFails
  <2>1. tx.poll \in doubts' /\ processed' = processed /\ (tx' # None => tx'.poll = tx.poll)
    BY <1>5, EndEffect, DoubtsGrow DEF EndsAttempt, RpcFails
  <2> QED
    BY <2>1
<1>6. CASE Reply
  <2>1. PICK e \in processed :
              /\ Answered(e)
              /\ \/ ~ Accepted(e)
                 \/ Accepted(e) /\ (IF e.result = "ok" THEN Finish ELSE AfterFailure)
                 \/ doubts' = doubts \cup {tx.poll}
    BY <1>6, ReplyEffect
  <2>2. processed' = processed /\ (tx' # None => tx'.poll = tx.poll) /\ tx # None
    BY <1>6, EndEffect DEF EndsAttempt
  <2>3. CASE tx.poll \in doubts'
    BY <2>2, <2>3
  <2>4. CASE e.result # "ok"
    <3>1. \A f \in processed : f.result = "ok" /\ f.tx.poll = tx.poll => f.tx.poll \in doubts
      BY <2>1, <2>2, <2>4, AnswerIsCurrent
    <3> QED
      BY <2>2, <3>1, DoubtsGrow
  <2> QED
    BY <1>1, <2>1, <2>3, <2>4 DEF Accepted, Finish
<1>7. CASE NodeNext /\ UNCHANGED signerVars
  <2>1. CASE processed' = processed
    BY <1>7, <2>1, NodeEffect
  <2>2. ASSUME NEW t \in mempool, NEW r \in Results,
               processed' = processed \cup {[tx |-> t, result |-> r]}
        PROVE  Settled'
    BY <1>7, <2>2, NodeEffect DEF InFlight
  <2> QED
    BY <1>7, <2>1, <2>2, NodeEffect
<1>8. ASSUME Start \/ Crash \/ InitialStatus \/ Poll \/ NothingToSign
      PROVE  tx' = None
  BY <1>8 DEF TypeOK, Start, Crash, InitialStatus, Poll, NothingToSign
<1>9. CASE UNCHANGED vars
  BY <1>2, <1>9 DEF vars, nodeVars, signerVars
<1> HIDE DEF TxInv, Settled
<1> QED
  BY <1>1, <1>3, <1>4, <1>5, <1>6, <1>7, <1>8, <1>9 DEF Next

(* An accepted transaction outside doubt is counted once its attempt ends. *)
LEMMA CountedStep ==
    ASSUME TxInv, [Next]_vars
    PROVE  AcceptedIsCounted'
<1> USE DEF TxInv, AcceptedIsCounted
<1>0. \A e \in processed : e.tx \in Sent /\ e.tx.poll \in Nat /\ e.tx.seq \in Nat
  BY DEF TypeOK, NodeTypeOK, Processed, SignedTx, Sent
<1>a. file # None => file \in Nat /\ file' \in Nat /\ file' # None /\ file' >= file
  BY OrderedStep, TypeStep DEF TypeOK
<1>b. ASSUME NEW e \in processed, processed' = processed, file # None, file > e.tx.seq
      PROVE  file' # None /\ file' > e.tx.seq
  BY <1>0, <1>a, <1>b
<1>1. CASE tx = None /\ processed' = processed
  BY <1>1, <1>b, DoubtsGrow
<1>2. CASE tx' = tx /\ processed' = processed
  BY <1>2, <1>b, DoubtsGrow
<1>3. CASE pc = "attempt" /\ processed' = processed
  <2>1. tx # None /\ tx.poll = polls
    BY <1>3 DEF TypeOK, AttemptsOrdered
  <2>2. tx.seq \in Nat
    BY <2>1 DEF TypeOK, Attempt
  <2>3. \A e \in processed : e.tx.poll # tx.poll \/ e.tx.seq # tx.seq
    BY <1>0, <1>3, <2>1, <2>2 DEF AttemptsOrdered
  <2> QED
    BY <1>3, <1>b, <2>3, DoubtsGrow
<1>4. CASE pc = "await" /\ tx.poll \in doubts' /\ processed' = processed
  BY <1>4, <1>b, DoubtsGrow
<1>5. CASE Reply
  <2>1. PICK e \in processed :
              /\ Answered(e)
              /\ \/ ~ Accepted(e)
                 \/ file' = tx.seq + 1
                 \/ doubts' = doubts \cup {tx.poll}
    BY <1>5, ReplyEffect
  <2>2. /\ pc = "await" /\ processed' = processed /\ tx.seq \in Nat /\ tx.poll = polls
        /\ tx \in Attempt
    BY <1>5, <2>1, EndEffect DEF EndsAttempt, Answered
  <2>3. \A f \in processed : f.tx.poll = tx.poll /\ f.tx.seq = tx.seq => f = e
    BY <1>0, <2>1, <2>2, AnswerIsCurrent DEF AttemptsOrdered
  <2>4. CASE ~ Accepted(e)
    BY <1>b, <2>2, <2>3, <2>4, DoubtsGrow
  <2>5. CASE file' = tx.seq + 1
    <3>1. file' # None /\ file' > tx.seq
      BY <2>2, <2>5, SignerConfig
    <3> QED
      BY <1>b, <2>2, <3>1, DoubtsGrow
  <2>6. CASE doubts' = doubts \cup {tx.poll}
    BY <1>4, <2>2, <2>6
  <2> QED
    BY <2>1, <2>4, <2>5, <2>6
<1>6. CASE NodeNext /\ UNCHANGED signerVars
  <2>1. CASE processed' = processed
    BY <1>2, <1>6, <2>1, NodeEffect
  <2>2. ASSUME NEW t \in mempool, NEW r \in Results,
               processed' = processed \cup {[tx |-> t, result |-> r]}
        PROVE  AcceptedIsCounted'
    <3>1. t.poll \in doubts \/ (tx # None /\ t.poll = tx.poll /\ t.seq = tx.seq)
      BY TxOfType DEF InFlight, TypeOK
    <3> QED
      BY <1>6, <2>2, <3>1, NodeEffect DEF Accepted
  <2> QED
    BY <1>6, <2>1, <2>2, NodeEffect
<1>7. CASE Crash
  <2>1. processed' = processed
    BY <1>7 DEF Crash, nodeVars
  <2> QED
    BY <1>1, <1>3, <1>4, <1>7, <2>1, DoubtsGrow DEF TypeOK
<1>8. CASE RpcFails
  BY <1>4, <1>8, DoubtsGrow DEF RpcFails, nodeVars
<1> QED
  BY <1>1, <1>2, <1>3, <1>5, <1>6, <1>7, <1>8
  DEF Next, vars, nodeVars, signerVars, TypeOK, Start, InitialStatus, Poll, NothingToSign,
      TakeOffer, SignTxFails, SendTx

(* A second execution of a poll needs a doubt about it. *)
LEMMA ExecutedStep ==
    ASSUME TxInv, [Next]_vars
    PROVE  ExecutedOnce'
<1> USE DEF TxInv, ExecutedOnce
<1>1. CASE processed' = processed
  BY <1>1, DoubtsGrow
<1>2. CASE NodeNext /\ UNCHANGED signerVars
  <2>1. ASSUME NEW t \in mempool, NEW r \in Results,
               processed' = processed \cup {[tx |-> t, result |-> r]}
        PROVE  ExecutedOnce'
    <3>1. ASSUME NEW e \in processed, e.result = "ok", e.tx.poll = t.poll
          PROVE  t.poll \in doubts
      <4>1. CASE pc = "await" /\ t = TxOf(tx)
        <5>1. tx # None /\ tx.poll = t.poll
          BY <4>1, TxOfType DEF TypeOK
        <5> QED
          BY <3>1, <4>1, <5>1 DEF Settled, ResultsUnique
      <4> QED
        BY <4>1 DEF InFlight
    <3> QED
      BY <1>2, <2>1, <3>1, NodeEffect
  <2> QED
    BY <1>1, <1>2, <2>1, NodeEffect
<1> QED
  BY <1>1, <1>2
  DEF Next, vars, nodeVars, Start, Crash, InitialStatus, Poll, NothingToSign, TakeOffer,
      SignTxFails, SendTx, RpcFails, Reply, CheckTxFailed, Persisted, PersistFails

-----------------------------------------------------------------------------
(* TxInv holds in every reachable state of the transaction signer, for every *)
(* block interval, ACL, source, node behaviour and bound.                   *)
THEOREM TxInvariance == Spec => []TxInv
<1>1. TxInv /\ [Next]_vars => TxInv'
  <2> SUFFICES ASSUME TxInv, [Next]_vars PROVE TxInv'
    OBVIOUS
  <2>1. TypeOK'
    BY TypeStep DEF TxInv
  <2>2. Ordered'
    BY OrderedStep
  <2> QED
    BY <2>1, <2>2, UniqueStep, AttemptsStep, InFlightStep, SettledStep, CountedStep, ExecutedStep
    DEF TxInv, Ordered
<1> QED
  BY <1>1, InitInv, PTL DEF Spec

(* The sequence number never runs ahead of the account: persist in          *)
(* broadcast_tx only follows an accepted CheckTx.                           *)
THEOREM NeverAhead == Spec => []SequenceNeverAhead
BY TxInvariance, PTL DEF TxInv

(* The sequence file never goes back, across failed syncs and restarts.     *)
THEOREM SequenceFileMonotonic == Spec => SequenceFileMonotone
<1>1. TxInv /\ [Next]_vars => [file # None => file' >= file]_vars
  BY OrderedStep
<1> QED
  BY <1>1, TxInvariance, PTL DEF Spec, SequenceFileMonotone

(* Every answered and synced CheckTx success is counted in the file, also   *)
(* if DeliverTx failed.                                                     *)
THEOREM AlwaysCounted == Spec => []AcceptedIsCounted
BY TxInvariance, PTL DEF TxInv

(* The retries of request_and_sign_tx execute a request at most once unless *)
(* an attempt was unanswered, unsynced or cut off.                          *)
THEOREM AtMostOnce == Spec => []ExecutedOnce
BY TxInvariance, PTL DEF TxInv

-----------------------------------------------------------------------------
(* The speculative retries. *)

(* A failed attempt is followed by at most one with the next number, the    *)
(* same messages and one try more.                                          *)
LEMMA RetryEffect ==
    ASSUME TxInv, EndsAttempt, tx' # None
    PROVE  /\ tx \in Attempt /\ tx # None
           /\ tx'.seq = tx.seq + 1 /\ tx'.try = tx.try + 1 /\ tx'.types = tx.types
           /\ UNCHANGED <<mempool, processed, polls>>
<1>1. AfterFailure
  BY DEF EndsAttempt, SignTxFails, RpcFails, Reply, CheckTxFailed, Persisted, PersistFails,
         AfterSuccess, Finish
<1>2. tx \in Attempt /\ tx # None /\ UNCHANGED <<mempool, processed, polls>>
  BY EndEffect
<1>3. tx' = [tx EXCEPT !.seq = tx.seq + 1, !.try = tx.try + 1]
  BY <1>1 DEF AfterFailure, Finish
<1> QED
  BY <1>2, <1>3 DEF Attempt

LEMMA RetryStep ==
    ASSUME TxInv, RetryWindow, RetriesBounded, [Next]_vars
    PROVE  RetryWindow' /\ RetriesBounded'
<1> USE DEF RetryWindow, RetriesBounded
<1>0. \A t \in Sent : t.poll \in Nat /\ t.seq \in Nat
  BY DEF TxInv, TypeOK, NodeTypeOK, Sent, Processed, SignedTx
<1>1. CASE Start \/ Crash \/ InitialStatus \/ Poll \/ NothingToSign
  <2>1. Sent' = Sent /\ (tx' # None => tx' = tx /\ polls' = polls)
    BY <1>1, SentUnchanged
    DEF Start, Crash, InitialStatus, Poll, NothingToSign, nodeVars, TxInv, TypeOK
  <2> QED
    BY <2>1
<1>2. ASSUME NEW o \in Offers, TakeOffer(o)
      PROVE  RetryWindow' /\ RetriesBounded'
  <2>1. Sent' = Sent /\ polls' = polls /\ pc = "request" /\ polls \in Nat
    BY <1>2, SentUnchanged DEF TakeOffer, nodeVars, TxInv, TypeOK
  <2>2. \A t \in Sent : t.poll # polls
    BY <1>0, <2>1 DEF TxInv, AttemptsOrdered
  <2> QED
    BY <2>1, <2>2
<1>3. CASE EndsAttempt
  <2>1. Sent' = Sent
    BY <1>3, EndEffect, SentUnchanged
  <2>2. CASE tx' = None
    BY <2>1, <2>2
  <2>3. CASE tx' # None
    <3>1. /\ tx \in Attempt /\ tx # None /\ polls' = polls
          /\ tx'.seq = tx.seq + 1 /\ tx'.try = tx.try + 1 /\ tx'.types = tx.types
      BY <1>3, <2>3, RetryEffect
    <3>2. tx.seq \in Nat /\ tx.try \in Nat
      BY <3>1 DEF Attempt
    <3> QED
      BY <1>0, <2>1, <3>1, <3>2
  <2> QED
    BY <2>2, <2>3
<1>4. CASE SendTx
  <2>1. /\ tx \in Attempt /\ tx # None /\ pc = "attempt" /\ tx.poll = polls
        /\ tx.seq \in Nat /\ tx.try \in 1..3
    BY <1>4 DEF SendTx, TxInv, TypeOK, AttemptsOrdered, Attempt
  <2>2. Sent' = Sent \cup {TxOf(tx)} /\ tx' = tx /\ polls' = polls
    BY <1>4 DEF SendTx, Sent
  <2>3. TxOf(tx).poll = tx.poll /\ TxOf(tx).seq = tx.seq /\ TxOf(tx).types = tx.types
    BY DEF TxOf
  <2>4. \A t \in Sent : t.poll = polls =>
            t.types = tx.types /\ t.seq < tx.seq /\ tx.seq < t.seq + tx.try
    BY <2>1 DEF TxInv, AttemptsOrdered
  <2>5. RetryWindow'
    BY <2>1, <2>2, <2>3, <2>4
  <2>6. RetriesBounded'
    <3> SUFFICES ASSUME NEW t \in Sent', NEW u \in Sent', t.poll = u.poll
                 PROVE  t.types = u.types /\ t.seq <= u.seq + 2
      OBVIOUS
    <3>1. CASE t \in Sent /\ u \in Sent
      BY <3>1
    <3>2. CASE t = TxOf(tx) /\ u \in Sent
      BY <1>0, <2>1, <2>3, <2>4, <3>2
    <3>3. CASE t \in Sent /\ u = TxOf(tx)
      BY <1>0, <2>1, <2>3, <2>4, <3>3
    <3>4. CASE t = TxOf(tx) /\ u = TxOf(tx)
      BY <2>1, <2>3, <3>4
    <3> QED
      BY <2>2, <3>1, <3>2, <3>3, <3>4
  <2> QED
    BY <2>5, <2>6
<1>5. CASE NodeNext /\ UNCHANGED signerVars
  <2>1. Sent' \subseteq Sent /\ tx' = tx /\ polls' = polls
    BY <1>5, NodeEffect DEF Sent, signerVars
  <2> QED
    BY <2>1
<1>6. CASE UNCHANGED vars
  BY <1>6, SentUnchanged DEF vars, nodeVars, signerVars
<1> QED
  BY <1>1, <1>2, <1>3, <1>4, <1>5, <1>6 DEF Next, EndsAttempt

(* For one answer of the source at most three consecutive sequence numbers  *)
(* are ever used, all for the same messages: crashes and lost answers never *)
(* let a retry run on, and no later offer slips into one (the loop of       *)
(* request_and_sign_tx).                                                    *)
THEOREM RetriesAreBounded == Spec => []RetriesBounded
<1>1. Init => RetryWindow /\ RetriesBounded
  BY DEF Init, NodeInit, RetryWindow, RetriesBounded, Sent
<1> QED
  BY <1>1, RetryStep, TxInvariance, PTL DEF Spec

-----------------------------------------------------------------------------
(* Division by the block interval.                                          *)

LEMMA DivMod ==
    ASSUME NEW h \in Nat, NEW n \in Nat \ {0}
    PROVE  /\ h \div n \in Nat /\ h % n \in 0 .. n - 1
           /\ h = (n * (h \div n)) + (h % n)
OBVIOUS

LEMMA TimesNatural ==
    ASSUME NEW a \in Nat, NEW b \in Nat
    PROVE  a * b \in Nat
OBVIOUS

LEMMA TimesMonotone ==
    ASSUME NEW a \in Nat, NEW b \in Nat, NEW n \in Nat \ {0}, a <= b
    PROVE  n * a <= n * b
OBVIOUS

LEMMA DivMonotone ==
    ASSUME NEW a \in Nat, NEW b \in Nat, NEW n \in Nat \ {0}, a <= b
    PROVE  a \div n <= b \div n
<1> SUFFICES ASSUME (b \div n) + 1 <= a \div n
             PROVE  FALSE
  BY DivMod
<1>1. n * ((b \div n) + 1) <= n * (a \div n)
  BY TimesMonotone, DivMod
<1>2. n * ((b \div n) + 1) = (n * (b \div n)) + n
  BY DivMod
<1> QED
  BY <1>1, <1>2, DivMod

(* next_block_after(h) is the first multiple of the interval beyond h: a    *)
(* height at or past it lies in a later interval than h.                    *)
LEMMA NextBlockIsLater ==
    ASSUME NEW h \in Nat, NEW g \in Nat, g >= next_block_after(h)
    PROVE  g \div block_interval > h \div block_interval
<1> DEFINE n == block_interval
<1>1. n \in Nat \ {0}
  BY SignerConfig
<1>2. next_block_after(h) = (n * (h \div n)) + n
  <2> DEFINE m == n * (h \div n)
             r == h % n
  <2>1. m \in Nat /\ r \in Nat /\ h = m + r
    <3>1. h \div n \in Nat /\ h % n \in 0 .. n - 1 /\ h = (n * (h \div n)) + (h % n)
      BY <1>1, DivMod
    <3>2. n * (h \div n) \in Nat
      BY <1>1, <3>1, TimesNatural
    <3> HIDE DEF n
    <3>3. h % n \in Nat
      BY <1>1, <3>1
    <3> QED
      BY <3>1, <3>2, <3>3
  <2>2. next_block_after(h) = h - r + n
    BY DEF next_block_after
  <2> HIDE DEF m, r
  <2>3. h - r + n = m + n
    BY <1>1, <2>1
  <2> QED
    BY <2>2, <2>3 DEF m
<1> SUFFICES ASSUME g \div n <= h \div n
             PROVE  FALSE
  BY <1>1, DivMod
<1>3. n * (g \div n) <= n * (h \div n)
  BY <1>1, TimesMonotone, DivMod
<1>4. g < (n * (g \div n)) + n
  BY <1>1, DivMod
<1>5. n * (h \div n) \in Nat /\ n * (g \div n) \in Nat
  BY <1>1, DivMod, TimesNatural
<1> HIDE DEF n
<1> QED
  BY <1>1, <1>2, <1>3, <1>4, <1>5

(* It is at most an interval away, so that wait_until_block_height takes a  *)
(* target for out of reach only when the node has fallen back.              *)
LEMMA NextBlockIsNear ==
    ASSUME NEW h \in Nat
    PROVE  /\ next_block_after(h) \in Nat
           /\ next_block_after(h) - h <= block_interval
           /\ next_block_after(h) > h
<1>1. block_interval \in Nat \ {0} /\ h % block_interval \in 0 .. block_interval - 1
  BY SignerConfig, DivMod
<1>2. h % block_interval <= h
  BY <1>1, SignerConfig
<1> QED
  BY <1>1, <1>2 DEF next_block_after

LEMMA TargetStep ==
    ASSUME TypeOK, TargetKept, [Next]_vars
    PROVE  TargetKept'
<1>0. height \in Nat /\ fallbacks \in Nat /\ polled_at \in Nat /\ next_block \in Nat
  BY DEF TypeOK, NodeTypeOK
<1>1. CASE Start \/ Crash
  BY <1>1 DEF Start, Crash, TargetKept, nodeVars, next_block_after
<1>2. CASE InitialStatus
  BY <1>0, <1>2 DEF InitialStatus, TargetKept, nodeVars, next_block_after
<1>3. CASE Poll
  BY <1>0, <1>3 DEF Poll, TargetKept, nodeVars, next_block_after
<1>4. CASE NodeNext /\ UNCHANGED signerVars
  <2>1. CASE FallBack
    BY <1>0, <2>1 DEF FallBack, TargetKept
  <2>2. CASE ~ FallBack
    <3>1. fallbacks' = fallbacks /\ height' >= height /\ height' \in Nat
      BY <1>0, <1>4, <2>2 DEF NodeNext, Grow, OtherTx, Lose, Process
    <3>2. UNCHANGED <<pc, next_block, polled_at>>
      BY <1>4 DEF signerVars
    <3>3. polled_at .. height \subseteq polled_at' .. height'
      BY <1>0, <3>1, <3>2
    <3> QED
      BY <1>0, <3>1, <3>2, <3>3 DEF TargetKept, next_block_after
  <2> QED
    BY <2>1, <2>2
<1>5. CASE /\ UNCHANGED <<height, fallbacks, next_block, polled_at>>
           /\ pc \notin {"down", "sync"}
  BY <1>5 DEF TargetKept, next_block_after
<1>6. CASE UNCHANGED vars
  BY <1>6 DEF vars, nodeVars, signerVars, TargetKept, next_block_after
<1> QED
  BY <1>1, <1>2, <1>3, <1>4, <1>5, <1>6
  DEF Next, nodeVars, NothingToSign, TakeOffer, SignTxFails, SendTx, RpcFails, Reply,
      CheckTxFailed, Persisted, PersistFails, Answered

(* The source is polled at most once per block interval, for any interval   *)
(* and across restarts, as long as the node does not fall back.             *)
THEOREM OncePerInterval == Spec => PolledOncePerInterval
<1>1. Init => TargetKept
  BY DEF Init, NodeInit, TargetKept
<1>2. TxInv /\ TargetKept /\ [Next]_vars => TargetKept'
  BY TargetStep DEF TxInv
<1>3. TxInv /\ TargetKept /\ [Next]_vars =>
        [polls' # polls /\ polls > 0 /\ fallbacks = 0
         => polled_at' \div block_interval > polled_at \div block_interval]_vars
  <2> SUFFICES ASSUME TxInv, TargetKept, Next, polls' # polls, fallbacks = 0
               PROVE  polled_at' \div block_interval > polled_at \div block_interval
    OBVIOUS
  <2>0. height \in Nat /\ polled_at \in Nat /\ block_interval \in Nat \ {0}
    BY SignerConfig DEF TxInv, TypeOK, NodeTypeOK
  <2>1. Poll
    BY DEF Next, nodeVars, signerVars, Start, Crash, InitialStatus, NothingToSign, TakeOffer,
           SignTxFails, SendTx, RpcFails, Reply, CheckTxFailed, Persisted, PersistFails
  <2>2. PICK h \in polled_at .. height : next_block = next_block_after(h)
    BY <2>1 DEF Poll, TargetKept
  <2>3. h \in Nat /\ h >= polled_at /\ h <= height
    BY <2>0, <2>2
  <2>4. height >= next_block_after(h)
    BY <2>0, <2>1, <2>2, <2>3, NextBlockIsNear DEF Poll, WaitIsOver
  <2>5. height \div block_interval > h \div block_interval
    BY <2>0, <2>3, <2>4, NextBlockIsLater
  <2>6. h \div block_interval >= polled_at \div block_interval
    BY <2>0, <2>3, DivMonotone
  <2>7. polled_at' = height
    BY <2>1 DEF Poll
  <2> QED
    BY <2>0, <2>3, <2>5, <2>6, <2>7, DivMod
<1> QED
  BY <1>1, <1>2, <1>3, TxInvariance, PTL DEF Spec, PolledOncePerInterval
=============================================================================
