---------------------------- MODULE SignerProofs ----------------------------
(***************************************************************************)
(* Proofs about Signer for any number of sessions, any requests, any hook  *)
(* output and any width of the tracked round.                              *)
(***************************************************************************)
EXTENDS Signer, TLAPS

(* The order on tracked states that update_consensus_state keeps is         *)
(* transitive.                                                              *)
LEMMA FollowsTransitive ==
    ASSUME NEW a \in State, NEW b \in State, NEW c \in State,
           Follows(a, b), Follows(b, c)
    PROVE  Follows(a, c)
BY DEF Follows, Before, SameRound, State, Steps

(* A state that update_consensus_state accepts is the last one or later.    *)
LEMMA AcceptedFollows ==
    ASSUME NEW last \in State, NEW new \in State,
           UpdateResult(last, new) = "Ok"
    PROVE  Follows(last, new)
<1>1. ~ Regression(last, new) /\ ~ DoubleSign(last, new)
  BY DEF UpdateResult
<1>2. CASE new.height = last.height /\ new.round = last.round /\ new.step = last.step
  <2>1. new.block_id = last.block_id
    BY <1>1, <1>2 DEF DoubleSign, SameRound
  <2>2. QED
    BY <1>2, <2>1 DEF Follows, State
<1>3. CASE ~ (new.height = last.height /\ new.round = last.round /\ new.step = last.step)
  BY <1>1, <1>3 DEF Regression, SameRound, Follows, Before, State, Steps
<1>4. QED
  BY <1>2, <1>3

(* Exactly what State::update_consensus_state lets through: the last state  *)
(* again, or a later one that, if it is of the same height and round, names *)
(* the same block or leaves <nil> on one side.  In particular every later   *)
(* round or height is accepted, and what is refused is either behind or     *)
(* names a second block, or a block besides <nil>, in a round already begun.*)
THEOREM AcceptedExactly ==
    ASSUME NEW last \in State, NEW new \in State
    PROVE  UpdateResult(last, new) = "Ok" <=>
             /\ Follows(last, new)
             /\ \/ ~ SameRound(last, new)
                \/ new.block_id = last.block_id
                \/ None \in {new.block_id, last.block_id}
<1> DEFINE Named == \/ ~ SameRound(last, new)
                    \/ new.block_id = last.block_id
                    \/ None \in {new.block_id, last.block_id}
<1>1. ASSUME UpdateResult(last, new) = "Ok"
      PROVE  Follows(last, new) /\ Named
  BY <1>1, AcceptedFollows DEF UpdateResult, DoubleSign
<1>2. ASSUME Follows(last, new), Named
      PROVE  UpdateResult(last, new) = "Ok"
  <2>1. ~ Regression(last, new)
    BY <1>2 DEF Follows, Before, Regression, SameRound, State, Steps
  <2>2. ~ DoubleSign(last, new)
    BY <1>2 DEF Follows, Before, DoubleSign, SameRound, State, Steps
  <2>3. QED
    BY <2>1, <2>2 DEF UpdateResult
<1>3. QED
  BY <1>1, <1>2

(* The state the hook leaves in memory is the loaded one or later.          *)
LEMMA HookFollows ==
    ASSUME NEW last \in State, NEW h \in Nat
    PROVE  /\ UpdateFromHookOutput(last, h) \in State
           /\ Follows(last, UpdateFromHookOutput(last, h))
BY RoundAssumption DEF UpdateFromHookOutput, StateAtHeight, Follows, Before, State, Steps

(* A validated request is tracked as a well-typed state: its round is       *)
(* reduced to the width of the tracked round.                               *)
LEMMA TrackedStateType ==
    ASSUME NEW r \in Request, Validate(r)
    PROVE  TrackedState(r) \in State
<1>1. r.height \in Nat /\ r.round \in Nat /\ r.type \in MsgTypes
  BY DEF Request, Validate, ValidateProposal, ValidateVote, VoteTypes, MsgTypes
<1>2. r.round % RoundModulus \in 0 .. RoundModulus - 1
  BY <1>1, RoundAssumption
<1>3. StepOf(r.type) \in Steps
  BY <1>1 DEF StepOf, Steps, MsgTypes, VoteTypes
<1>4. ParseBlockId(r.block_id) \in BlockIds \cup {None}
  BY DEF ParseBlockId
<1>5. QED
  BY <1>1, <1>2, <1>3, <1>4 DEF TrackedState, State

(* What is signed is tracked exactly as the request it came from, in both   *)
(* encodings.                                                               *)
LEMMA SignBytesTracked ==
    ASSUME NEW r \in Request, Validate(r), NEW p
    PROVE  /\ SignBytes(r, p) \in SignedMsg
           /\ TrackedState(SignBytes(r, p)) = TrackedState(r)
<1>1. r.height \in Nat /\ r.round \in Nat /\ r.type \in MsgTypes
  BY DEF Request, Validate, ValidateProposal, ValidateVote, VoteTypes, MsgTypes
<1>2. CanonicalBlockId(r.block_id, p) \in WireBlockId \cup {None}
  BY DEF CanonicalBlockId, Request
<1>3. ParseBlockId(CanonicalBlockId(r.block_id, p)) = ParseBlockId(r.block_id)
  BY NoneAssumption DEF CanonicalBlockId, ParseBlockId
<1>4. QED
  BY <1>1, <1>2, <1>3 DEF SignBytes, SignedMsg, TrackedState

-----------------------------------------------------------------------------
(* Type correctness. *)

LEMMA InitType == Init => TypeOK /\ RequestsChecked
BY NoneIsNoValue DEF Init, TypeOK, RequestsChecked, Locations

LEMMA LoadedStateType ==
    ASSUME TypeOK
    PROVE  LoadedState \in State
BY RoundAssumption DEF TypeOK, LoadedState, StateAtHeight, State, Steps

(* An error leaves its session without request and response. *)
LEMMA FailType ==
    ASSUME TypeOK, RequestsChecked, NEW s \in Sessions, Fail(s), mem # None,
           UNCHANGED <<mem, disk, signed>>, lock' \in Sessions \cup {None}
    PROVE  TypeOK' /\ RequestsChecked'
BY DEF TypeOK, RequestsChecked, Fail, Goto, Locations, WithinMaxHeight

LEMMA TypeStep == TypeOK /\ RequestsChecked /\ [Next]_vars => TypeOK' /\ RequestsChecked'
<1> SUFFICES ASSUME TypeOK, RequestsChecked, [Next]_vars
             PROVE  TypeOK' /\ RequestsChecked'
  OBVIOUS
<1>1. ASSUME NEW output \in HookOutputs, Start(output)
      PROVE  TypeOK' /\ RequestsChecked'
  <2>1. mem' \in State /\ disk' \in State
    BY <1>1, LoadedStateType, HookFollows DEF Start
  <2>2. QED
    BY <1>1, <2>1, NoneIsNoValue DEF Start, TypeOK, RequestsChecked, Locations
<1>2. CASE AbortStart
  BY <1>2, LoadedStateType DEF AbortStart, TypeOK, RequestsChecked, WithinMaxHeight
<1>3. CASE ProcessEnds
  BY <1>3, NoneIsNoValue DEF ProcessEnds, TypeOK, RequestsChecked, Locations
<1>4. ASSUME NEW s \in Sessions, Connect(s)
      PROVE  TypeOK' /\ RequestsChecked'
  <2>1. CASE Respawn(s) \/ Open(s)
    BY <2>1 DEF Respawn, Open, Goto, TypeOK, RequestsChecked, Locations, WithinMaxHeight
  <2>2. CASE OpenFails(s)
    BY <2>2, FailType DEF OpenFails, TypeOK
  <2>3. QED
    BY <1>4, <2>1, <2>2 DEF Connect
<1>5. ASSUME NEW s \in Sessions, Read(s)
      PROVE  TypeOK' /\ RequestsChecked'
  <2>1. ASSUME NEW r \in Requests, Receive(s, r)
        PROVE  TypeOK' /\ RequestsChecked'
    BY <2>1, RequestAssumption, NoneIsNoValue
       DEF Receive, Goto, TypeOK, RequestsChecked, Locations, WithinMaxHeight
  <2>2. ASSUME NEW r \in Requests, Reject(s, r)
        PROVE  TypeOK' /\ RequestsChecked'
    BY <2>2, FailType DEF Reject, TypeOK
  <2>3. ASSUME NEW msg \in {"Ping", "PublicKey"}, Reply(s, msg)
        PROVE  TypeOK' /\ RequestsChecked'
    <3>1. Encode(s, msg, TRUE, FALSE) \in Response
      BY DEF Encode, Response
    <3>2. QED
      BY <2>3, <3>1, NoneIsNoValue
         DEF Reply, Goto, TypeOK, RequestsChecked, Locations, WithinMaxHeight
  <2>4. CASE ReadFails(s)
    BY <2>4, FailType DEF ReadFails, TypeOK
  <2>5. QED
    BY <1>5, <2>1, <2>2, <2>3, <2>4 DEF Read
<1>6. ASSUME NEW s \in Sessions, UpdateConsensusState(s)
      PROVE  TypeOK' /\ RequestsChecked'
  <2>1. pc[s] = "lock" /\ mem # None /\ req[s] \in Request /\ Validate(req[s])
    BY <1>6, RequestAssumption
       DEF UpdateConsensusState, Accept, Refuse, Regress, TypeOK, RequestsChecked
  <2>2. CASE Accept(s)
    <3>1. TrackedState(req[s]) \in State
      BY <2>1, TrackedStateType
    <3>2. QED
      BY <2>1, <2>2, <3>1, NoneIsNoValue
         DEF Accept, Goto, TypeOK, RequestsChecked, Locations, WithinMaxHeight
  <2>3. CASE Refuse(s)
    <3>1. Encode(s, "Signed", FALSE, TRUE) \in Response
      BY DEF Encode, Response
    <3>2. QED
      BY <2>1, <2>3, <3>1, NoneIsNoValue
         DEF Refuse, Goto, TypeOK, RequestsChecked, Locations, WithinMaxHeight
  <2>4. CASE Regress(s)
    BY <2>1, <2>4, FailType DEF Regress, TypeOK
  <2>5. QED
    BY <1>6, <2>2, <2>3, <2>4 DEF UpdateConsensusState
<1>7. ASSUME NEW s \in Sessions, SyncToDisk(s)
      PROVE  TypeOK' /\ RequestsChecked'
  <2>1. CASE SyncOk(s)
    BY <2>1 DEF SyncOk, Goto, TypeOK, RequestsChecked, Locations, WithinMaxHeight
  <2>2. CASE SyncFails(s)
    BY <2>2, FailType DEF SyncFails, TypeOK
  <2>3. QED
    BY <1>7, <2>1, <2>2 DEF SyncToDisk
<1>8. ASSUME NEW s \in Sessions, Finish(s)
      PROVE  TypeOK' /\ RequestsChecked'
  <2>1. CASE Sign(s)
    <3>0. req[s] \in Request /\ Validate(req[s])
      BY <2>1, RequestAssumption DEF Sign, TypeOK, RequestsChecked
    <3>1. SignBytes(req[s], s \in Protobuf) \in SignedMsg
      BY <3>0, SignBytesTracked
    <3>2. Encode(s, "Signed", TRUE, FALSE) \in Response
      BY DEF Encode, Response
    <3>3. QED
      BY <2>1, <3>1, <3>2, NoneIsNoValue
         DEF Sign, Goto, TypeOK, RequestsChecked, Locations, WithinMaxHeight
  <2>2. CASE SignFails(s)
    BY <2>2, FailType DEF SignFails, TypeOK
  <2>3. CASE Respond(s)
    BY <2>3 DEF Respond, Goto, TypeOK, RequestsChecked, Locations, WithinMaxHeight
  <2>4. CASE WriteFails(s)
    BY <2>4, FailType DEF WriteFails, TypeOK
  <2>5. QED
    BY <1>8, <2>1, <2>2, <2>3, <2>4 DEF Finish
<1>9. CASE UNCHANGED vars
  BY <1>9 DEF vars, TypeOK, RequestsChecked, WithinMaxHeight
<1>10. QED
  BY <1>1, <1>2, <1>3, <1>4, <1>5, <1>6, <1>7, <1>8, <1>9
     DEF Next, Thread, Crash, Exit

(* In every reachable state every variable has its type, in particular the  *)
(* tracked round its width, and a request is held exactly while it is being *)
(* checked, recorded and signed.                                            *)
THEOREM TypeCorrect == Spec => []TypeOK
<1>1. Spec => [](TypeOK /\ RequestsChecked)
  BY InitType, TypeStep, PTL DEF Spec
<1>2. QED
  BY <1>1, PTL

-----------------------------------------------------------------------------
(* The inductive invariant. *)

LEMMA InitIInv == Init => IInv
<1> SUFFICES ASSUME Init PROVE IInv
  OBVIOUS
<1>1. Claims = {}
  BY DEF Init, Claims
<1>2. QED
  BY <1>1, InitType
     DEF Init, IInv, MemoryAheadOfFile, MutexCoversSync, ClaimsDurable, ClaimsOrdered

(* Every claim is a tracked state. *)
LEMMA ClaimsType ==
    ASSUME TypeOK, RequestsChecked
    PROVE  Claims \subseteq State
<1>1. \A m \in SignedMsg : TrackedState(m) \in State
  <2> SUFFICES ASSUME NEW m \in SignedMsg
               PROVE  TrackedState(m) \in State
    OBVIOUS
  <2>1. m.round % RoundModulus \in 0 .. RoundModulus - 1
    BY RoundAssumption DEF SignedMsg
  <2>2. StepOf(m.type) \in Steps
    BY DEF StepOf, Steps, SignedMsg, MsgTypes, VoteTypes
  <2>3. ParseBlockId(m.block_id) \in BlockIds \cup {None}
    BY DEF ParseBlockId
  <2>4. QED
    BY <2>1, <2>2, <2>3 DEF TrackedState, State, SignedMsg
<1>2. \A s \in Sessions : pc[s] = "sign" => TrackedState(req[s]) \in State
  BY TrackedStateType, RequestAssumption DEF TypeOK, RequestsChecked
<1>3. QED
  BY <1>1, <1>2 DEF Claims, TypeOK

(* A step that makes no claim and leaves the file alone keeps the claims    *)
(* covered and ordered.                                                     *)
LEMMA NoNewClaim ==
    ASSUME ClaimsDurable, ClaimsOrdered, Claims' \subseteq Claims, disk' = disk
    PROVE  ClaimsDurable' /\ ClaimsOrdered'
BY DEF ClaimsDurable, ClaimsOrdered

(* A step of one session outside update_consensus_state and sign_ed25519    *)
(* keeps every conjunct but the types.                                      *)
LEMMA LocalStep ==
    ASSUME IInv, UNCHANGED <<mem, lock, disk, signed>>,
           \A t \in Sessions :
               pc'[t] \in {"sync", "sign"} => pc'[t] = pc[t] /\ req'[t] = req[t]
    PROVE  MemoryAheadOfFile' /\ MutexCoversSync' /\ ClaimsDurable' /\ ClaimsOrdered'
<1>1. Claims' \subseteq Claims
  BY DEF Claims
<1>2. ClaimsDurable' /\ ClaimsOrdered'
  BY <1>1, NoNewClaim DEF IInv
<1>3. MemoryAheadOfFile' /\ MutexCoversSync'
  BY DEF IInv, MemoryAheadOfFile, MutexCoversSync
<1>4. QED
  BY <1>2, <1>3

(* The session that holds the lock writes the state of its request and so   *)
(* makes one new claim, at or after every earlier one.                      *)
LEMMA SyncOkStep ==
    ASSUME IInv, NEW s \in Sessions, SyncOk(s)
    PROVE  MemoryAheadOfFile' /\ MutexCoversSync' /\ ClaimsDurable' /\ ClaimsOrdered'
<1>1. /\ lock = s /\ mem = TrackedState(req[s]) /\ mem \in State
      /\ disk \in State /\ Follows(disk, mem)
  BY DEF IInv, SyncOk, MutexCoversSync, MemoryAheadOfFile, TypeOK
<1>2. Claims' \subseteq Claims \cup {mem}
  BY <1>1 DEF SyncOk, Goto, Claims, IInv, TypeOK
<1>3. \A c \in Claims : c \in State /\ Follows(c, mem)
  BY <1>1, ClaimsType, FollowsTransitive DEF IInv, ClaimsDurable
<1>4. Follows(mem, mem)
  BY DEF Follows
<1>5. disk' = mem /\ mem' = mem /\ mem # None
  BY <1>1, NoneIsNoValue DEF SyncOk
<1>6. ClaimsDurable'
  BY <1>2, <1>3, <1>4, <1>5 DEF ClaimsDurable
<1>7. ClaimsOrdered'
  BY <1>2, <1>3, <1>4 DEF ClaimsOrdered, IInv
<1>8. MemoryAheadOfFile'
  BY <1>4, <1>5 DEF MemoryAheadOfFile
<1>9. MutexCoversSync'
  BY <1>1 DEF SyncOk, Goto, MutexCoversSync, IInv, TypeOK
<1>10. QED
  BY <1>6, <1>7, <1>8, <1>9

(* Signing turns the claim of the session into a signature.                 *)
LEMMA SignStep ==
    ASSUME IInv, NEW s \in Sessions, Sign(s)
    PROVE  MemoryAheadOfFile' /\ MutexCoversSync' /\ ClaimsDurable' /\ ClaimsOrdered'
<1>1. req[s] \in Request /\ Validate(req[s]) /\ pc[s] = "sign"
  BY RequestAssumption DEF Sign, IInv, TypeOK, RequestsChecked
<1>2. TrackedState(SignBytes(req[s], s \in Protobuf)) = TrackedState(req[s])
  BY <1>1, SignBytesTracked
<1>3. Claims' \subseteq Claims
  <2> SUFFICES ASSUME NEW c \in Claims' PROVE c \in Claims
    OBVIOUS
  <2>1. CASE \E m \in signed' : c = TrackedState(m)
    BY <1>1, <1>2, <2>1 DEF Sign, Claims
  <2>2. CASE \E t \in Sessions : pc'[t] = "sign" /\ c = TrackedState(req'[t])
    BY <1>1, <2>2 DEF Sign, Goto, Claims, IInv, TypeOK
  <2>3. QED
    BY <2>1, <2>2 DEF Claims
<1>4. ClaimsDurable' /\ ClaimsOrdered'
  BY <1>3, NoNewClaim DEF Sign, IInv
<1>5. MemoryAheadOfFile' /\ MutexCoversSync'
  BY DEF Sign, Goto, IInv, MemoryAheadOfFile, MutexCoversSync, TypeOK
<1>6. QED
  BY <1>4, <1>5

LEMMA StepIInv == IInv /\ [Next]_vars => IInv'
<1> DEFINE Rest == /\ MemoryAheadOfFile /\ MutexCoversSync
                   /\ ClaimsDurable /\ ClaimsOrdered
<1> SUFFICES ASSUME IInv, [Next]_vars
             PROVE  Rest'
  BY TypeStep DEF IInv
<1> USE DEF IInv
<1>1. ASSUME NEW output \in HookOutputs, Start(output)
      PROVE  Rest'
  <2>1. LoadedState \in State /\ LoadedState # None
    BY LoadedStateType, NoneIsNoValue
  <2>2. Follows(LoadedState, mem')
    BY <1>1, <2>1, HookFollows DEF Start, Follows
  <2>3. MemoryAheadOfFile' /\ MutexCoversSync'
    BY <1>1, <2>1, <2>2 DEF Start, MemoryAheadOfFile, MutexCoversSync
  <2>4. Claims' \subseteq Claims
    BY <1>1 DEF Start, Claims
  <2>5. ClaimsDurable' /\ ClaimsOrdered'
    BY <1>1, <2>1, <2>4
       DEF Start, LoadedState, ClaimsDurable, ClaimsOrdered
  <2>6. QED
    BY <2>3, <2>5
<1>2. CASE AbortStart
  <2>1. LoadedState \in State /\ LoadedState # None
    BY LoadedStateType, NoneIsNoValue
  <2>2. MemoryAheadOfFile' /\ MutexCoversSync'
    BY <1>2, <2>1 DEF AbortStart, MemoryAheadOfFile, MutexCoversSync
  <2>3. Claims' = Claims
    BY <1>2 DEF AbortStart, Claims
  <2>4. ClaimsDurable' /\ ClaimsOrdered'
    BY <1>2, <2>1, <2>3 DEF AbortStart, LoadedState, ClaimsDurable, ClaimsOrdered
  <2>5. QED
    BY <2>2, <2>4
<1>3. CASE ProcessEnds
  <2>1. Claims' \subseteq Claims
    BY <1>3 DEF ProcessEnds, Claims
  <2>2. ClaimsDurable' /\ ClaimsOrdered'
    BY <1>3, <2>1, NoNewClaim DEF ProcessEnds
  <2>3. MemoryAheadOfFile' /\ MutexCoversSync'
    BY <1>3 DEF ProcessEnds, MemoryAheadOfFile, MutexCoversSync
  <2>4. QED
    BY <2>2, <2>3
<1>4. ASSUME NEW s \in Sessions, Connect(s)
      PROVE  Rest'
  BY <1>4, LocalStep DEF Connect, Respawn, Open, OpenFails, Fail, Goto, TypeOK
<1>5. ASSUME NEW s \in Sessions, Read(s)
      PROVE  Rest'
  <2>1. ASSUME NEW r \in Requests, Receive(s, r)
        PROVE  Rest'
    BY <2>1, LocalStep DEF Receive, Goto, TypeOK
  <2>2. CASE \E r \in Requests : Reject(s, r)
    BY <2>2, LocalStep DEF Reject, Fail, Goto, TypeOK
  <2>3. CASE \E msg \in {"Ping", "PublicKey"} : Reply(s, msg)
    BY <2>3, LocalStep DEF Reply, Goto, TypeOK
  <2>4. CASE ReadFails(s)
    BY <2>4, LocalStep DEF ReadFails, Fail, Goto, TypeOK
  <2>5. QED
    BY <1>5, <2>1, <2>2, <2>3, <2>4 DEF Read
<1>6. ASSUME NEW s \in Sessions, UpdateConsensusState(s)
      PROVE  Rest'
  <2>1. CASE Accept(s)
    <3>1. /\ mem \in State /\ disk \in State /\ Follows(disk, mem)
          /\ req[s] \in Request /\ Validate(req[s])
      BY <2>1, RequestAssumption DEF Accept, TypeOK, RequestsChecked, MemoryAheadOfFile
    <3>2. TrackedState(req[s]) \in State
      BY <3>1, TrackedStateType
    <3>3. Follows(disk, TrackedState(req[s]))
      BY <2>1, <3>1, <3>2, AcceptedFollows, FollowsTransitive DEF Accept
    <3>4. MemoryAheadOfFile'
      BY <2>1, <3>1, <3>3, NoneIsNoValue DEF Accept, MemoryAheadOfFile
    <3>5. MutexCoversSync'
      BY <2>1, SessionAssumption DEF Accept, Goto, MutexCoversSync, TypeOK
    <3>6. Claims' \subseteq Claims
      BY <2>1 DEF Accept, Goto, Claims, TypeOK
    <3>7. ClaimsDurable' /\ ClaimsOrdered'
      BY <2>1, <3>6, NoNewClaim DEF Accept
    <3>8. QED
      BY <3>4, <3>5, <3>7
  <2>2. CASE Refuse(s)
    BY <2>2, LocalStep DEF Refuse, Goto, TypeOK
  <2>3. CASE Regress(s)
    BY <2>3, LocalStep DEF Regress, Fail, Goto, TypeOK
  <2>4. QED
    BY <1>6, <2>1, <2>2, <2>3 DEF UpdateConsensusState
<1>7. ASSUME NEW s \in Sessions, SyncToDisk(s)
      PROVE  Rest'
  <2>1. CASE SyncOk(s)
    BY <2>1, SyncOkStep
  <2>2. CASE SyncFails(s)
    <3>1. MemoryAheadOfFile'
      BY <2>2 DEF SyncFails, MemoryAheadOfFile
    <3>2. MutexCoversSync'
      BY <2>2 DEF SyncFails, Fail, Goto, MutexCoversSync, TypeOK
    <3>3. Claims' \subseteq Claims
      BY <2>2 DEF SyncFails, Fail, Goto, Claims, TypeOK
    <3>4. ClaimsDurable' /\ ClaimsOrdered'
      BY <2>2, <3>3, NoNewClaim DEF SyncFails
    <3>5. QED
      BY <3>1, <3>2, <3>4
  <2>3. QED
    BY <1>7, <2>1, <2>2 DEF SyncToDisk
<1>8. ASSUME NEW s \in Sessions, Finish(s)
      PROVE  Rest'
  <2>1. CASE Sign(s)
    BY <2>1, SignStep
  <2>2. CASE SignFails(s)
    BY <2>2, LocalStep DEF SignFails, Fail, Goto, TypeOK
  <2>3. CASE Respond(s)
    BY <2>3, LocalStep DEF Respond, Goto, TypeOK
  <2>4. CASE WriteFails(s)
    BY <2>4, LocalStep DEF WriteFails, Fail, Goto, TypeOK
  <2>5. QED
    BY <1>8, <2>1, <2>2, <2>3, <2>4 DEF Finish
<1>9. CASE UNCHANGED vars
  BY <1>9, LocalStep DEF vars
<1>10. QED
  BY <1>1, <1>2, <1>3, <1>4, <1>5, <1>6, <1>7, <1>8, <1>9
     DEF Next, Thread, Crash, Exit

(* Every reachable state of the signing path satisfies the inductive        *)
(* invariant: memory and file are ordered, the mutex covers the write, and  *)
(* all signatures made or still to be made are covered by the file and      *)
(* ordered among themselves.                                                *)
THEOREM Invariance == Spec => []IInv
BY InitIInv, StepIInv, PTL DEF Spec

(* The state that update_consensus_state writes is that of the request its  *)
(* session goes on to sign: the mutex covers the check and the write.       *)
THEOREM LockHeldForSync == Spec => []MutexCoversSync
<1>1. IInv => MutexCoversSync
  BY DEF IInv
<1>2. QED
  BY <1>1, Invariance, PTL

(* The state in memory, which requests are checked against, is never behind *)
(* the file, whatever the hook reports and however many syncs fail.         *)
THEOREM MemoryNeverBehind == Spec => []MemoryAheadOfFile
<1>1. IInv => MemoryAheadOfFile
  BY DEF IInv
<1>2. QED
  BY <1>1, Invariance, PTL

(* Sessions sign without the lock and may overtake each other; still all    *)
(* signatures made and still to be made are covered by the file and ordered.*)
THEOREM ClaimsNeverConflict == Spec => []ClaimsCovered
<1>1. IInv => ClaimsCovered
  BY DEF IInv, ClaimsCovered
<1>2. QED
  BY <1>1, Invariance, PTL

(* With the legacy encoding everywhere, a validator that is refused a       *)
(* double sign is told so (Session::update_consensus_state).                *)
THEOREM LegacyRefusalsReported ==
    ASSUME Protobuf = {}
    PROVE  Spec => []RefusalIsReported
<1>1. Init => RefusalIsReported
  BY DEF Init, RefusalIsReported
<1>2. TypeOK /\ RefusalIsReported /\ [Next]_vars => RefusalIsReported'
  <2> SUFFICES ASSUME TypeOK, RefusalIsReported, [Next]_vars,
                      NEW t \in Sessions, pc'[t] = "respond", ~ resp'[t].body
               PROVE  resp'[t].error
    BY DEF RefusalIsReported
  <2> USE DEF TypeOK, RefusalIsReported
  <2>1. CASE pc[t] = "respond" /\ resp'[t] = resp[t]
    BY <2>1
  <2>2. ASSUME NEW s \in Sessions, Thread(s)
        PROVE  \/ pc[t] = "respond" /\ resp'[t] = resp[t]
               \/ resp'[t].error
    <3>1. CASE Connect(s)
      BY <3>1 DEF Connect, Respawn, Open, OpenFails, Goto, Fail
    <3>2. CASE Read(s)
      <4>1. ASSUME NEW r \in Requests, Receive(s, r) \/ Reject(s, r)
            PROVE  pc[t] = "respond" /\ resp'[t] = resp[t]
        BY <4>1 DEF Receive, Reject, Goto, Fail
      <4>2. ASSUME NEW msg \in {"Ping", "PublicKey"}, Reply(s, msg)
            PROVE  pc[t] = "respond" /\ resp'[t] = resp[t]
        BY <4>2 DEF Reply, Goto, Encode
      <4>3. CASE ReadFails(s)
        BY <4>3 DEF ReadFails, Goto, Fail
      <4>4. QED
        BY <3>2, <4>1, <4>2, <4>3 DEF Read
    <3>3. CASE Accept(s) \/ Regress(s)
      BY <3>3 DEF Accept, Regress, Goto, Fail
    <3>4. CASE Refuse(s)
      BY <3>4 DEF Refuse, Goto, Encode
    <3>5. CASE SyncToDisk(s)
      BY <3>5 DEF SyncToDisk, SyncOk, SyncFails, Goto, Fail
    <3>6. CASE Finish(s)
      <4>1. CASE Sign(s)
        BY <4>1 DEF Sign, Goto, Encode
      <4>2. CASE SignFails(s) \/ WriteFails(s)
        BY <4>2 DEF SignFails, WriteFails, Goto, Fail
      <4>3. CASE Respond(s)
        BY <4>3 DEF Respond, Goto
      <4>4. QED
        BY <3>6, <4>1, <4>2, <4>3 DEF Finish
    <3>7. QED
      BY <2>2, <3>1, <3>2, <3>3, <3>4, <3>5, <3>6 DEF Thread, UpdateConsensusState
  <2>3. ASSUME NEW output \in HookOutputs, Start(output) PROVE FALSE
    BY <2>3 DEF Start
  <2>4. CASE AbortStart \/ Crash \/ Exit \/ UNCHANGED vars
    BY <2>4 DEF AbortStart, Crash, Exit, ProcessEnds, vars
  <2>5. QED
    BY <2>1, <2>2, <2>3, <2>4 DEF Next
<1>3. QED
  BY <1>1, <1>2, TypeCorrect, PTL DEF Spec

-----------------------------------------------------------------------------
(* What follows from the inductive invariant. *)

(* Two messages for the same height, round and step that were both signed   *)
(* are tracked as the same state, hence with the same block ID.             *)
LEMMA SignedAgree ==
    ASSUME IInv, NEW m \in signed, NEW n \in signed, SameVote(m, n)
    PROVE  TrackedState(m).block_id = TrackedState(n).block_id
<1>1. TrackedState(m) \in Claims /\ TrackedState(n) \in Claims
  BY DEF Claims
<1>2. TrackedState(m) \in State /\ TrackedState(n) \in State
  BY <1>1, ClaimsType DEF IInv
<1>3. /\ TrackedState(m).height = TrackedState(n).height
      /\ TrackedState(m).round = TrackedState(n).round
      /\ TrackedState(m).step = TrackedState(n).step
  BY DEF SameVote, TrackedState
<1>4. ~ Before(TrackedState(m), TrackedState(n)) /\ ~ Before(TrackedState(n), TrackedState(m))
  BY <1>2, <1>3 DEF Before, SameRound, State, Steps
<1>5. TrackedState(m) = TrackedState(n)
  BY <1>1, <1>4 DEF IInv, ClaimsOrdered, Follows
<1>6. QED
  BY <1>5

(* tmkms never double signs: no crash, restart, failed sync or interleaving *)
(* of sessions makes the key sign two different block IDs, or a block ID    *)
(* and <nil>, for one height, round and step (State::update_consensus_state *)
(* and the order of sync and signature in Session::sign).                   *)
THEOREM NeverDoubleSigns == Spec => []NoDoubleSign
<1>1. IInv => NoDoubleSign
  <2> SUFFICES ASSUME IInv, NEW m \in signed, NEW n \in signed,
                      SameVote(m, n), FullyTracked(m), FullyTracked(n)
               PROVE  VotedHash(m) = VotedHash(n)
    BY DEF NoDoubleSign
  <2>1. TrackedState(m).block_id = TrackedState(n).block_id
    BY SignedAgree
  <2>2. QED
    BY <2>1 DEF FullyTracked, TrackedState
<1>2. QED
  BY <1>1, Invariance, PTL

(* Whatever was signed is at or before the state in the state file, so the  *)
(* state load_state finds after a crash covers every signature.             *)
THEOREM SignaturesDurable == Spec => []SignedIsDurable
<1>1. IInv => SignedIsDurable
  BY DEF IInv, ClaimsDurable, Claims, SignedIsDurable
<1>2. QED
  BY <1>1, Invariance, PTL

(* How the state file changes: it is created with the initial state, or     *)
(* replaced by the state of a validated request that follows it.            *)
LEMMA FileStep ==
    ASSUME IInv, [Next]_vars, disk' # disk
    PROVE  \/ disk = None /\ disk' = StateAtHeight(0) /\ signed' = signed
           \/ /\ disk # None /\ Follows(disk, disk') /\ signed' = signed
              /\ \E s \in Sessions : SyncOk(s) /\ disk' = TrackedState(req[s])
<1>1. CASE AbortStart \/ \E output \in HookOutputs : Start(output)
  BY <1>1 DEF AbortStart, Start, LoadedState
<1>2. ASSUME NEW s \in Sessions, SyncOk(s)
      PROVE  /\ disk # None /\ Follows(disk, disk') /\ signed' = signed
             /\ disk' = TrackedState(req[s])
  BY <1>2 DEF SyncOk, IInv, MutexCoversSync, MemoryAheadOfFile, TypeOK
<1>3. \/ AbortStart \/ \E output \in HookOutputs : Start(output)
      \/ \E s \in Sessions : SyncOk(s)
  BY DEF vars, Next, Crash, Exit, ProcessEnds, Thread, Connect, Respawn, Open, OpenFails,
         Read, Receive, Reject, Reply, ReadFails, UpdateConsensusState, Accept, Refuse,
         Regress, SyncToDisk, SyncFails, Finish, Sign, SignFails, Respond, WriteFails
<1>4. QED
  BY <1>1, <1>2, <1>3

(* The state file never goes back, in no step of any session and across no  *)
(* crash or restart (sync_to_disk is only reached past the checks).         *)
THEOREM FileMonotonic == Spec => FileNeverRegresses
<1>1. IInv /\ [Next]_vars => [disk # None => disk' # None /\ Follows(disk, disk')]_vars
  <2> SUFFICES ASSUME IInv, [Next]_vars, disk # None
               PROVE  disk' # None /\ Follows(disk, disk')
    OBVIOUS
  <2>1. CASE disk' = disk
    BY <2>1 DEF Follows
  <2>2. CASE disk' # disk
    <3>1. Follows(disk, disk') /\ disk' # disk
      BY <2>2, FileStep
    <3>2. disk' # None
      BY StepIInv, FileStep, <2>2, NoneIsNoValue, TrackedStateType, RequestAssumption
         DEF IInv, SyncOk, TypeOK, RequestsChecked
    <3>3. QED
      BY <3>1, <3>2
  <2>3. QED
    BY <2>1, <2>2
<1>2. QED
  BY <1>1, Invariance, PTL DEF Spec, FileNeverRegresses

(* How the set of signatures changes: one validated request is signed, and  *)
(* the state file stays.                                                    *)
LEMMA SignedStep ==
    ASSUME [Next]_vars, signed' # signed
    PROVE  disk' = disk /\ \E s \in Sessions : Sign(s)
BY DEF vars, Next, Start, AbortStart, Crash, Exit, ProcessEnds, Thread, Connect, Respawn,
       Open, OpenFails, Read, Receive, Reject, Reply, ReadFails, UpdateConsensusState, Accept,
       Refuse, Regress, SyncToDisk, SyncOk, SyncFails, Finish, SignFails, Sign, Respond,
       WriteFails

(* With a max_height on every validator entry, no signature and no state    *)
(* written to the file lies above the largest of them, whatever is asked    *)
(* and whatever the hook reports (check_max_height precedes the update).    *)
THEOREM MaxHeightStops == Spec => []StopsAtMaxHeight
<1>1. Init => StopsAtMaxHeight
  BY DEF Init, StopsAtMaxHeight
<1>2. IInv /\ StopsAtMaxHeight /\ [Next]_vars => StopsAtMaxHeight'
  <2> SUFFICES ASSUME IInv, StopsAtMaxHeight, [Next]_vars,
                      \A s \in Sessions : MaxHeight[s] # None
               PROVE  /\ \A m \in signed' : \E s \in Sessions : m.height <= MaxHeight[s]
                      /\ disk' # None =>
                            \/ disk'.height = 0
                            \/ \E s \in Sessions : disk'.height <= MaxHeight[s]
    BY DEF StopsAtMaxHeight
  <2>1. \A m \in signed' : \E s \in Sessions : m.height <= MaxHeight[s]
    <3>1. ASSUME NEW s \in Sessions, Sign(s)
          PROVE  SignBytes(req[s], s \in Protobuf).height <= MaxHeight[s]
      BY <3>1 DEF Sign, IInv, RequestsChecked, WithinMaxHeight, SignBytes
    <3>2. QED
      BY <3>1, SignedStep DEF StopsAtMaxHeight, Sign
  <2>2. ASSUME disk' # None
        PROVE  disk'.height = 0 \/ \E s \in Sessions : disk'.height <= MaxHeight[s]
    <3>1. CASE disk' = disk
      BY <2>2, <3>1 DEF StopsAtMaxHeight
    <3>2. CASE disk = None /\ disk' = StateAtHeight(0)
      BY <3>2 DEF StateAtHeight
    <3>3. ASSUME NEW s \in Sessions, SyncOk(s), disk' = TrackedState(req[s])
          PROVE  disk'.height <= MaxHeight[s]
      <4>1. pc[s] = "sync"
        BY <3>3 DEF SyncOk
      <4>2. req[s].height <= MaxHeight[s]
        BY <4>1 DEF IInv, RequestsChecked, WithinMaxHeight
      <4>3. disk'.height = req[s].height
        BY <3>3 DEF TrackedState
      <4>4. QED
        BY <4>2, <4>3
    <3>4. QED
      BY <3>1, <3>2, <3>3, FileStep
  <2>3. QED
    BY <2>1, <2>2
<1>3. QED
  BY <1>1, <1>2, Invariance, PTL DEF Spec

-----------------------------------------------------------------------------
(* What a running process does with a conflicting request, and the lock.    *)

(* A request that conflicts with a signature is refused by whichever        *)
(* session receives it, whatever crashes, failed syncs and hook outputs lie *)
(* between the signature and the request (State::update_consensus_state     *)
(* compares with a memory that is never behind any signature).              *)
THEOREM ConflictingRequestsRefused == Spec => []ConflictsRefused
<1>1. IInv => ConflictsRefused
  <2> SUFFICES ASSUME IInv, mem # None, NEW m \in signed, NEW r \in Requests,
                      Validate(r), SameVote(m, r), TrackedState(m) # TrackedState(r),
                      UpdateResult(mem, TrackedState(r)) = "Ok"
               PROVE  FALSE
    BY DEF ConflictsRefused
  <2>1. TrackedState(r) \in State
    BY TrackedStateType, RequestAssumption
  <2>2. TrackedState(m) \in Claims
    BY DEF Claims
  <2>3. TrackedState(m) \in State /\ disk \in State /\ mem \in State
    BY <2>2, ClaimsType DEF IInv, TypeOK, MemoryAheadOfFile
  <2>4. Follows(TrackedState(m), disk) /\ Follows(disk, mem)
    BY <2>2 DEF IInv, ClaimsDurable, MemoryAheadOfFile
  <2>5. Follows(mem, TrackedState(r))
    BY <2>1, <2>3, AcceptedFollows
  <2>6. Follows(TrackedState(m), TrackedState(r))
    BY <2>1, <2>3, <2>4, <2>5, FollowsTransitive
  <2>7. /\ TrackedState(m).height = TrackedState(r).height
        /\ TrackedState(m).round = TrackedState(r).round
        /\ TrackedState(m).step = TrackedState(r).step
    BY DEF SameVote, TrackedState
  <2>8. ~ Before(TrackedState(m), TrackedState(r))
    BY <2>1, <2>3, <2>7 DEF Before, SameRound, State, Steps
  <2>9. QED
    BY <2>6, <2>8 DEF Follows
<1>2. QED
  BY <1>1, Invariance, PTL

(* How the state in memory changes while the process runs: one session, the *)
(* lock being free, replaces it by the state of its request.                *)
LEMMA MemoryStep ==
    ASSUME [Next]_vars, mem # None, mem' # None, mem' # mem
    PROVE  \E s \in Sessions : Accept(s)
BY DEF vars, Next, Start, AbortStart, Crash, Exit, ProcessEnds, Thread, Connect, Respawn,
       Open, OpenFails, Read, Receive, Reject, Reply, ReadFails, UpdateConsensusState,
       Refuse, Regress, SyncToDisk, SyncOk, SyncFails, Finish, SignFails, Sign, Respond,
       WriteFails

(* Until the process ends, the chain state in memory never goes back: not   *)
(* when a sync fails, and not between two sessions that alternate.          *)
THEOREM MemoryMonotonic == Spec => MemoryNeverRegresses
<1>1. IInv /\ [Next]_vars => [mem # None /\ mem' # None => Follows(mem, mem')]_vars
  <2> SUFFICES ASSUME IInv, [Next]_vars, mem # None, mem' # None
               PROVE  Follows(mem, mem')
    OBVIOUS
  <2>1. CASE mem' = mem
    BY <2>1 DEF Follows
  <2>2. CASE mem' # mem
    <3>1. PICK s \in Sessions : Accept(s)
      BY <2>2, MemoryStep
    <3>2. TrackedState(req[s]) \in State /\ mem \in State
      BY <3>1, TrackedStateType, RequestAssumption DEF Accept, IInv, TypeOK, RequestsChecked
    <3>3. QED
      BY <3>1, <3>2, AcceptedFollows DEF Accept
  <2>3. QED
    BY <2>1, <2>2
<1>2. QED
  BY <1>1, Invariance, PTL DEF Spec, MemoryNeverRegresses

(* While a session with the lock is in sync_to_disk, a step of any thread   *)
(* is a sync_to_disk, or that of another session, which changes neither     *)
(* chain::State, its file, the lock nor the first session's request.        *)
LEMMA OthersStep ==
    ASSUME TypeOK, NEW s \in Sessions, pc[s] = "sync", lock = s,
           NEW t \in Sessions, Thread(t)
    PROVE  \/ SyncToDisk(t)
           \/ t # s /\ UNCHANGED <<mem, lock, disk>> /\ pc'[s] = pc[s] /\ req'[s] = req[s]
<1> USE DEF TypeOK, Goto, Fail
<1>1. CASE Connect(t)
  BY <1>1 DEF Connect, Respawn, Open, OpenFails
<1>2. CASE Read(t)
  BY <1>2 DEF Read, Receive, Reject, Reply, ReadFails
<1>3. CASE UpdateConsensusState(t)
  BY <1>3, SessionAssumption DEF UpdateConsensusState, Accept, Refuse, Regress
<1>4. CASE Finish(t)
  BY <1>4 DEF Finish, Sign, SignFails, Respond, WriteFails
<1>5. QED
  BY <1>1, <1>2, <1>3, <1>4 DEF Thread

LEMMA HolderStep == IInv /\ HolderSyncs /\ [Next]_vars => HolderSyncs'
<1> SUFFICES ASSUME IInv, HolderSyncs, [Next]_vars, lock' # None
             PROVE  pc'[lock'] = "sync"
  BY DEF HolderSyncs
<1>1. CASE lock # None
  <2>1. lock \in Sessions /\ pc[lock] = "sync" /\ mem # None
    BY <1>1 DEF HolderSyncs, IInv, TypeOK
  <2>2. ASSUME NEW t \in Sessions, Thread(t)
        PROVE  lock' = lock /\ pc'[lock] = pc[lock]
    BY <2>1, <2>2, OthersStep DEF SyncToDisk, SyncOk, SyncFails, IInv
  <2>3. CASE \/ AbortStart \/ Crash \/ Exit \/ UNCHANGED vars
             \/ \E output \in HookOutputs : Start(output)
    BY <2>1, <2>3 DEF AbortStart, Crash, Exit, ProcessEnds, Start, vars
  <2>4. QED
    BY <2>1, <2>2, <2>3 DEF Next
<1>2. CASE lock = None
  <2>1. PICK s \in Sessions : Accept(s)
    BY <1>2 DEF vars, Next, Start, AbortStart, Crash, Exit, ProcessEnds, Thread, Connect,
         Respawn, Open, OpenFails, Read, Receive, Reject, Reply, ReadFails,
         UpdateConsensusState, Refuse, Regress, SyncToDisk, SyncOk, SyncFails, Finish,
         SignFails, Sign, Respond, WriteFails
  <2>2. QED
    BY <2>1 DEF Accept, Goto, IInv, TypeOK
<1>3. QED
  BY <1>1, <1>2

(* The lock on chain::State is never held by a session that is not about to *)
(* return from sync_to_disk, so that the scheduling of that one call is all *)
(* its release waits for (the MutexGuard of update_consensus_state).        *)
THEOREM LockHeldOnlyToSync == Spec => []HolderSyncs
<1>1. Init => HolderSyncs
  BY DEF Init, HolderSyncs
<1>2. QED
  BY <1>1, HolderStep, Invariance, PTL DEF Spec

(* While a session holds the lock, every other step of the process leaves   *)
(* the chain state, its file and the session's request alone, and the       *)
(* session's own next step releases the lock.                               *)
THEOREM LockProtects == Spec => HolderUndisturbed
<1> DEFINE Kept == \A s \in Sessions : lock = s =>
                     \/ UNCHANGED <<mem, lock, disk>> /\ pc'[s] = pc[s] /\ req'[s] = req[s]
                     \/ SyncToDisk(s) /\ lock' = None
                     \/ ProcessEnds
<1>1. IInv /\ HolderSyncs /\ [Next]_vars => [Kept]_vars
  <2> SUFFICES ASSUME IInv, HolderSyncs, [Next]_vars, NEW s \in Sessions, lock = s
               PROVE  \/ UNCHANGED <<mem, lock, disk>> /\ pc'[s] = pc[s] /\ req'[s] = req[s]
                      \/ SyncToDisk(s) /\ lock' = None
                      \/ ProcessEnds
    OBVIOUS
  <2>1. pc[s] = "sync" /\ mem # None
    BY SessionAssumption DEF HolderSyncs, IInv, TypeOK
  <2>2. ASSUME NEW t \in Sessions, SyncToDisk(t)
        PROVE  t = s /\ lock' = None
    BY <2>2 DEF SyncToDisk, SyncOk, SyncFails, IInv, MutexCoversSync
  <2>3. ASSUME NEW t \in Sessions, Thread(t)
        PROVE  \/ UNCHANGED <<mem, lock, disk>> /\ pc'[s] = pc[s] /\ req'[s] = req[s]
               \/ SyncToDisk(s) /\ lock' = None
    BY <2>1, <2>2, <2>3, OthersStep DEF IInv
  <2>4. CASE AbortStart \/ Crash \/ Exit \/ \E output \in HookOutputs : Start(output)
    BY <2>1, <2>4 DEF AbortStart, Crash, Exit, Start
  <2>5. CASE UNCHANGED vars
    BY <2>5 DEF vars
  <2>6. QED
    BY <2>3, <2>4, <2>5 DEF Next
<1>2. QED
  BY <1>1, LockHeldOnlyToSync, Invariance, PTL DEF Spec, HolderUndisturbed

-----------------------------------------------------------------------------
(* Refinement. *)

(* The abstract guard speaks of the same order, messages and checks.        *)
LEMMA GuardVocabulary ==
    /\ \A a, b : Guard!Follows(a, b) <=> Follows(a, b)
    /\ \A m : Guard!TrackedState(m) = TrackedState(m)
    /\ \A r, p : Guard!SignBytes(r, p) = SignBytes(r, p)
    /\ \A m, n : Guard!SameVote(m, n) <=> SameVote(m, n)
    /\ \A r : Guard!Validate(r) <=> Validate(r)
    /\ Guard!StateAtHeight(0) = StateAtHeight(0)
<1>1. \A b : Guard!ParseBlockId(b) = ParseBlockId(b)
  BY DEF Guard!ParseBlockId, ParseBlockId
<1>2. \A t : Guard!StepOf(t) = StepOf(t)
  BY DEF Guard!StepOf, StepOf
<1>3. \A b, p : Guard!CanonicalBlockId(b, p) = CanonicalBlockId(b, p)
  BY DEF Guard!CanonicalBlockId, CanonicalBlockId
<1>4. \A a, b : Guard!Follows(a, b) <=> Follows(a, b)
  BY DEF Guard!Follows, Guard!Before, Guard!SameRound, Follows, Before, SameRound
<1>5. \A m : Guard!TrackedState(m) = TrackedState(m)
  BY <1>1, <1>2 DEF Guard!TrackedState, TrackedState
<1>6. \A r, p : Guard!SignBytes(r, p) = SignBytes(r, p)
  BY <1>3 DEF Guard!SignBytes, SignBytes
<1>7. \A m, n : Guard!SameVote(m, n) <=> SameVote(m, n)
  BY DEF Guard!SameVote, SameVote
<1>8. \A r : Guard!Validate(r) <=> Validate(r)
  BY DEF Guard!Validate, Guard!ValidateProposal, Guard!ValidateVote, Guard!BlockIdValid,
         Guard!VoteTypes, Validate, ValidateProposal, ValidateVote, BlockIdValid, VoteTypes
<1>9. Guard!StateAtHeight(0) = StateAtHeight(0)
  BY DEF Guard!StateAtHeight, StateAtHeight
<1>10. QED
  BY <1>4, <1>5, <1>6, <1>7, <1>8, <1>9

(* A signature is a step of the abstract guard: its state is covered by the *)
(* file and it conflicts with no earlier signature.                         *)
LEMMA SignRefines ==
    ASSUME IInv, IInv', NEW s \in Sessions, Sign(s)
    PROVE  Guard!Next
<1> DEFINE m == SignBytes(req[s], s \in Protobuf)
<1>1. req[s] \in Requests /\ Validate(req[s]) /\ pc[s] = "sign"
  BY DEF Sign, IInv, TypeOK, RequestsChecked
<1>2. TrackedState(m) = TrackedState(req[s])
  BY <1>1, SignBytesTracked, RequestAssumption
<1>3. TrackedState(m) \in Claims
  BY <1>1, <1>2 DEF Claims
<1>4. disk # None /\ Follows(TrackedState(m), disk)
  BY <1>3 DEF IInv, ClaimsDurable
<1>5. m \in signed' /\ signed \subseteq signed'
  BY DEF Sign
<1>6. \A n \in signed : SameVote(m, n) => TrackedState(m).block_id = TrackedState(n).block_id
  <2> SUFFICES ASSUME NEW n \in signed, SameVote(m, n)
               PROVE  TrackedState(m).block_id = TrackedState(n).block_id
    OBVIOUS
  <2>1. TrackedState(m) \in State /\ TrackedState(n) \in State /\ TrackedState(n) \in Claims
    BY <1>3, ClaimsType DEF IInv, Claims
  <2>2. /\ TrackedState(m).height = TrackedState(n).height
        /\ TrackedState(m).round = TrackedState(n).round
        /\ TrackedState(m).step = TrackedState(n).step
    BY DEF SameVote, TrackedState
  <2>3. TrackedState(m) = TrackedState(n)
    <3> DEFINE a == TrackedState(m)
               b == TrackedState(n)
    <3>1. Follows(a, b) \/ Follows(b, a)
      BY <1>3, <2>1 DEF IInv, ClaimsOrdered
    <3>2. /\ a.height \in Nat /\ a.height = b.height
          /\ a.round \in Int /\ a.round = b.round
          /\ a.step \in Int /\ a.step = b.step
      BY <2>1, <2>2, RoundAssumption DEF State, Steps
    <3> HIDE DEF a, b
    <3>3. ~ Before(a, b) /\ ~ Before(b, a)
      BY <3>2 DEF Before, SameRound
    <3>4. a = b
      BY <3>1, <3>3 DEF Follows
    <3>5. QED
      BY <3>4 DEF a, b
  <2>4. QED
    BY <2>3
<1>7. Guard!Sign(Guard!SignBytes(req[s], s \in Protobuf))
  <2>1. disk' = disk /\ signed' = signed \cup {m}
    BY DEF Sign
  <2>2. QED
    BY <1>4, <1>6, <2>1, GuardVocabulary DEF Guard!Sign, Guard!Conflict
<1>8. req[s] \in Guard!Signable
  BY <1>1, GuardVocabulary DEF Guard!Signable
<1>9. \E p \in BOOLEAN : Guard!Sign(Guard!SignBytes(req[s], p))
  <2>1. (s \in Protobuf) \in BOOLEAN
    OBVIOUS
  <2>2. QED
    BY <1>7, <2>1
<1>10. QED
  BY <1>8, <1>9 DEF Guard!Next

(* The signing path implements the abstract guard: with the state file as   *)
(* its watermark, every step advances the watermark, adds one signature     *)
(* that is covered and without conflict, or changes neither.                *)
THEOREM ImplementsGuard == Spec => GuardSpec
<1>1. Init => Guard!Init
  BY DEF Init, Guard!Init
<1>2. IInv /\ IInv' /\ [Next]_vars => [Guard!Next]_<<disk, signed>>
  <2> SUFFICES ASSUME IInv, IInv', [Next]_vars, ~ UNCHANGED <<disk, signed>>
               PROVE  Guard!Next
    OBVIOUS
  <2>1. CASE signed' # signed
    BY <2>1, SignedStep, SignRefines
  <2>2. CASE signed' = signed /\ disk' # disk
    <3>1. CASE disk = None /\ disk' = StateAtHeight(0)
      BY <2>2, <3>1, GuardVocabulary DEF Guard!Next, Guard!Advance
    <3>2. ASSUME NEW s \in Sessions, SyncOk(s), disk' = TrackedState(req[s]),
                 Follows(disk, disk')
          PROVE  Guard!Next
      <4>1. req[s] \in Guard!Signable
        BY <3>2, GuardVocabulary DEF SyncOk, IInv, TypeOK, RequestsChecked, Guard!Signable
      <4>2. Guard!Advance(Guard!TrackedState(req[s]))
        BY <2>2, <3>2, GuardVocabulary DEF Guard!Advance
      <4>3. QED
        BY <4>1, <4>2 DEF Guard!Next
    <3>3. QED
      BY <2>2, <3>1, <3>2, FileStep
  <2>3. QED
    BY <2>1, <2>2
<1>3. QED
  BY <1>1, <1>2, Invariance, PTL DEF Spec, GuardSpec, Guard!Spec
=============================================================================
