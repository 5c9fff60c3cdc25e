------------------------------- MODULE Signer -------------------------------
(***************************************************************************)
(* The signing path of one chain: the client threads that each keep a      *)
(* session with a validator (client.rs, session.rs), the chain::State they *)
(* share behind a mutex, its state file (chain/state.rs), and the start,   *)
(* crash and exit of the process around them (commands/start.rs, chain.rs).*)
(***************************************************************************)
EXTENDS SignRequest

CONSTANTS
    Sessions,      \* the [[validator]] entries of this chain
    Requests,      \* the signing requests validators may send
    Reconnect,     \* the sessions configured with reconnect = true
    Protobuf,      \* the sessions with a protobuf protocol_version (v0.34)
    MaxHeight,     \* per session: max_height, or None
    HookOutputs,   \* what the state hook may yield: a height, HookErr, None if not configured
    HookErr,
    FailClosed     \* fail_closed of the hook

ASSUME SessionAssumption == None \notin Sessions
ASSUME RequestAssumption == Requests \subseteq Request
ASSUME ConfigAssumption == /\ Reconnect \subseteq Sessions
                           /\ Protobuf \subseteq Sessions
                           /\ MaxHeight \in [Sessions -> Nat \cup {None}]
                           /\ FailClosed \in BOOLEAN
ASSUME HookAssumption == HookOutputs \subseteq Nat \cup {None, HookErr}
(* The rpc::Response of a session: whether it has a body and an error. *)
Response == [msg : {"Signed", "Ping", "PublicKey"}, body : BOOLEAN, error : BOOLEAN]

ASSUME NoneIsNoValue == /\ None \notin State /\ None \notin Request /\ None \notin Response
                        /\ None \notin Nat /\ None # HookErr
                        /\ HookErr \notin Nat /\ None \notin WireBlockId

VARIABLES
    pc,       \* per session: where its client thread is
    req,      \* per session: the signing request it is handling, or None
    resp,     \* per session: the encoded response it is about to write, or None
    mem,      \* chain::State::consensus_state; None while the process is down
    lock,     \* the session holding the mutex around chain::State, or None
    disk,     \* the content of the state file, or None if there is no file
    signed    \* every message the consensus key has signed

vars == <<pc, req, resp, mem, lock, disk, signed>>

Locations == {"down", "connecting", "idle", "lock", "sync", "sign",
              "respond", "sleeping", "exited"}

-----------------------------------------------------------------------------
(* The process: commands/start.rs and Chain::from_config.                   *)

Init == /\ pc = [s \in Sessions |-> "down"]
        /\ req = [s \in Sessions |-> None]
        /\ resp = [s \in Sessions |-> None]
        /\ mem = None /\ lock = None
        /\ disk = None
        /\ signed = {}

(* State::load_state, which writes the initial state if there is no file. *)
LoadedState == IF disk = None THEN StateAtHeight(0) ELSE disk

(* A failed hook (HookErr) that is not fail_closed is only logged. *)
Start(output) ==
    /\ mem = None
    /\ output = HookErr => ~ FailClosed
    /\ disk' = LoadedState
    /\ mem' = IF output \in Nat THEN UpdateFromHookOutput(LoadedState, output)
              ELSE LoadedState
    /\ pc' = [s \in Sessions |-> "connecting"]
    /\ UNCHANGED <<req, resp, lock, signed>>

(* A failed fail_closed hook ends the process, after load_state wrote its file. *)
AbortStart ==
    /\ mem = None
    /\ HookErr \in HookOutputs /\ FailClosed
    /\ disk' = LoadedState
    /\ UNCHANGED <<pc, req, resp, mem, lock, signed>>

ProcessEnds ==
    /\ pc' = [s \in Sessions |-> "down"]
    /\ req' = [s \in Sessions |-> None]
    /\ resp' = [s \in Sessions |-> None]
    /\ mem' = None /\ lock' = None
    /\ UNCHANGED <<disk, signed>>

Crash == mem # None /\ ProcessEnds

(* blocking_wait returns once every client thread has been joined. *)
Exit == mem # None /\ (\A s \in Sessions : pc[s] = "exited") /\ ProcessEnds

-----------------------------------------------------------------------------
(* Client threads: main_loop, run_client, and Session::handle_request.      *)

Goto(s, l) == pc' = [pc EXCEPT ![s] = l]

(* An error ends the session; main_loop sleeps and respawns it, or returns. *)
Fail(s) ==
    /\ Goto(s, IF s \in Reconnect THEN "sleeping" ELSE "exited")
    /\ req' = [req EXCEPT ![s] = None]
    /\ resp' = [resp EXCEPT ![s] = None]

Respawn(s) ==
    /\ pc[s] = "sleeping"
    /\ Goto(s, "connecting")
    /\ UNCHANGED <<req, resp, mem, lock, disk, signed>>

Open(s) ==
    /\ pc[s] = "connecting"
    /\ Goto(s, "idle")
    /\ UNCHANGED <<req, resp, mem, lock, disk, signed>>

(* connect, handshake or peer verification fails *)
OpenFails(s) ==
    /\ pc[s] = "connecting"
    /\ Fail(s)
    /\ UNCHANGED <<mem, lock, disk, signed>>

MutMaxHeightOffByOne(s, r) == MaxHeight[s] # None => r.height <= MaxHeight[s] + 1

WithinMaxHeight(s, r) == MaxHeight[s] # None => r.height <= MaxHeight[s]

(* validate and check_max_height let the request through *)
Receive(s, r) ==
    /\ pc[s] = "idle"
    /\ Validate(r) /\ WithinMaxHeight(s, r)
    /\ req' = [req EXCEPT ![s] = r]
    /\ Goto(s, "lock")
    /\ UNCHANGED <<resp, mem, lock, disk, signed>>

(* either of them refuses it *)
Reject(s, r) ==
    /\ pc[s] = "idle"
    /\ ~ (Validate(r) /\ WithinMaxHeight(s, r))
    /\ Fail(s)
    /\ UNCHANGED <<mem, lock, disk, signed>>

(* the read times out or fails, the message does not decode, or the keyring *)
(* has no default key for a public key request                              *)
ReadFails(s) ==
    /\ pc[s] = "idle"
    /\ Fail(s)
    /\ UNCHANGED <<mem, lock, disk, signed>>

MutErrorNeverEncoded(s, msg, body, error) == [msg |-> msg, body |-> body, error |-> FALSE]

(* Response::encode: the protobuf encoding always sets error to None. *)
Encode(s, msg, body, error) ==
    [msg |-> msg, body |-> body, error |-> error /\ s \notin Protobuf]

(* Ping and public key requests touch no shared state. *)
Reply(s, msg) ==
    /\ pc[s] = "idle"
    /\ resp' = [resp EXCEPT ![s] = Encode(s, msg, TRUE, FALSE)]
    /\ Goto(s, "respond")
    /\ UNCHANGED <<req, mem, lock, disk, signed>>

-----------------------------------------------------------------------------
(* Session::update_consensus_state, under chain.state.lock().               *)

MutNoMutex(s) ==
    /\ pc[s] = "lock"
    /\ UpdateResult(mem, TrackedState(req[s])) = "Ok"
    /\ mem' = TrackedState(req[s])
    /\ lock' = s
    /\ Goto(s, "sync")
    /\ UNCHANGED <<req, resp, disk, signed>>

(* The request is accepted and replaces the state in memory. *)
Accept(s) ==
    /\ pc[s] = "lock" /\ lock = None
    /\ UpdateResult(mem, TrackedState(req[s])) = "Ok"
    /\ mem' = TrackedState(req[s])
    /\ lock' = s
    /\ Goto(s, "sync")
    /\ UNCHANGED <<req, resp, disk, signed>>

(* A double sign is answered with a RemoteError and the session goes on. *)
Refuse(s) ==
    /\ pc[s] = "lock" /\ lock = None
    /\ UpdateResult(mem, TrackedState(req[s])) = "DoubleSign"
    /\ resp' = [resp EXCEPT ![s] = Encode(s, "Signed", FALSE, TRUE)]
    /\ req' = [req EXCEPT ![s] = None]
    /\ Goto(s, "respond")
    /\ UNCHANGED <<mem, lock, disk, signed>>

(* A regression is an error of the session. *)
Regress(s) ==
    /\ pc[s] = "lock" /\ lock = None
    /\ UpdateResult(mem, TrackedState(req[s])) = "Regression"
    /\ Fail(s)
    /\ UNCHANGED <<mem, lock, disk, signed>>

(* sync_to_disk renames the new file into place; the lock is released. *)
SyncOk(s) ==
    /\ pc[s] = "sync"
    /\ disk' = mem
    /\ lock' = None
    /\ Goto(s, "sign")
    /\ UNCHANGED <<req, resp, mem, signed>>

MutSyncErrorIgnored(s) ==
    /\ pc[s] = "sync"
    /\ lock' = None
    /\ Goto(s, "sign")
    /\ UNCHANGED <<req, resp, mem, disk, signed>>

MutLockLeaked(s) ==
    /\ pc[s] = "sync"
    /\ Fail(s)
    /\ UNCHANGED <<mem, lock, disk, signed>>

(* Writing or renaming fails: the old file stays, memory keeps the new state. *)
SyncFails(s) ==
    /\ pc[s] = "sync"
    /\ lock' = None
    /\ Fail(s)
    /\ UNCHANGED <<mem, disk, signed>>

SyncToDisk(s) == SyncOk(s) \/ SyncFails(s)

-----------------------------------------------------------------------------
(* The rest of Session::sign runs without the lock. *)

Sign(s) ==
    /\ pc[s] = "sign"
    /\ signed' = signed \cup {SignBytes(req[s], s \in Protobuf)}
    /\ resp' = [resp EXCEPT ![s] = Encode(s, "Signed", TRUE, FALSE)]
    /\ req' = [req EXCEPT ![s] = None]
    /\ Goto(s, "respond")
    /\ UNCHANGED <<mem, lock, disk>>

(* the keyring or the signing device fails *)
SignFails(s) ==
    /\ pc[s] = "sign"
    /\ Fail(s)
    /\ UNCHANGED <<mem, lock, disk, signed>>

Respond(s) ==
    /\ pc[s] = "respond"
    /\ resp' = [resp EXCEPT ![s] = None]
    /\ Goto(s, "idle")
    /\ UNCHANGED <<req, mem, lock, disk, signed>>

WriteFails(s) ==
    /\ pc[s] = "respond"
    /\ Fail(s)
    /\ UNCHANGED <<mem, lock, disk, signed>>

-----------------------------------------------------------------------------
Connect(s) == Respawn(s) \/ Open(s) \/ OpenFails(s)

Read(s) == \/ \E r \in Requests : Receive(s, r) \/ Reject(s, r)
           \/ \E msg \in {"Ping", "PublicKey"} : Reply(s, msg)
           \/ ReadFails(s)

UpdateConsensusState(s) == Accept(s) \/ Refuse(s) \/ Regress(s)

Finish(s) == Sign(s) \/ SignFails(s) \/ Respond(s) \/ WriteFails(s)

Thread(s) == \/ Connect(s) \/ Read(s) \/ UpdateConsensusState(s)
             \/ SyncToDisk(s) \/ Finish(s)

Next == \/ \E output \in HookOutputs : Start(output)
        \/ AbortStart \/ Crash \/ Exit
        \/ \E s \in Sessions : Thread(s)

(* A thread in sync_to_disk is scheduled and its file operations return. *)
Fairness == \A s \in Sessions : WF_vars(SyncToDisk(s))

Spec == Init /\ [][Next]_vars /\ Fairness

-----------------------------------------------------------------------------
(* Properties. *)

(* Every variable holds a value of its kind: in particular the tracked      *)
(* round is a u16 however large the requested round is, and a request is    *)
(* kept only from its validation to its signature (session.rs sign).        *)
TypeOK ==
    /\ pc \in [Sessions -> Locations]
    /\ req \in [Sessions -> Requests \cup {None}]
    /\ \A s \in Sessions : req[s] # None <=> pc[s] \in {"lock", "sync", "sign"}
    /\ resp \in [Sessions -> Response \cup {None}]
    /\ \A s \in Sessions : resp[s] # None <=> pc[s] = "respond"
    /\ mem \in State \cup {None}
    /\ \A s \in Sessions : mem = None <=> pc[s] = "down"
    /\ lock \in Sessions \cup {None}
    /\ disk \in State \cup {None}
    /\ signed \subseteq SignedMsg

(* Across all sessions, reconnects, failed syncs, crashes and restarts, the *)
(* key never signs two different blocks, or a block and <nil>, for the same *)
(* height, round and step: what update_consensus_state is there to prevent. *)
(* It is stated for block IDs that tracking sees in full: an ID with a hash *)
(* but no usable parts header is tracked as <nil>.                          *)
NoDoubleSign ==
    \A m, n \in signed :
        SameVote(m, n) /\ FullyTracked(m) /\ FullyTracked(n)
            => VotedHash(m) = VotedHash(n)

(* Nothing is signed beyond what the state file records, so a restart from  *)
(* the file never forgets a signature (sync_to_disk precedes sign_ed25519). *)
SignedIsDurable ==
    \A m \in signed : disk # None /\ Follows(TrackedState(m), disk)

(* The state in memory is never behind the file: a failed sync and the hook *)
(* may leave it ahead, load_state makes them equal.                         *)
MemoryAheadOfFile == mem # None => disk # None /\ Follows(disk, mem)

(* Between the check of a request and the write of the state file no other  *)
(* session changes chain::State: the state written is that of the request   *)
(* its session goes on to sign (the MutexGuard in update_consensus_state).  *)
MutexCoversSync ==
    \A s \in Sessions : pc[s] = "sync" => lock = s /\ mem = TrackedState(req[s])

(* No step of any session, crash, start or hook takes the state file back   *)
(* to an earlier height, round or step, or to another block at the same one.*)
FileNeverRegresses ==
    [][disk # None => disk' # None /\ Follows(disk, disk')]_vars

(* When every validator entry has a max_height, neither a signature nor the *)
(* state file ever passes the largest of them: a request above the limit is *)
(* turned away before it can advance the chain state (check_max_height).    *)
StopsAtMaxHeight ==
    (\A s \in Sessions : MaxHeight[s] # None) =>
        /\ \A m \in signed : \E s \in Sessions : m.height <= MaxHeight[s]
        /\ disk # None => disk.height = 0 \/ \E s \in Sessions : disk.height <= MaxHeight[s]

(* The chain state is always released again, whichever way the update of    *)
(* the session that holds it ends (MutexGuard dropped on every return).     *)
LockAlwaysReleased == []<>(lock = None)

(* The comment in Session::update_consensus_state: "Report double signing   *)
(* error back to the validator": a response without a signed message        *)
(* carries the error.                                                       *)
RefusalIsReported ==
    \A s \in Sessions : pc[s] = "respond" /\ ~ resp[s].body => resp[s].error

(* At every moment of a running process, also right after a crash, a failed *)
(* sync or a start that the hook moved forward, a request that contradicts  *)
(* a signature made by whichever session is not accepted.                   *)
ConflictsRefused ==
    mem # None => \A m \in signed, r \in Requests :
        Validate(r) /\ SameVote(m, r) /\ TrackedState(m) # TrackedState(r)
            => UpdateResult(mem, TrackedState(r)) # "Ok"

(* While the process runs, chain::State only moves forward: no session and  *)
(* no failed sync_to_disk takes back what another has been told.            *)
MemoryNeverRegresses == [][mem # None /\ mem' # None => Follows(mem, mem')]_vars

(* The lock is held only by a session in sync_to_disk. *)
HolderSyncs == lock # None => pc[lock] = "sync"

(* Until that session's own sync_to_disk returns, which releases the lock   *)
(* whether it succeeds or fails, nothing but the end of the process touches *)
(* the chain state, its file or the request they were updated for.          *)
HolderUndisturbed ==
    [][\A s \in Sessions : lock = s =>
          \/ UNCHANGED <<mem, lock, disk>> /\ pc'[s] = pc[s] /\ req'[s] = req[s]
          \/ SyncToDisk(s) /\ lock' = None
          \/ ProcessEnds]_vars

(* What sessions have signed or, the lock already released, may still sign. *)
Claims == {TrackedState(m) : m \in signed}
          \cup {TrackedState(req[s]) : s \in {t \in Sessions : pc[t] = "sign"}}

(* A request that a session goes on with has passed validate and            *)
(* check_max_height, and nothing replaces it before it is signed.           *)
RequestsChecked ==
    \A s \in Sessions : pc[s] \in {"lock", "sync", "sign"} =>
        Validate(req[s]) /\ WithinMaxHeight(s, req[s])

ClaimsDurable == \A c \in Claims : disk # None /\ Follows(c, disk)

ClaimsOrdered == \A c, d \in Claims : Follows(c, d) \/ Follows(d, c)

(* A session signs after update_consensus_state let go of the lock, and by  *)
(* then others may have overtaken it.  Still, of what all sessions signed   *)
(* or may yet sign any two are the same state or one is strictly later, and *)
(* the state file covers each of them.                                      *)
ClaimsCovered == ClaimsDurable /\ ClaimsOrdered

(* The inductive invariant.  The claims stay covered because the mutex      *)
(* covers the check and the write, and memory is never behind the file the  *)
(* check should have been made against.                                     *)
IInv == /\ TypeOK /\ RequestsChecked
        /\ MemoryAheadOfFile /\ MutexCoversSync
        /\ ClaimsDurable /\ ClaimsOrdered

(* The signing path implements the abstract guard, the state file being     *)
(* the watermark: it only moves forward, and a signature never lies beyond  *)
(* it nor contradicts an earlier one.                                       *)
Guard == INSTANCE DoubleSignGuard WITH watermark <- disk

GuardSpec == Guard!Spec
=============================================================================
