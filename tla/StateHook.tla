----------------------------- MODULE StateHook -----------------------------
(***************************************************************************)
(* The state hook of a chain: the command that Chain::from_config runs at  *)
(* launch (chain.rs), its time limit and its output (chain/state/hook.rs). *)
(* The child process runs beside the KMS: it may end at any moment, or     *)
(* never. Time passes in seconds while the KMS waits for it.               *)
(***************************************************************************)
EXTENDS ConsensusState

CONSTANTS
    TimeoutSettings,   \* the values of timeout_secs; None when it is not given
    Outputs,           \* what the command may print: heights, None for anything else
    FileHeights,       \* the heights the state file may hold
    HookErr            \* the HookError that run() returns

ASSUME TimeoutAssumption == TimeoutSettings \subseteq Nat \cup {None}
ASSUME OutputAssumption == Outputs \subseteq Nat \cup {None}
ASSUME FileAssumption == FileHeights \subseteq Nat
ASSUME HookErrAssumption == HookErr \notin Nat \cup {None} /\ None \notin Nat

VARIABLES
    hook,      \* HookConfig: timeout_secs and fail_closed
    pc,        \* where Chain::from_config is
    child,     \* the child process
    failed,    \* a system call on the child has failed
    exit,      \* what it ended with: success and the output it printed
    elapsed,   \* seconds since the KMS began to wait
    state      \* the consensus state that from_config has loaded

vars == <<hook, pc, child, failed, exit, elapsed, state>>

DEFAULT_TIMEOUT_SECS == 1

HookConfig == [timeout_secs : TimeoutSettings, fail_closed : BOOLEAN]

(* exit.success holds only when the command ran to its end by itself. *)
Exit == [success : BOOLEAN, output : Outputs]
NoExit == [success |-> FALSE, output |-> None]

Timeout == IF hook.timeout_secs = None THEN DEFAULT_TIMEOUT_SECS ELSE hook.timeout_secs

Init ==
    /\ hook \in HookConfig
    /\ pc = "spawn"
    /\ child = "none" /\ failed = FALSE /\ exit = NoExit
    /\ elapsed = 0
    /\ state \in {StateAtHeight(h) : h \in FileHeights}

-----------------------------------------------------------------------------
(* Chain::from_config, once run() has returned.                             *)

MutFailsOpen(result) ==
    /\ pc' = "started"
    /\ state' = IF result = HookErr THEN state ELSE UpdateFromHookOutput(state, result)

Return(result) ==
    IF result = HookErr
    THEN /\ pc' = IF hook.fail_closed THEN "aborted" ELSE "started"
         /\ UNCHANGED state
    ELSE /\ pc' = "started"
         /\ state' = UpdateFromHookOutput(state, result)

-----------------------------------------------------------------------------
(* hook::run                                                                *)

Spawn ==
    /\ pc = "spawn"
    /\ pc' = "waiting" /\ child' = "running"
    /\ UNCHANGED <<hook, failed, exit, elapsed, state>>

SpawnFails ==
    /\ pc = "spawn"
    /\ Return(HookErr)
    /\ UNCHANGED <<hook, child, failed, exit, elapsed>>

(* The command ends by itself, whatever the KMS is doing: also after run()  *)
(* has returned and left it running.                                        *)
ChildEnds ==
    /\ child = "running"
    /\ child' = "exited"
    /\ exit' \in Exit
    /\ UNCHANGED <<hook, pc, failed, elapsed, state>>

Tick ==
    /\ pc = "waiting" /\ child = "running" /\ elapsed < Timeout
    /\ elapsed' = elapsed + 1
    /\ UNCHANGED <<hook, pc, child, failed, exit, state>>

(* Command::spawn lets the child inherit stdout, so child.stdout is None. *)
StdoutPiped == FALSE

(* What run() makes of a command that ended in time. *)
RunResult ==
    IF exit.success /\ StdoutPiped /\ exit.output # None THEN exit.output ELSE HookErr

(* wait_timeout yields a status, and has thereby reaped the child. *)
ChildReturned ==
    /\ pc = "waiting" /\ child = "exited"
    /\ child' = "reaped"
    /\ Return(RunResult)
    /\ UNCHANGED <<hook, failed, exit, elapsed>>

(* A system call on the child fails, and run() returns its error (`?`) with *)
(* the child as it is.                                                      *)
CallFails ==
    /\ failed' = TRUE
    /\ Return(HookErr)
    /\ UNCHANGED <<hook, child, exit, elapsed>>

WaitFails == pc = "waiting" /\ CallFails

MutWaitForever == FALSE /\ UNCHANGED vars

TimesOut ==
    /\ pc = "waiting" /\ child = "running" /\ elapsed = Timeout
    /\ pc' = "kill"
    /\ UNCHANGED <<hook, child, failed, exit, elapsed, state>>

(* child.kill(): a child that ended since the timeout is left as it is. *)
Kill ==
    /\ pc = "kill"
    /\ pc' = "reap"
    /\ child' = "exited"
    /\ UNCHANGED <<hook, failed, exit, elapsed, state>>

KillFails == pc = "kill" /\ CallFails

MutNoWait ==
    /\ pc = "reap"
    /\ Return(HookErr)
    /\ UNCHANGED <<hook, child, failed, exit, elapsed>>

(* child.wait() *)
Reap ==
    /\ pc = "reap" /\ child = "exited"
    /\ child' = "reaped"
    /\ Return(HookErr)
    /\ UNCHANGED <<hook, failed, exit, elapsed>>

ReapFails == pc = "reap" /\ CallFails

Decided == pc \in {"started", "aborted"}

Stopped == Decided /\ UNCHANGED vars

KmsSteps == Spawn \/ SpawnFails \/ ChildReturned \/ TimesOut \/ Kill \/ Reap

CallFailures == WaitFails \/ KillFails \/ ReapFails

Next == KmsSteps \/ CallFailures \/ ChildEnds \/ Tick \/ Stopped

(* The KMS goes on and time passes; the command need never end, and no call *)
(* need ever fail.                                                          *)
Spec == Init /\ [][Next]_vars /\ WF_vars(KmsSteps) /\ WF_vars(Tick)

-----------------------------------------------------------------------------
HookTypeOK ==
    /\ hook \in HookConfig
    /\ pc \in {"spawn", "waiting", "kill", "reap", "started", "aborted"}
    /\ child \in {"none", "running", "exited", "reaped"}
    /\ failed \in BOOLEAN
    /\ exit \in Exit \cup {NoExit}
    /\ elapsed \in 0 .. Timeout
    /\ state \in State

(* Once from_config goes on, the command neither runs on beside the KMS nor *)
(* is left as a zombie: it ended and was waited for, also when it ended     *)
(* between the timeout and the kill. The one way to leave it behind is a    *)
(* wait_timeout, kill or wait that fails, after which run() returns at once.*)
ChildReaped == Decided /\ ~ failed => child \in {"none", "reaped"}

(* "Failing closed will prevent the KMS from starting if this command       *)
(* fails": with fail_closed, a command that could not be run, ended with an *)
(* error or printed no height, or was given up, aborts the launch.          *)
FailsClosed ==
    /\ hook.fail_closed /\ Decided
    /\ ~ (child = "reaped" /\ exit.success /\ exit.output # None)
    => pc = "aborted"

(* Both, with where the child is while from_config waits for it. *)
HookInv ==
    /\ HookTypeOK
    /\ pc = "spawn" => child = "none"
    /\ pc \in {"waiting", "kill"} => child \in {"running", "exited"}
    /\ failed => Decided
    /\ pc = "reap" => child = "exited"
    /\ ChildReaped
    /\ FailsClosed

(* A command that hangs does not hang the launch: from_config decides.      *)
HookDecides == <>Decided

(* How many steps from_config and its clock can take before it has decided. *)
StepsLeft ==
    CASE pc = "spawn"   -> Timeout + 4
      [] pc = "waiting" -> Timeout - elapsed + 3
      [] pc = "kill"    -> 2
      [] pc = "reap"    -> 1
      [] Decided        -> 0

(* The steps behind HookDecides: whenever the command ends, and whether or  *)
(* not it does, each step of the launch and each second waited for brings   *)
(* from_config nearer to its decision, and it starts at most Timeout + 4    *)
(* steps away.                                                              *)
LaunchAdvances ==
    [][/\ StepsLeft \in 0 .. Timeout + 4
       /\ KmsSteps \/ CallFailures \/ Tick => StepsLeft' < StepsLeft
       /\ ChildEnds => StepsLeft' = StepsLeft]_vars

(* "This will be executed at launch time to populate the initial block      *)
(* height": a command that ended with success and printed a height above    *)
(* the file's, within the sanity limit, sets the initial height.            *)
HookPopulatesHeight ==
    pc = "started" /\ child = "reaped" /\ exit.success /\ exit.output # None =>
        state.height >= exit.output \/ exit.output - state.height >= BLOCK_HEIGHT_SANITY_LIMIT
=============================================================================
