-------------------------- MODULE StateHookProofs --------------------------
(***************************************************************************)
(* Proofs about StateHook for any time limits, any output of the command   *)
(* and any height in the state file. None depends on StdoutPiped, so they  *)
(* hold as well for a hook whose output reaches the KMS.                   *)
(***************************************************************************)
EXTENDS StateHook, TLAPS

(* Every way run() ends keeps a well-typed state. *)
LEMMA ReturnTyped ==
    ASSUME state \in State, hook \in HookConfig, NEW result \in Nat \cup {HookErr}, Return(result)
    PROVE  /\ state' \in State /\ pc' \in {"started", "aborted"}
           /\ result = HookErr /\ hook.fail_closed => pc' = "aborted"
<1>1. CASE result = HookErr
  BY <1>1 DEF Return
<1>2. CASE result \in Nat /\ result # HookErr
  <2>1. UpdateFromHookOutput(state, result) \in State
    BY <1>2, RoundAssumption DEF UpdateFromHookOutput, StateAtHeight, State, Steps
  <2> QED BY <1>2, <2>1 DEF Return
<1> QED BY <1>1, <1>2

LEMMA TimeoutTyped ==
    ASSUME hook \in HookConfig
    PROVE  Timeout \in Nat
BY TimeoutAssumption DEF HookConfig, Timeout, DEFAULT_TIMEOUT_SECS

(* from_config decides with the child in a state that ChildReaped allows,   *)
(* and with a height only from a command that succeeded and printed one.    *)
LEMMA DecideStep ==
    ASSUME HookInv, NEW result \in Nat \cup {HookErr}, Return(result),
           UNCHANGED <<hook, exit, elapsed>>, failed' \in BOOLEAN,
           child' \in {"none", "running", "exited", "reaped"},
           failed' \/ child' \in {"none", "reaped"},
           result # HookErr => child' = "reaped" /\ exit.success /\ exit.output # None
    PROVE  HookInv'
<1>1. /\ state' \in State /\ pc' \in {"started", "aborted"}
      /\ result = HookErr /\ hook.fail_closed => pc' = "aborted"
  BY ReturnTyped DEF HookInv, HookTypeOK
<1>2. HookTypeOK'
  BY <1>1 DEF HookInv, HookTypeOK, Timeout
<1>3. ChildReaped' /\ FailsClosed'
  BY <1>1 DEF ChildReaped, FailsClosed, Decided
<1> QED BY <1>1, <1>2, <1>3 DEF HookInv, Decided

(* While it waits nothing is decided. *)
LEMMA WaitStep ==
    ASSUME HookInv, UNCHANGED <<hook, failed, state>>, ~ failed, pc' \in {"waiting", "kill", "reap"},
           child' \in {"running", "exited"}, pc' = "reap" => child' = "exited",
           exit' \in Exit \cup {NoExit}, elapsed' \in 0 .. Timeout
    PROVE  HookInv'
<1>1. HookTypeOK'
  BY DEF HookInv, HookTypeOK, Timeout
<1>2. ~ Decided'
  BY DEF Decided
<1> QED BY <1>1, <1>2 DEF HookInv, ChildReaped, FailsClosed

LEMMA InitHolds ==
    ASSUME Init
    PROVE  HookInv
<1>1. state \in State
  <2>1. PICK h \in FileHeights : state = StateAtHeight(h)
    BY DEF Init
  <2> QED BY <2>1, FileAssumption, RoundAssumption DEF StateAtHeight, State, Steps
<1>2. elapsed \in 0 .. Timeout
  BY TimeoutTyped DEF Init
<1>3. HookTypeOK
  BY <1>1, <1>2 DEF Init, HookTypeOK
<1> QED BY <1>3 DEF Init, HookInv, ChildReaped, FailsClosed, Decided

LEMMA StepHolds ==
    ASSUME HookInv, [Next]_vars
    PROVE  HookInv'
<1>0. /\ hook \in HookConfig /\ Timeout \in Nat /\ elapsed \in 0 .. Timeout
      /\ exit \in Exit \cup {NoExit} /\ failed \in BOOLEAN
      /\ child \in {"none", "running", "exited", "reaped"}
      /\ ~ Decided => ~ failed
  BY TimeoutTyped DEF HookInv, HookTypeOK
<1>1. CASE Spawn
  BY <1>0, <1>1, WaitStep DEF Spawn, Decided
<1>2. CASE SpawnFails
  BY <1>0, <1>2, DecideStep DEF SpawnFails, HookInv
<1>3. CASE ChildReturned
  <2>1. RunResult \in Nat \cup {HookErr}
    <3>1. exit.success /\ exit.output # None => exit.output \in Nat
      <4>1. CASE exit \in Exit
        BY <4>1, OutputAssumption DEF Exit
      <4>2. CASE exit = NoExit
        BY <4>2 DEF NoExit
      <4> QED BY <1>0, <4>1, <4>2
    <3> QED BY <3>1 DEF RunResult
  <2>2. RunResult # HookErr => exit.success /\ exit.output # None
    BY DEF RunResult
  <2> QED BY <1>0, <1>3, <2>1, <2>2, DecideStep DEF ChildReturned
<1>4. CASE TimesOut
  BY <1>0, <1>4, WaitStep DEF TimesOut, Decided
<1>5. CASE Kill
  BY <1>0, <1>5, WaitStep DEF Kill, Decided, HookInv
<1>6. CASE Reap
  BY <1>0, <1>6, DecideStep DEF Reap
<1>7. CASE WaitFails \/ KillFails \/ ReapFails
  BY <1>0, <1>7, DecideStep DEF WaitFails, KillFails, ReapFails, CallFails
<1>8. CASE ChildEnds
  <2>1. child = "running" /\ child' = "exited" /\ UNCHANGED <<hook, pc, failed, elapsed, state>>
        /\ exit' \in Exit
    BY <1>8 DEF ChildEnds
  <2>2. CASE Decided
    <3>1. HookTypeOK'
      BY <2>1 DEF HookInv, HookTypeOK, Timeout
    <3>2. failed' /\ Decided'
      BY <1>0, <2>1, <2>2 DEF HookInv, ChildReaped, Decided
    <3>3. FailsClosed'
      BY <2>1, <2>2, <3>2 DEF HookInv, FailsClosed, Decided
    <3> QED BY <2>1, <2>2, <3>1, <3>2, <3>3 DEF HookInv, ChildReaped, Decided
  <2>3. CASE ~ Decided
    <3>1. pc \in {"waiting", "kill"}
      BY <2>1, <2>3 DEF HookInv, HookTypeOK, Decided
    <3> QED BY <1>0, <2>1, <2>3, <3>1, WaitStep
  <2> QED BY <2>2, <2>3
<1>9. CASE Tick
  <2>1. elapsed' \in 0 .. Timeout
    BY <1>0, <1>9 DEF Tick
  <2> QED BY <1>0, <1>9, <2>1, WaitStep DEF Tick, Decided
<1>10. CASE UNCHANGED vars
  BY <1>10 DEF vars, HookInv, HookTypeOK, Timeout, ChildReaped, FailsClosed, Decided
<1> QED
  BY <1>1, <1>2, <1>3, <1>4, <1>5, <1>6, <1>7, <1>8, <1>9, <1>10 DEF Next, KmsSteps, CallFailures, Stopped

LEMMA HookInvariance == Spec => []HookInv
<1>1. Init => HookInv
  BY InitHolds
<1>2. HookInv /\ [Next]_vars => HookInv'
  BY StepHolds
<1> QED BY <1>1, <1>2, PTL DEF Spec

(* Whenever the command ends, Chain::from_config goes on with it running or *)
(* a zombie only after wait_timeout, kill or wait has failed.               *)
THEOREM NoChildLeft == Spec => []ChildReaped
<1>1. HookInv => ChildReaped
  BY DEF HookInv
<1> QED BY <1>1, HookInvariance, PTL

(* With fail_closed, the KMS does not start unless the command succeeded    *)
(* and printed a height.                                                    *)
THEOREM NeverFailsOpen == Spec => []FailsClosed
<1>1. HookInv => FailsClosed
  BY DEF HookInv
<1> QED BY <1>1, HookInvariance, PTL

(* A command that hangs delays the launch by its time limit and no more:    *)
(* every step of from_config and every second it waits uses up one of a     *)
(* number of steps that the time limit bounds (wait_timeout, kill, wait).   *)
THEOREM LaunchBounded == Spec => LaunchAdvances
<1> DEFINE Advances == /\ StepsLeft \in 0 .. Timeout + 4
                       /\ KmsSteps \/ CallFailures \/ Tick => StepsLeft' < StepsLeft
                       /\ ChildEnds => StepsLeft' = StepsLeft
<1>1. HookInv /\ [Next]_vars => [Advances]_vars
  <2> SUFFICES ASSUME HookInv, Next PROVE Advances
    OBVIOUS
  <2>0. /\ pc \in {"spawn", "waiting", "kill", "reap", "started", "aborted"}
        /\ Timeout \in Nat /\ elapsed \in 0 .. Timeout
    BY TimeoutTyped DEF HookInv, HookTypeOK
  <2>1. StepsLeft \in 0 .. Timeout + 4
    BY <2>0 DEF StepsLeft, Decided
  <2>2. hook' = hook /\ Timeout' = Timeout
    BY DEF Next, KmsSteps, CallFailures, Spawn, SpawnFails, ChildReturned, TimesOut, Kill, Reap, WaitFails,
           KillFails, ReapFails, CallFails, ChildEnds, Tick, Stopped, vars, Timeout
  <2>3. /\ pc = "spawn" => StepsLeft = Timeout + 4
        /\ pc = "waiting" => StepsLeft = Timeout - elapsed + 3
        /\ pc = "kill" => StepsLeft = 2
        /\ pc = "reap" => StepsLeft = 1
    BY DEF StepsLeft, Decided
  <2>4. /\ pc' = "waiting" => StepsLeft' = Timeout - elapsed' + 3
        /\ pc' = "kill" => StepsLeft' = 2
        /\ pc' = "reap" => StepsLeft' = 1
        /\ pc' \in {"started", "aborted"} => StepsLeft' = 0
    BY <2>2 DEF StepsLeft, Decided
  <2>5. ASSUME KmsSteps \/ CallFailures PROVE StepsLeft' < StepsLeft
    <3>1. CASE Spawn
      BY <2>0, <2>3, <2>4, <3>1 DEF Spawn
    <3>2. CASE \/ SpawnFails \/ ChildReturned \/ Reap
               \/ WaitFails \/ KillFails \/ ReapFails
      <4>1. pc \in {"spawn", "waiting", "reap", "kill"} /\ pc' \in {"started", "aborted"}
        BY <3>2 DEF SpawnFails, ChildReturned, Reap, WaitFails, KillFails, ReapFails,
                       CallFails, Return
      <4> QED BY <2>0, <2>3, <2>4, <4>1
    <3>3. CASE TimesOut
      BY <2>0, <2>3, <2>4, <3>3 DEF TimesOut
    <3>4. CASE Kill
      BY <2>3, <2>4, <3>4 DEF Kill
    <3> QED BY <2>5, <3>1, <3>2, <3>3, <3>4 DEF KmsSteps, CallFailures
  <2>6. ASSUME Tick PROVE StepsLeft' < StepsLeft
    BY <2>0, <2>3, <2>4, <2>6 DEF Tick
  <2>7. ASSUME ChildEnds PROVE StepsLeft' = StepsLeft
    <3>1. pc' = pc /\ elapsed' = elapsed /\ Decided' = Decided
      BY <2>7 DEF ChildEnds, Decided
    <3> QED BY <2>2, <3>1 DEF StepsLeft
  <2> QED BY <2>1, <2>5, <2>6, <2>7
<1> QED BY <1>1, HookInvariance, PTL DEF Spec, LaunchAdvances
=============================================================================
