--------------------------- MODULE SigningDevice ---------------------------
(***************************************************************************)
(* What the keyring expects of a provider's signer: signature::Signer's    *)
(* try_sign answers each caller once, with an error or with a signature    *)
(* over exactly the bytes that caller passed (keyring/ed25519.rs).         *)
(***************************************************************************)
CONSTANTS
    Callers,    \* the threads that sign with this key
    Messages,   \* the sign bytes they may pass
    Err

VARIABLES
    calling,    \* per caller: whether it is inside try_sign
    message,    \* per caller: the bytes it passed last
    answer      \* per caller: the answer it got last: the bytes signed, or Err

vars == <<calling, message, answer>>

Init ==
    /\ calling = [s \in Callers |-> FALSE]
    /\ message \in [Callers -> Messages]
    /\ answer = [s \in Callers |-> Err]

Call(s) ==
    /\ ~ calling[s]
    /\ calling' = [calling EXCEPT ![s] = TRUE]
    /\ \E m \in Messages : message' = [message EXCEPT ![s] = m]
    /\ answer' = [answer EXCEPT ![s] = Err]

Answer(s) ==
    /\ calling[s]
    /\ calling' = [calling EXCEPT ![s] = FALSE]
    /\ \E a \in {Err, message[s]} : answer' = [answer EXCEPT ![s] = a]
    /\ UNCHANGED message

Next == \E s \in Callers : Call(s) \/ Answer(s)

Spec == Init /\ [][Next]_vars
=============================================================================
