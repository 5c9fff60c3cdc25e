------------------------------ MODULE LedgerTm ------------------------------
(***************************************************************************)
(* Signing with a Ledger device: every client thread whose chain uses the  *)
(* key calls try_sign of the one Ed25519LedgerTmAppSigner, which holds the *)
(* connection behind a mutex (keyring/providers/ledgertm/signer.rs) and    *)
(* sends the message in numbered packets (.../ledgertm/client.rs). The     *)
(* device is external: it starts a new message at packet 1, appends every  *)
(* other packet, and signs what it has when the packet number is the       *)
(* packet count.                                                           *)
(***************************************************************************)
EXTENDS Integers, Sequences

CONSTANTS
    Callers,         \* the client threads
    Chunks,          \* contents of a packet
    Messages,        \* the messages they sign, split in chunks of 250 bytes
    PacketModulus,   \* 2^8: packet numbers are u8
    None, Err

ASSUME LedgerMessages == Messages \subseteq Seq(Chunks) /\ Messages # {}
ASSUME LedgerModulus == PacketModulus \in Nat /\ PacketModulus > 1
ASSUME LedgerNone == None \notin Callers /\ None \notin Seq(Chunks)
ASSUME LedgerErr == Err \notin Seq(Chunks) /\ Err # None

VARIABLES
    pc,         \* per caller: where it is in try_sign
    message,    \* per caller: the message it passed last
    answer,     \* per caller: what try_sign last returned: the bytes signed, or Err
    lock,       \* the caller that holds the mutex, or None
    packets,    \* per caller: how many packets it has sent
    response,   \* per caller: the last answer of the device: the bytes signed, or
                \* None if it had no signature
    buffer,     \* in the device: the chunks of the current message
    refusing    \* in the device: it has refused a packet of the current message

device == <<buffer, refusing>>
vars == <<pc, message, answer, lock, packets, response, device>>

Init ==
    /\ pc = [s \in Callers |-> "idle"]
    /\ message \in [Callers -> Messages]
    /\ answer = [s \in Callers |-> Err]
    /\ lock = None
    /\ packets = [s \in Callers |-> 0]
    /\ response = [s \in Callers |-> None]
    /\ buffer = <<>> /\ refusing = FALSE

(* Session::sign reaches Signer::try_sign with its sign bytes. *)
Call(s, m) ==
    /\ pc[s] = "idle"
    /\ pc' = [pc EXCEPT ![s] = "waiting"]
    /\ message' = [message EXCEPT ![s] = m]
    /\ answer' = [answer EXCEPT ![s] = Err]
    /\ UNCHANGED <<lock, packets, response, device>>

-----------------------------------------------------------------------------
(* TendermintValidatorApp::sign, under the lock that try_sign takes.        *)

MutSizeUnchecked(m) == Len(m) > 0

(* More than 255 packets, or none, are refused before anything is sent. *)
SizeAccepted(m) == Len(m) <= PacketModulus - 1 /\ Len(m) > 0

MutNoMutex(s) ==
    /\ pc[s] = "waiting"
    /\ SizeAccepted(message[s])
    /\ lock' = s
    /\ pc' = [pc EXCEPT ![s] = "sending"]
    /\ packets' = [packets EXCEPT ![s] = 0]
    /\ response' = [response EXCEPT ![s] = None]
    /\ UNCHANGED <<message, answer, device>>

Acquire(s) ==
    /\ pc[s] = "waiting" /\ lock = None
    /\ SizeAccepted(message[s])
    /\ lock' = s
    /\ pc' = [pc EXCEPT ![s] = "sending"]
    /\ packets' = [packets EXCEPT ![s] = 0]
    /\ response' = [response EXCEPT ![s] = None]
    /\ UNCHANGED <<message, answer, device>>

RefuseSize(s) ==
    /\ pc[s] = "waiting" /\ lock = None
    /\ ~ SizeAccepted(message[s])
    /\ pc' = [pc EXCEPT ![s] = "idle"]
    /\ UNCHANGED <<message, answer, lock, packets, response, device>>

MutZeroBased(i) == i - 1

(* The packet numbers p1 and p2 of an APDU: `as u8`. *)
PacketNumber(i) == i % PacketModulus

(* External: the device takes packet p1 of p2, or refuses it (accepted is   *)
(* FALSE), after which it signs nothing before a new packet 1.              *)
DeviceTakes(p1, chunk, accepted) ==
    /\ buffer' = IF p1 = 1 THEN <<chunk>> ELSE Append(buffer, chunk)
    /\ refusing' = (~ accepted \/ (refusing /\ p1 # 1))

DeviceAnswer(p1, p2) == IF p1 = p2 /\ ~ refusing' THEN buffer' ELSE None

(* One packet is exchanged; the return code of its answer is not looked at. *)
Exchange(s) ==
    LET m == message[s]
        p1 == PacketNumber(packets[s] + 1)
    IN /\ pc[s] = "sending" /\ packets[s] < Len(m)
       /\ \E accepted \in BOOLEAN : DeviceTakes(p1, m[packets[s] + 1], accepted)
       /\ response' = [response EXCEPT ![s] = DeviceAnswer(p1, PacketNumber(Len(m)))]
       /\ packets' = [packets EXCEPT ![s] = @ + 1]
       /\ UNCHANGED <<pc, message, answer, lock>>

(* sign returns, and try_sign drops the guard of the mutex. *)
Return(s, a) ==
    /\ pc' = [pc EXCEPT ![s] = "idle"]
    /\ answer' = [answer EXCEPT ![s] = a]
    /\ lock' = None

MutRestart(s) ==
    /\ pc[s] = "sending" /\ packets[s] < Len(message[s])
    /\ packets' = [packets EXCEPT ![s] = 0]
    /\ UNCHANGED <<pc, message, answer, lock, response, device>>

(* The transport fails: the device may have taken the packet or not. *)
ExchangeFails(s) ==
    /\ pc[s] = "sending" /\ packets[s] < Len(message[s])
    /\ \/ UNCHANGED device
       \/ DeviceTakes(PacketNumber(packets[s] + 1), message[s][packets[s] + 1], TRUE)
    /\ Return(s, Err)
    /\ UNCHANGED <<message, packets, response>>

(* NoSignature or InvalidSignature unless the last answer has 64 bytes. *)
Finish(s) ==
    /\ pc[s] = "sending" /\ packets[s] = Len(message[s])
    /\ Return(s, IF response[s] = None THEN Err ELSE response[s])
    /\ UNCHANGED <<message, packets, response, device>>

-----------------------------------------------------------------------------
Signing(s) == Acquire(s) \/ RefuseSize(s) \/ Exchange(s) \/ ExchangeFails(s) \/ Finish(s)

Next == \E s \in Callers : Signing(s) \/ \E m \in Messages : Call(s, m)

Spec == Init /\ [][Next]_vars

(* The device answers or its transport fails, and the threads run. *)
FairSpec == Spec /\ \A s \in Callers : WF_vars(Signing(s))

-----------------------------------------------------------------------------
LedgerTypeOK ==
    /\ pc \in [Callers -> {"idle", "waiting", "sending"}]
    /\ message \in [Callers -> Messages]
    /\ answer \in [Callers -> Seq(Chunks) \cup {Err}]
    /\ lock \in Callers \cup {None}
    /\ packets \in [Callers -> Nat]
    /\ response \in [Callers -> Seq(Chunks) \cup {None}]
    /\ buffer \in Seq(Chunks)
    /\ refusing \in BOOLEAN

(* A signature that try_sign returns is over exactly the message that its   *)
(* caller passed: whole, in order, with no packet of another thread's       *)
(* message in it, also after a transport error left the device in the       *)
(* middle of one.                                                           *)
SignatureCoversMessage ==
    \A s \in Callers : pc[s] = "idle" /\ answer[s] # Err => answer[s] = message[s]

(* The inductive invariant. The thread that sends holds the mutex, the       *)
(* device holds exactly the packets it has sent, and has signed only once it *)
(* had the whole message; an answer is kept only until the next call.        *)
LedgerInv ==
    /\ LedgerTypeOK
    /\ \A s \in Callers :
        /\ answer[s] # Err => pc[s] = "idle" /\ answer[s] = message[s]
        /\ pc[s] = "sending" =>
            /\ lock = s
            /\ SizeAccepted(message[s])
            /\ packets[s] \in 0 .. Len(message[s])
            /\ packets[s] > 0 => buffer = SubSeq(message[s], 1, packets[s])
            /\ response[s] # None =>
                  packets[s] = Len(message[s]) /\ response[s] = message[s]

(* What try_sign does in many exchanges is one step to the keyring.         *)
Calling == [s \in Callers |-> pc[s] # "idle"]

Device == INSTANCE SigningDevice WITH calling <- Calling

(* The Ledger client implements the signer that the keyring expects.        *)
ImplementsDevice == Device!Spec

(* The mutex is held only by a thread that sends: what sign does before it   *)
(* takes the lock and after it drops it needs no device.                    *)
HolderSends == lock # None => pc[lock] = "sending"

(* While one thread holds the mutex no other reaches the device, and every  *)
(* step of that thread is one packet more of its message, none twice and    *)
(* none beyond its end, or the last.                                        *)
HolderAdvances ==
    [][\A s \in Callers : lock = s =>
          \/ lock' = s /\ UNCHANGED <<device, message[s], packets[s], response[s]>>
          \/ lock' = s /\ packets'[s] = packets[s] + 1 /\ packets'[s] <= Len(message[s])
          \/ lock' = None /\ pc'[s] = "idle"]_vars

(* try_sign releases the device, whatever the device does.                  *)
DeviceFreed == \A s \in Callers : lock = s ~> lock # s
=============================================================================
