--------------------------- MODULE LedgerTmProofs ---------------------------
(***************************************************************************)
(* Theorems about LedgerTm, for any number of client threads, any messages *)
(* and any width of the packet number.                                     *)
(***************************************************************************)
EXTENDS LedgerTm, SequenceTheorems, TLAPS

(* A packet number that passed the size check is sent as it is, not modulo  *)
(* its width.                                                               *)
LEMMA PacketNumberExact ==
    ASSUME NEW i \in 1 .. PacketModulus - 1
    PROVE  PacketNumber(i) = i
BY LedgerModulus DEF PacketNumber

(* What the device holds after a packet is one packet more of the message.  *)
LEMMA OnePacketMore ==
    ASSUME NEW m \in Seq(Chunks), NEW k \in 0 .. Len(m) - 1
    PROVE  /\ k = 0 => <<m[k + 1]>> = SubSeq(m, 1, k + 1)
           /\ k > 0 => Append(SubSeq(m, 1, k), m[k + 1]) = SubSeq(m, 1, k + 1)
<1>1. k + 1 \in 1 .. Len(m) /\ m[k + 1] \in Chunks
  OBVIOUS
<1>2. SubSeq(m, 1, k + 1) = SubSeq(m, 1, k) \o <<m[k + 1]>>
  BY <1>1, SubSeqRecursiveSecond
<1>3. SubSeq(m, 1, k) \in Seq(Chunks)
  BY SubSeqProperties
<1>4. k = 0 => SubSeq(m, 1, k) = <<>>
  BY SubSeqEmpty
<1>5. Append(SubSeq(m, 1, k), m[k + 1]) = SubSeq(m, 1, k) \o <<m[k + 1]>>
  BY <1>1, <1>3, AppendIsConcat
<1>6. <<>> \o <<m[k + 1]>> = <<m[k + 1]>>
  BY <1>1
<1>7. QED
  BY <1>2, <1>4, <1>5, <1>6

-----------------------------------------------------------------------------
(* The inductive invariant. *)

LEMMA InitLedger == Init => LedgerInv
<1> SUFFICES ASSUME Init PROVE LedgerInv
  OBVIOUS
<1>0. buffer \in Seq(Chunks)
  BY DEF Init
<1>1. refusing \in BOOLEAN
  BY DEF Init
<1>2. LedgerTypeOK
  BY <1>0, <1>1 DEF Init, LedgerTypeOK
<1>3. \A s \in Callers : answer[s] = Err /\ pc[s] # "sending"
  BY DEF Init
<1>4. QED
  BY <1>2, <1>3 DEF LedgerInv

(* One packet: the device holds one packet more of its sender's message,    *)
(* and if it has signed, that was the last one.                             *)
LEMMA ExchangeStep ==
    ASSUME LedgerInv, NEW s \in Callers, Exchange(s)
    PROVE  LedgerInv'
<1> DEFINE m == message[s]
           k == packets[s]
<1>1. /\ m \in Seq(Chunks) /\ k \in 0 .. Len(m) - 1 /\ lock = s
      /\ Len(m) \in 1 .. PacketModulus - 1 /\ m[k + 1] \in Chunks
  BY LedgerMessages DEF LedgerInv, LedgerTypeOK, Exchange, SizeAccepted
<1>2. PacketNumber(k + 1) = k + 1 /\ PacketNumber(Len(m)) = Len(m)
  BY <1>1, PacketNumberExact, LedgerModulus
<1>3. PICK accepted \in BOOLEAN : DeviceTakes(PacketNumber(k + 1), m[k + 1], accepted)
  BY DEF Exchange
<1>4. buffer' = SubSeq(m, 1, k + 1) /\ refusing' \in BOOLEAN
  <2>1. k > 0 => buffer = SubSeq(m, 1, k)
    BY DEF LedgerInv, Exchange
  <2>2. CASE k = 0
    BY <1>1, <1>2, <1>3, <2>2, OnePacketMore DEF DeviceTakes
  <2>3. CASE k > 0
    BY <1>1, <1>2, <1>3, <2>1, <2>3, OnePacketMore DEF DeviceTakes
  <2>4. QED
    BY <1>1, <2>2, <2>3
<1>5. buffer' \in Seq(Chunks)
  BY <1>1, <1>4, SubSeqProperties
<1>6. SubSeq(m, 1, Len(m)) = m
  BY <1>1, SubSeqFull
<1>7. /\ response' = [response EXCEPT ![s] = DeviceAnswer(k + 1, Len(m))]
      /\ packets' = [packets EXCEPT ![s] = k + 1]
      /\ UNCHANGED <<pc, message, answer, lock>>
      /\ pc[s] = "sending"
  BY <1>2 DEF Exchange
<1>8. response'[s] # None => k + 1 = Len(m) /\ response'[s] = m
  BY <1>4, <1>6, <1>7 DEF DeviceAnswer, LedgerInv, LedgerTypeOK
<1>9. LedgerTypeOK'
  BY <1>1, <1>4, <1>5, <1>7 DEF DeviceAnswer, LedgerInv, LedgerTypeOK
<1>10. ASSUME NEW t \in Callers
       PROVE  /\ answer'[t] # Err => pc'[t] = "idle" /\ answer'[t] = message'[t]
              /\ pc'[t] = "sending" => t = s
  BY <1>1, <1>7 DEF LedgerInv
<1>11. QED
  BY <1>1, <1>4, <1>7, <1>8, <1>9, <1>10 DEF LedgerInv, LedgerTypeOK, SizeAccepted

(* try_sign returns: no other thread was sending.                           *)
LEMMA ReturnStep ==
    ASSUME LedgerInv, NEW s \in Callers, pc[s] = "sending", NEW a, Return(s, a),
           a = Err \/ a = message[s], UNCHANGED <<message, packets, response>>,
           buffer' \in Seq(Chunks), refusing' \in BOOLEAN
    PROVE  LedgerInv'
<1>1. message[s] \in Seq(Chunks) /\ lock = s
  BY LedgerMessages DEF LedgerInv, LedgerTypeOK
<1>2. LedgerTypeOK'
  BY <1>1 DEF Return, LedgerInv, LedgerTypeOK
<1>3. \A t \in Callers : pc'[t] # "sending"
  BY <1>1 DEF Return, LedgerInv, LedgerTypeOK
<1>4. \A t \in Callers : answer'[t] # Err => pc'[t] = "idle" /\ answer'[t] = message'[t]
  BY DEF Return, LedgerInv, LedgerTypeOK
<1>5. QED
  BY <1>2, <1>3, <1>4 DEF LedgerInv

LEMMA StepLedger == LedgerInv /\ [Next]_vars => LedgerInv'
<1> SUFFICES ASSUME LedgerInv, [Next]_vars PROVE LedgerInv'
  OBVIOUS
<1>1. ASSUME NEW s \in Callers, NEW m \in Messages, Call(s, m) PROVE LedgerInv'
  BY <1>1 DEF Call, device, LedgerInv, LedgerTypeOK
<1>2. ASSUME NEW s \in Callers, Acquire(s) PROVE LedgerInv'
  <2>1. Len(message[s]) \in Nat
    BY LedgerMessages DEF LedgerInv, LedgerTypeOK
  <2>2. LedgerTypeOK'
    BY <1>2 DEF Acquire, device, LedgerInv, LedgerTypeOK
  <2>3. QED
    BY <1>2, <2>1, <2>2, LedgerNone DEF Acquire, device, LedgerInv, LedgerTypeOK
<1>3. ASSUME NEW s \in Callers, RefuseSize(s) PROVE LedgerInv'
  BY <1>3 DEF RefuseSize, device, LedgerInv, LedgerTypeOK
<1>4. ASSUME NEW s \in Callers, Exchange(s) PROVE LedgerInv'
  BY <1>4, ExchangeStep
<1>5. ASSUME NEW s \in Callers, ExchangeFails(s) PROVE LedgerInv'
  <2>1. message[s] \in Seq(Chunks) /\ packets[s] + 1 \in 1 .. Len(message[s])
    BY <1>5, LedgerMessages DEF ExchangeFails, LedgerInv, LedgerTypeOK
  <2>2. message[s][packets[s] + 1] \in Chunks
    BY <2>1
  <2>3. buffer \in Seq(Chunks) /\ refusing \in BOOLEAN
    BY DEF LedgerInv, LedgerTypeOK
  <2>4. CASE UNCHANGED device
    BY <1>5, <2>3, <2>4, ReturnStep DEF ExchangeFails, device
  <2>5. CASE DeviceTakes(PacketNumber(packets[s] + 1), message[s][packets[s] + 1], TRUE)
    <3>1. buffer' \in Seq(Chunks)
      BY <2>2, <2>3, <2>5 DEF DeviceTakes
    <3>2. refusing' \in BOOLEAN
      BY <2>5 DEF DeviceTakes
    <3>3. QED
      BY <1>5, <3>1, <3>2, ReturnStep DEF ExchangeFails
  <2>6. QED
    BY <1>5, <2>4, <2>5 DEF ExchangeFails
<1>6. ASSUME NEW s \in Callers, Finish(s) PROVE LedgerInv'
  BY <1>6, ReturnStep DEF Finish, device, LedgerInv, LedgerTypeOK
<1>7. CASE UNCHANGED vars
  BY <1>7 DEF vars, device, LedgerInv, LedgerTypeOK
<1>8. QED
  BY <1>1, <1>2, <1>3, <1>4, <1>5, <1>6, <1>7 DEF Next, Signing

(* For any number of threads the sender holds the mutex and the device holds *)
(* exactly what the sender has sent so far.                                  *)
THEOREM LedgerInvariance == Spec => []LedgerInv
BY InitLedger, StepLedger, PTL DEF Spec

(* A signature that TendermintValidatorApp::sign returns covers the whole   *)
(* message of its caller and nothing else.                                  *)
THEOREM SignaturesWhole == Spec => []SignatureCoversMessage
<1>1. LedgerInv => SignatureCoversMessage
  BY DEF LedgerInv, SignatureCoversMessage
<1>2. QED
  BY <1>1, LedgerInvariance, PTL

-----------------------------------------------------------------------------
(* The mutex. *)

(* What a step of any thread does to the thread that holds the mutex.       *)
LEMMA HolderStep ==
    ASSUME LedgerInv, HolderSends, [Next]_vars, NEW s \in Callers, lock = s
    PROVE  \/ /\ lock' = s /\ pc'[s] = "sending"
              /\ UNCHANGED <<device, message[s], packets[s], response[s]>>
           \/ /\ lock' = s /\ pc'[s] = "sending"
              /\ packets'[s] = packets[s] + 1 /\ packets'[s] <= Len(message[s])
           \/ lock' = None /\ pc'[s] = "idle"
<1>1. pc[s] = "sending" /\ s # None
  BY LedgerNone DEF HolderSends
<1>2. ASSUME NEW t \in Callers, NEW m \in Messages, Call(t, m)
      PROVE  /\ lock' = s /\ pc'[s] = "sending"
             /\ UNCHANGED <<device, message[s], packets[s], response[s]>>
  BY <1>1, <1>2 DEF Call, LedgerInv, LedgerTypeOK
<1>3. ASSUME NEW t \in Callers, Acquire(t) \/ RefuseSize(t) PROVE FALSE
  BY <1>1, <1>3 DEF Acquire, RefuseSize
<1>4. ASSUME NEW t \in Callers, pc[t] = "sending" PROVE t = s
  BY <1>4 DEF LedgerInv
<1>5. ASSUME NEW t \in Callers, Exchange(t)
      PROVE  /\ lock' = s /\ pc'[s] = "sending"
             /\ packets'[s] = packets[s] + 1 /\ packets'[s] <= Len(message[s])
  <2>1. t = s /\ packets[s] \in Nat /\ Len(message[s]) \in Nat
    BY <1>4, <1>5, LedgerMessages DEF Exchange, LedgerInv, LedgerTypeOK
  <2>2. packets[s] < Len(message[s]) /\ packets'[s] = packets[s] + 1 /\ UNCHANGED <<pc, lock>>
    BY <1>5, <2>1 DEF Exchange, LedgerInv, LedgerTypeOK
  <2>3. QED
    BY <1>1, <2>1, <2>2
<1>6. ASSUME NEW t \in Callers, ExchangeFails(t) \/ Finish(t)
      PROVE  lock' = None /\ pc'[s] = "idle"
  BY <1>4, <1>6 DEF ExchangeFails, Finish, Return, LedgerInv, LedgerTypeOK
<1>7. CASE UNCHANGED vars
  BY <1>1, <1>7 DEF vars
<1>8. QED
  BY <1>2, <1>3, <1>5, <1>6, <1>7 DEF Next, Signing

LEMMA HolderKept == LedgerInv /\ HolderSends /\ [Next]_vars => HolderSends'
<1> SUFFICES ASSUME LedgerInv, HolderSends, [Next]_vars, lock' # None
             PROVE  pc'[lock'] = "sending"
  BY DEF HolderSends
<1>1. CASE lock \in Callers
  BY <1>1, HolderStep
<1>2. CASE lock = None
  <2>1. PICK s \in Callers : Acquire(s)
    BY <1>2 DEF Next, Signing, Call, RefuseSize, Exchange, ExchangeFails, Finish, Return, vars
  <2>2. QED
    BY <2>1 DEF Acquire, LedgerInv, LedgerTypeOK
<1>3. QED
  BY <1>1, <1>2 DEF LedgerInv, LedgerTypeOK

(* The mutex around the device is held only by a thread inside the loop of  *)
(* TendermintValidatorApp::sign: no early return keeps it.                  *)
THEOREM MutexHeldOnlyToSend == Spec => []HolderSends
<1>1. Init => HolderSends
  BY DEF Init, HolderSends
<1>2. QED
  BY <1>1, HolderKept, LedgerInvariance, PTL DEF Spec

(* A thread with the mutex has the device to itself, and after at most one  *)
(* step per packet and one more it lets go: only that the exchanges return  *)
(* is left to assume for DeviceFreed.                                       *)
THEOREM HolderLetsGo == Spec => HolderAdvances
<1> DEFINE Advances == \A s \in Callers : lock = s =>
             \/ lock' = s /\ UNCHANGED <<device, message[s], packets[s], response[s]>>
             \/ lock' = s /\ packets'[s] = packets[s] + 1 /\ packets'[s] <= Len(message[s])
             \/ lock' = None /\ pc'[s] = "idle"
<1>1. LedgerInv /\ HolderSends /\ [Next]_vars => [Advances]_vars
  BY HolderStep
<1>2. QED
  BY <1>1, MutexHeldOnlyToSend, LedgerInvariance, PTL DEF Spec, HolderAdvances

-----------------------------------------------------------------------------
(* Refinement. *)

(* A return from try_sign answers its caller, with an error or a signature  *)
(* over its message; every step before it is invisible.                     *)
LEMMA StepRefines ==
    LedgerInv /\ [Next]_vars => [Device!Next]_<<Calling, message, answer>>
<1> SUFFICES ASSUME LedgerInv, [Next]_vars
             PROVE  Device!Next \/ UNCHANGED <<Calling, message, answer>>
  OBVIOUS
<1>1. ASSUME NEW s \in Callers, NEW m \in Messages, Call(s, m) PROVE Device!Call(s)
  BY <1>1 DEF Call, Device!Call, Calling, LedgerInv, LedgerTypeOK
<1>2. ASSUME NEW s \in Callers, Acquire(s) \/ Exchange(s)
      PROVE  UNCHANGED <<Calling, message, answer>>
  BY <1>2 DEF Acquire, Exchange, Calling, LedgerInv, LedgerTypeOK
<1>3. ASSUME NEW s \in Callers, RefuseSize(s) PROVE Device!Answer(s)
  <2>1. answer[s] = Err /\ answer' = [answer EXCEPT ![s] = Err] /\ message' = message
    BY <1>3 DEF RefuseSize, LedgerInv, LedgerTypeOK
  <2>2. Calling[s] /\ Calling' = [Calling EXCEPT ![s] = FALSE]
    BY <1>3 DEF RefuseSize, Calling, LedgerInv, LedgerTypeOK
  <2>3. QED
    BY <2>1, <2>2 DEF Device!Answer
<1>4. ASSUME NEW s \in Callers, pc[s] = "sending", NEW a \in {Err, message[s]},
             Return(s, a), UNCHANGED message
      PROVE  Device!Answer(s)
  <2>1. Calling[s] /\ Calling' = [Calling EXCEPT ![s] = FALSE]
    BY <1>4 DEF Return, Calling, LedgerInv, LedgerTypeOK
  <2>2. QED
    BY <1>4, <2>1 DEF Return, Device!Answer
<1>5. ASSUME NEW s \in Callers, ExchangeFails(s) PROVE Device!Answer(s)
  BY <1>4, <1>5 DEF ExchangeFails
<1>6. ASSUME NEW s \in Callers, Finish(s) PROVE Device!Answer(s)
  BY <1>4, <1>6 DEF Finish, LedgerInv
<1>7. CASE UNCHANGED vars
  BY <1>7 DEF vars, Calling
<1>8. QED
  BY <1>1, <1>2, <1>3, <1>5, <1>6, <1>7 DEF Next, Signing, Device!Next

(* The Ledger client implements the signer the keyring expects, for any     *)
(* number of threads that share the device.                                 *)
THEOREM ImplementsSigner == Spec => ImplementsDevice
<1>1. Init => Device!Init
  BY DEF Init, Device!Init, Calling
<1>2. QED
  BY <1>1, StepRefines, LedgerInvariance, PTL
     DEF Spec, ImplementsDevice, Device!Spec, Device!vars
=============================================================================
