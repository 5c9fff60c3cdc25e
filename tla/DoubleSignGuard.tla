--------------------------- MODULE DoubleSignGuard ---------------------------
(***************************************************************************)
(* What tmkms promises a validator, without sessions, threads or files: a  *)
(* durable watermark that only moves forward, and signatures that never    *)
(* lie beyond the watermark and never contradict one another.              *)
(***************************************************************************)
EXTENDS SignRequest

CONSTANT Requests   \* the requests validators may send

VARIABLES watermark,   \* the last tracked state on durable storage, or None
          signed       \* every message signed so far

Signable == {r \in Requests : Validate(r)}

(* Two messages a validator must not both sign. *)
Conflict(m, n) ==
    SameVote(m, n) /\ TrackedState(m).block_id # TrackedState(n).block_id

Init == watermark = None /\ signed = {}

Advance(st) ==
    /\ watermark # None => Follows(watermark, st)
    /\ watermark' = st
    /\ UNCHANGED signed

Sign(m) ==
    /\ watermark # None /\ Follows(TrackedState(m), watermark)
    /\ \A n \in signed : ~ Conflict(m, n)
    /\ signed' = signed \cup {m}
    /\ UNCHANGED watermark

Next == \/ Advance(StateAtHeight(0))
        \/ \E r \in Signable : Advance(TrackedState(r))
        \/ \E r \in Signable, protobuf \in BOOLEAN : Sign(SignBytes(r, protobuf))

Spec == Init /\ [][Next]_<<watermark, signed>>
=============================================================================
