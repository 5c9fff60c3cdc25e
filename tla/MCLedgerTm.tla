----------------------------- MODULE MCLedgerTm -----------------------------
(* Instances of LedgerTm for TLC. *)
EXTENDS LedgerTm, TLC

CONSTANTS s1, s2, x, y   \* client threads and packet contents

(* No packet, one, the most that fit in the packet count, and more. *)
AllSizes == {<<>>, <<x>>, <<x, y>>, <<y, x, x>>, <<x, y, y, x>>, <<y, x, y, x, x>>}
=============================================================================
