---------------------------- MODULE MCReadEngine ----------------------------
(* Reads of two buffers: extents that merge, one cut in two, one past the end. *)
EXTENDS ReadEngine

P(disk, buf, len) == [disk |-> disk, buf |-> buf, len |-> len]
T(len, pushes) == [len |-> len, pushes |-> pushes]

CONSTANTS r1, r2

Wide == <<T(3, <<P(0, 0, 1), P(1, 1, 2)>>), T(2, <<P(5, 1, 1)>>)>>
Small == <<T(3, <<P(2, 1, 0), P(2, 1, 2)>>)>>
PastEnd == <<T(2, <<P(5, 0, 2)>>)>>
MCRequests == (r1 :> {Wide, Small}) @@ (r2 :> {Small, PastEnd})
=============================================================================
