------------------------ MODULE MCCoreInboundOutbox ------------------------
(* Instances of CoreInboundOutbox for TLC.                                 *)
EXTENDS CoreInboundOutbox

CONSTANTS m1, g1, g2

\* Two messages of different groups, so that a policy can split them.
MCGroupOf == [m \in Messages |-> IF m = m1 THEN g1 ELSE g2]

\* backoff_base * 2^(attempts - 1), with a base of one tick.
MCBackoff(n) == IF n = 0 THEN 1 ELSE 2 ^ (n - 1)
=============================================================================
