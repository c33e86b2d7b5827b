---------------------------- MODULE MCHashTable -----------------------------
(* Instances of HashTable for TLC.                                         *)
EXTENDS HashTable, TLC

CONSTANTS k1, k2, k3, k4, k5, v

(* k1 and k2 collide, at the last entry of a table of 4 or of 16, so that  *)
(* the probe for the one that comes second wraps around to entry 0.        *)
(* So do k4 and k5, at entry 1.                                            *)
MCHashOf == [k \in Key |-> CASE k \in {k1, k2} -> 15 [] k = k3 -> 2 [] OTHER -> 1]

(* Keys with the same hash may be exchanged.                               *)
Colliding == Permutations({k1, k2}) \cup Permutations({k4, k5})
=============================================================================
