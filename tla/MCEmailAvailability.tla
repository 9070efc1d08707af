------------------------- MODULE MCEmailAvailability -------------------------
(* Instances of EmailAvailability for TLC.                                 *)
EXTENDS EmailAvailability, TLC

(* Addresses of two bits each on three bits: any two of the three cover    *)
(* the third, which the filter then takes for one it has (a false          *)
(* positive).                                                              *)
CONSTANTS e1, e2, e3

MCBits     == 1..3
MCAllBits  == e1 :> {1, 2} @@ e2 :> {2, 3} @@ e3 :> {1, 3}
MCBitsOf   == [e \in Emails |-> MCAllBits[e]]

InstanceSymmetry == Permutations(Instances)
==============================================================================
