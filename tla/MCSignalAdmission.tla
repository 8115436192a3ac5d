------------------------- MODULE MCSignalAdmission -------------------------
(***************************************************************************)
(* Three candidates of one direction and one of the other. l1 and l2 are   *)
(* near each other and as confident as s1; l3 is of high confidence.       *)
(***************************************************************************)
EXTENDS SignalAdmission, TLC

CONSTANTS l1, l2, l3, s1

MCConfidence ==
    [s \in Signals |-> IF s = l3 THEN 92 ELSE 70]
MCNear(r, s) == {r, s} \subseteq {l1, l2}

\* l1 and l2 differ in nothing.
MCSymmetry == Permutations({l1, l2})
=============================================================================
