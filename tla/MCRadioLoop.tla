----------------------------- MODULE MCRadioLoop -----------------------------
(* TLC instances of RadioLoop: values of its constants, shared by the runs. *)
EXTENDS RadioLoop

CONSTANTS s1, s2, s3

MCSignatures   == {s1, s2, s3}
MCOneSignature == {s1}
MCSymmetry     == Permutations(MCSignatures)

ShortDelays  == {0, 2}
OneMs        == {1}
Unlimited    == {100}
AnyDutyCycle == {50, 100}

OneLen     == {"short"}
OneRadio   == {"fast"}
OneAirtime == [r \in OneRadio |-> [l \in OneLen |-> 1]]
==============================================================================
