-------------------------- MODULE MCTransformTree --------------------------
(* The first and the last stamp are 999 ms apart, 0 as time_diff_ms        *)
(* reckons; the second is 100 ms before the last and is erased for it.     *)
EXTENDS TransformTree

Stamp(s, ms) == [seconds |-> s, nanos |-> ms * 1000000]
MCStamps == {Stamp(0, 1), Stamp(0, 900), Stamp(1, 0)}
MCSymmetry == Permutations(Frames)
=============================================================================
