----------------------------- MODULE MCGcTuning -----------------------------
(* GcTuning with three operations and a host that picks among few          *)
(* thresholds: below FastRAML's, equal to it and above it.                 *)
EXTENDS GcTuning, TLC

CONSTANTS s1, s2, s3, nobody, none

MCSpans == {s1, s2, s3}
MCSymmetry == Permutations(MCSpans)
=============================================================================
