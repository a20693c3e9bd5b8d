-------------------------- MODULE JustifiableSlot --------------------------
(***************************************************************************)
(* Which slots may be justified, by their distance from the finalized one  *)
(* (IsJustifiableSlot, pkgs/types/src/utils.zig). Used by the state        *)
(* transition and by the fork choice's attestation target.                 *)
(***************************************************************************)
EXTENDS Integers

\* The source computes the two tests with f32 square roots, which are right
\* for every distance below 2^22 slots.
IsJustifiableSlot(finalized, candidate) ==
  LET delta == candidate - finalized
  IN  \/ delta <= 5
      \/ \E x \in 1 .. delta : x * x = delta \/ x * (x + 1) = delta
============================================================================
