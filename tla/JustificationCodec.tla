------------------------- MODULE JustificationCodec -------------------------
(***************************************************************************)
(* The two conversions between the in-memory justifications map and the    *)
(* form a beam state stores: a list of target roots sorted by value and one *)
(* flat bit list with N bits per root (pkgs/types/src/state.zig).          *)
(***************************************************************************)
EXTENDS StateTransition, SequencesExt

TargetRoots(justifications) == {p[1] : p \in justifications}

\* Roots in ascending order, then the validators' bits of each root in that
\* order: bit (i - 1) * N + v of the list belongs to the i-th root.
withJustifications(justifications) ==
  LET roots == SetToSortSeq(TargetRoots(justifications), <)
      bitOf(k) == <<roots[(k - 1) \div N + 1], (k - 1) % N>> \in justifications
  IN  [roots |-> roots,
       validators |-> [k \in 1 .. Len(roots) * N |-> bitOf(k)]]

\* Mutant: the stride between two roots is one bit short.
getJustificationWrongStride(flat) ==
  {<<flat.roots[i], v>> : <<i, v>> \in
     {q \in (1 .. Len(flat.roots)) \X Validators :
        flat.validators[(q[1] - 1) * (N - 1) + q[2] + 1]}}

\* Reads the bits back, root by root.
getJustification(flat) ==
  {<<flat.roots[i], v>> : <<i, v>> \in
     {q \in (1 .. Len(flat.roots)) \X Validators :
        flat.validators[(q[1] - 1) * N + q[2] + 1]}}
=============================================================================
