--------------------------- MODULE MCBlockImport ---------------------------
(* Instances of BlockImport for TLC. *)
EXTENDS BlockImport, JustificationCodec

\* The block at slot 5 can finalize slot 2, justified by it too, while votes for slot
\* 1 are pending; slot 4 is empty.
GapSlots == {1, 2, 3, 5}

ShortSlots == 1 .. 4

QuorumOrOne == {{0, 1}, {2}}

\* Storing the votes of a state as sorted roots and flat bits and reading them
\* back, which every block does, loses and invents nothing.
CodecRoundTrip ==
  \A r \in DOMAIN post :
    getJustification(withJustifications(post[r].justifications)) = post[r].justifications
============================================================================
