-------------------------- MODULE MCImportThreads --------------------------
(* Instances of ImportThreads for TLC. *)
EXTENDS ImportThreads, TLC

CONSTANTS v1, v2

OneValidator == {v1}

TwoValidators == {v1, v2}

ValidatorSymmetry == Permutations(Validators)

Bridge == {"bridge"}

BothThreads == {"bridge", "loop"}

Block(root, slot) == [root |-> root, slot |-> slot]

\* Two siblings at slot 1, then blocks that can justify and finalize one of
\* them: the import of block 5 may finalize 2 or 3 and prune the other.
FourBlocks == {Block(2, 1), Block(3, 1), Block(4, 2), Block(5, 3)}

\* Block 4 or 5 may finalize 2 while the other is imported.
ChainAndFork == {Block(2, 1), Block(3, 2), Block(4, 3), Block(5, 3)}

\* Block 4 may finalize 2 and block 5 then 3, or each be on a fork.
FourInLine == {Block(2, 1), Block(3, 2), Block(4, 3), Block(5, 4)}
============================================================================
