---------------------------- MODULE MCBlockFetch ----------------------------
(* A small block tree for BlockFetch.                                       *)
EXTENDS BlockFetch

(* The chain 1 - 2 - 3 - 7 - 8, the fork 1 - 5 - 6, and the node's own block 4 *)
(* on 3, which finalizes 2 as block 7 does. The attestations of 3 name 5 and 6,   *)
(* that of 4 names 5, which the finalization of 2 may have removed by then.       *)
Eight == 1 .. 8

TreeParents == <<0, 1, 2, 3, 1, 5, 3, 7>>

TreeSlots == <<0, 2, 3, 4, 1, 2, 4, 5>>

TreeFinalizes == <<1, 1, 1, 2, 1, 1, 2, 2>>

TreeMentions == <<{}, {}, {5, 6}, {5}, {}, {}, {}, {}>>
=============================================================================
