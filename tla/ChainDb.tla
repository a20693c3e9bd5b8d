------------------------------ MODULE ChainDb ------------------------------
(***************************************************************************)
(* Block import with the node's database, and restarts from it. onBlock    *)
(* writes a batch with the block and its post state (updateBlockDb); a     *)
(* finalization advance writes a second one with the finalized slot index  *)
(* and the latest finalized slot (processFinalizationAdvancement); a node  *)
(* that starts takes its anchor from the latest finalized slot, the index  *)
(* and the state stored for it, or from genesis (cli/src/node.zig,         *)
(* rocksdb.zig). A batch is atomic and survives the process; the process   *)
(* may die between any two steps, also between the two batches. The API    *)
(* asks for the finalized state at any time (getFinalizedState).           *)
(*                                                                         *)
(* That a commit fails (which is only logged) and an anchor from a         *)
(* checkpoint URL are left out.                                            *)
(***************************************************************************)
EXTENDS BlockImport

VARIABLES
  disk,     \* the database: states by root, the finalized slot index, the latest
            \* finalized slot (0: not written)
  loaded    \* cached_finalized_state: the block whose state it is, 0 for none

dbVars == <<vars, disk, loaded>>

DbInit ==
  /\ Init
  /\ disk = [states |-> << >>, index |-> << >>, latest |-> 0]
  /\ loaded = 0

----------------------------------------------------------------------------
(* Writing.                                                                *)

updateBlockDb(d, root) == [d EXCEPT !.states = Extend(@, root, post[root])]

\* The canonical path from the anchor of the fork choice, which is the block
\* finalized before, to the new finalized block.
FinalizedRoots(cp) == {r \in blocks[cp.root].ancestors : blocks[r].slot >= emitted}

\* Mutant: only the new finalized block is put into the index.
IndexNewestOnly(d, cp) == [d EXCEPT !.index = Extend(@, cp.slot, cp.root), !.latest = cp.slot]

\* Mutant: the new finalized block is left out of the index.
IndexAncestorsOnly(d, cp) ==
  LET rootAt(slot) == {r \in FinalizedRoots(cp) \ {cp.root} : blocks[r].slot = slot}
      slots == {blocks[r].slot : r \in FinalizedRoots(cp) \ {cp.root}}
  IN  [d EXCEPT !.latest = cp.slot,
                !.index = [slot \in DOMAIN @ \cup slots |->
                   IF slot \in slots THEN CHOOSE r \in rootAt(slot) : TRUE ELSE @[slot]]]

\* The batch of processFinalizationAdvancement.
CommitFinality(d, cp) ==
  LET rootAt(slot) == {r \in FinalizedRoots(cp) : blocks[r].slot = slot}
      slots == {blocks[r].slot : r \in FinalizedRoots(cp)}
  IN  [d EXCEPT !.latest = cp.slot,
                !.index = [slot \in DOMAIN @ \cup slots |->
                   IF slot \in slots THEN CHOOSE r \in rootAt(slot) : TRUE ELSE @[slot]]]

\* The end of onBlock with its batches.
StoreImport(root, followup) ==
  LET cp     == UpdatedFinalized(root)
      stored == updateBlockDb(disk, root)
  IN  /\ FinishImport(root, followup)
      /\ disk' = IF followup /\ cp.slot > emitted THEN CommitFinality(stored, cp) ELSE stored
      /\ UNCHANGED loaded

----------------------------------------------------------------------------
(* Restarting.                                                             *)

\* Mutant: the newest stored state becomes the anchor.
LoadNewest(d) == IF DOMAIN d.states = {} THEN 0
                 ELSE CHOOSE r \in DOMAIN d.states : \A q \in DOMAIN d.states : q <= r

\* The block whose state is loaded, 0 if one of the three lookups fails.
loadLatestFinalizedState(d) ==
  IF d.latest \in DOMAIN d.index /\ d.index[d.latest] \in DOMAIN d.states
  THEN d.index[d.latest] ELSE 0

\* Node.init falls back to genesis.
AnchorRoot(d) ==
  IF loadLatestFinalizedState(d) = 0 THEN 1 ELSE loadLatestFinalizedState(d)

AnchorState(d, root) == IF root = 1 THEN genGenesisState(1) ELSE d.states[root]

\* The anchor, and the blocks of its history after its finalized slot.
initRootToSlotCache(s, root) ==
  LET slots == {i \in s.latest_finalized.slot + 1 .. s.header.slot - 1 :
                  HistoryAt(s, i) # ZERO_HASH}
  IN  [r \in {HistoryAt(s, i) : i \in slots} \cup {root} |->
         IF r = root THEN s.slot ELSE CHOOSE i \in slots : HistoryAt(s, i) = r]

\* Node.init, ForkChoice.init and BeamChain.init from what is on disk.
StartFrom(d) ==
  LET root == AnchorRoot(d)
      s    == AnchorState(d, root)
  IN  /\ states' = [r \in {root} |-> s]
      /\ cache' = initRootToSlotCache(s, root)
      /\ post' = << >>
      /\ nodes' = {root}
      /\ finalized' = [root |-> root, slot |-> s.slot]
      /\ emitted' = s.slot
      /\ loaded' = 0
      /\ UNCHANGED blocks

\* The process dies outside the two batches of an import and starts again.
Restart == StartFrom(disk) /\ UNCHANGED disk

\* It dies after the first batch of an import that advances finality.
RestartBetweenBatches(root) ==
  /\ ForkChoiceAccepts(root)
  /\ UpdatedFinalized(root).slot > emitted
  /\ disk' = updateBlockDb(disk, root)
  /\ StartFrom(disk')

\* After a restart a block of the earlier run is fetched and imported again. The
\* state transition repeats, with the result that is still on disk.
ImportAgain(root) ==
  /\ DOMAIN post = {}
  /\ root \notin nodes
  /\ \E parent \in DOMAIN states : blocks[root].ancestors = blocks[parent].ancestors \cup {root}
  /\ post' = [r \in {root} |-> disk.states[root]]
  /\ UNCHANGED <<blocks, states, cache, nodes, finalized, emitted, disk, loaded>>

\* Blocks whose body is still being processed for the first time.
NewBlocks == DOMAIN post \ DOMAIN disk.states

----------------------------------------------------------------------------
(* Reading.                                                                *)

\* Mutant: a missing state is taken from the newest one on disk.
ServeNewest ==
  IF finalized.root \in DOMAIN states THEN finalized.root
  ELSE IF loaded # 0 THEN loaded ELSE LoadNewest(disk)

\* The block whose state getFinalizedState returns, 0 for null: the one in memory,
\* else the one loaded earlier, else the latest finalized one on disk ...
getFinalizedState ==
  IF finalized.root \in DOMAIN states THEN finalized.root
  ELSE IF loaded # 0 THEN loaded ELSE loadLatestFinalizedState(disk)

\* ... which is kept for later calls.
ServeFinalizedState ==
  /\ finalized.root \notin DOMAIN states
  /\ loaded' = getFinalizedState
  /\ UNCHANGED <<vars, disk>>

----------------------------------------------------------------------------

DbNext ==
  \/ \E parent \in DOMAIN states, slot \in Slots : StartImport(parent, slot) /\ UNCHANGED <<disk, loaded>>
  \/ \E root \in NewBlocks, a \in Attestations : ImportAttestation(root, a) /\ UNCHANGED <<disk, loaded>>
  \/ \E root \in NewBlocks : AbortImport(root) /\ UNCHANGED <<disk, loaded>>
  \/ \E root \in DOMAIN disk.states : ImportAgain(root)
  \/ \E root \in DOMAIN post, followup \in BOOLEAN : StoreImport(root, followup)
  \/ \E root \in DOMAIN post : RefuseImport(root) /\ UNCHANGED <<disk, loaded>>
  \/ \E anchor \in PruningAnchors, older \in SUBSET SideBlocks :
       PrunePeriodically(anchor, older) /\ UNCHANGED <<disk, loaded>>
  \/ ServeFinalizedState
  \/ Restart
  \/ \E root \in DOMAIN post : RestartBetweenBatches(root)

DbSpec == DbInit /\ [][DbNext]_dbVars

----------------------------------------------------------------------------
(* Properties.                                                             *)

\* Whatever finality the database records can be loaded again: the latest
\* finalized slot is in the index and the state of its block is stored, so a
\* restart never falls back to genesis (loadLatestFinalizedState).
RecordedFinalityLoads ==
  disk.latest # 0 => /\ disk.latest \in DOMAIN disk.index
                     /\ disk.index[disk.latest] \in DOMAIN disk.states

\* The finalized slot index is one chain without holes: up to the latest
\* finalized block it has each ancestor of that block and nothing else, through
\* restarts that forget and repeat finalizations (putFinalizedSlotIndex).
IndexIsFinalizedChain ==
  disk.latest # 0 =>
    {disk.index[slot] : slot \in DOMAIN disk.index \cap 0 .. disk.latest}
      = blocks[disk.index[disk.latest]].ancestors

\* A restart loses at most the finalization that was being processed: the new
\* anchor is an ancestor of what the dead process held final, and not before
\* the finality it had processed (Node.init, processFinalizationAdvancement).
RestartKeepsFinality ==
  [][Restart \/ (\E root \in DOMAIN post : RestartBetweenBatches(root)) =>
       Descends(finalized.root, finalized'.root) /\ finalized'.slot >= emitted]_dbVars

\* The API serves a finalized state or none: what getFinalizedState returns belongs
\* to the finalized block or to an ancestor of it, through prunings, restarts and
\* finality that is not recorded yet, and it is null only as long as the database
\* records no finality.
ServedStateIsFinal ==
  IF getFinalizedState = 0 THEN disk.latest = 0
  ELSE Descends(finalized.root, getFinalizedState)
============================================================================
