--------------------------- MODULE ChainDbProofs ---------------------------
(***************************************************************************)
(* Proofs about ChainDb: for any number of validators, blocks and slots,   *)
(* what the database holds after any sequence of imports, finalizations    *)
(* and restarts.                                                           *)
(***************************************************************************)
EXTENDS ChainDb, BlockImportProofs

\* The block tree: every block is its own ancestor, ancestry is transitive,
\* slots grow along it, and two ancestors of a block are on one branch.
Tree(B) ==
  /\ B \in Seq([slot : Nat, ancestors : SUBSET Nat])
  /\ 1 \in DOMAIN B /\ B[1].slot = 0 /\ B[1].ancestors = {1}
  /\ \A r \in DOMAIN B : r \in B[r].ancestors /\ B[r].ancestors \subseteq DOMAIN B
  /\ \A r \in DOMAIN B : \A q \in B[r].ancestors :
       /\ B[q].ancestors \subseteq B[r].ancestors
       /\ q # r => B[q].slot < B[r].slot
  /\ \A r \in DOMAIN B : \A p, q \in B[r].ancestors :
       B[p].slot <= B[q].slot => p \in B[q].ancestors

\* `s` is a well-formed state of block r: its history names ancestors of r, each
\* at its slot.
StateOf(B, s, r) ==
  /\ r \in DOMAIN B
  /\ GoodState(s)
  /\ s.slot = B[r].slot
  /\ s.header.root = r /\ s.header.slot = B[r].slot
  /\ \A i \in 0 .. B[r].slot - 1 :
       HistoryAt(s, i) # 0 => HistoryAt(s, i) \in B[r].ancestors /\ B[HistoryAt(s, i)].slot = i
  /\ B[r].slot > 0 => s.latest_finalized.root # 0

FinalSlot(s) == s.latest_finalized.slot

\* States in memory, at work and on disk belong to their blocks and agree.
StatesInv ==
  /\ \A r \in DOMAIN states : StateOf(blocks, states[r], r)
  /\ \A r \in DOMAIN post : StateOf(blocks, post[r], r) /\ blocks[r].slot > 0
  /\ \A r \in DOMAIN disk.states : StateOf(blocks, disk.states[r], r) /\ blocks[r].slot > 0
  /\ \A r \in DOMAIN states : r # 1 => r \in DOMAIN disk.states /\ states[r] = disk.states[r]
  /\ \A r \in DOMAIN post : r \in DOMAIN disk.states => post[r] = disk.states[r]

\* The ancestors of a stored block are stored, and finality grows along them.
GrowthInv ==
  /\ \A r \in DOMAIN disk.states : \A q \in blocks[r].ancestors :
       q # 1 => q \in DOMAIN disk.states /\ FinalSlot(disk.states[q]) <= FinalSlot(disk.states[r])
  /\ \A r \in DOMAIN post : \A q \in blocks[r].ancestors :
       q # 1 /\ q # r => q \in DOMAIN disk.states /\ FinalSlot(disk.states[q]) <= FinalSlot(post[r])

\* The block whose state a restart would load.
Anchor == IF emitted = 0 THEN 1 ELSE disk.index[emitted]

\* A block whose state is on disk, or genesis.
Stored(root) == root \in DOMAIN blocks /\ (root # 1 => root \in DOMAIN disk.states)

\* The finalized block is stored. It, the blocks in memory and the state the API
\* keeps are on one branch with the anchor: nothing more is known of memory, as
\* periodic pruning may take the finalized block's state and any before it.
MemoryInv ==
  /\ finalized \in Checkpoint
  /\ Stored(finalized.root)
  /\ blocks[finalized.root].slot = finalized.slot
  /\ emitted \in Nat /\ emitted <= finalized.slot
  /\ \A r \in DOMAIN states \cup DOMAIN post \cup {finalized.root} : Anchor \in blocks[r].ancestors
  /\ loaded # 0 => loaded \in blocks[finalized.root].ancestors

\* The index is the chain of the anchor, by slot.
DiskInv ==
  /\ disk = [states |-> disk.states, index |-> disk.index, latest |-> emitted]
  /\ emitted = 0 => DOMAIN disk.index = {}
  /\ emitted # 0 =>
       /\ emitted \in DOMAIN disk.index
       /\ disk.index[emitted] \in DOMAIN disk.states
       /\ blocks[disk.index[emitted]].slot = emitted
       /\ \A slot \in DOMAIN disk.index :
            /\ slot \in 0 .. emitted
            /\ disk.index[slot] \in blocks[disk.index[emitted]].ancestors
            /\ blocks[disk.index[slot]].slot = slot
       /\ \A q \in blocks[disk.index[emitted]].ancestors :
            blocks[q].slot \in DOMAIN disk.index /\ disk.index[blocks[q].slot] = q

DbInv == Tree(blocks) /\ StatesInv /\ GrowthInv /\ MemoryInv /\ DiskInv

----------------------------------------------------------------------------
(* One state and its block.                                                *)

\* What process_slots and process_block_header leave in the fields below.
LEMMA HeaderFrame ==
  ASSUME NEW s \in BeamState, NEW root \in Nat, NEW slot \in Nat
  PROVE  LET t == process_block_header(process_slots(s, slot), root, slot)
         IN  /\ t.slot = slot /\ t.header = [root |-> root, slot |-> slot]
             /\ t.historical_block_hashes = AppendHistory(s, slot)
             /\ t.latest_finalized = IF s.header.slot = 0
                                     THEN [s.latest_finalized EXCEPT !.root = s.header.root]
                                     ELSE s.latest_finalized
<1> DEFINE s0 == process_slots(s, slot)
<1>1. AppendHistory(s0, slot) = AppendHistory(s, slot)
  BY DEF AppendHistory, process_slots, BeamState
<1>2. /\ s0.header = s.header /\ s0.latest_finalized = s.latest_finalized /\ s0.slot = slot
      /\ DOMAIN s0 = DOMAIN s
  BY DEF process_slots, BeamState
<1> QED
  BY <1>1, <1>2 DEF process_block_header, process_slots, BeamState

\* An attestation changes neither slot nor history, and moves the finalized
\* checkpoint only to a source whose root is not zero.
LEMMA AttestationFrame ==
  ASSUME NEW s \in BeamState, NEW slotOf,
         NEW a \in [source : Checkpoint, target : Checkpoint, bits : SUBSET Nat]
  PROVE  LET t == ProcessAttestation(s, a, slotOf)
         IN  /\ t.slot = s.slot
             /\ t.historical_block_hashes = s.historical_block_hashes
             /\ \/ t.latest_finalized = s.latest_finalized
                \/ /\ t.latest_finalized = a.source /\ a.source.root # 0
                   /\ a.bits # {} /\ ~ZeroRoot(a) /\ Viable(s, a)
                   /\ ReachesThreshold(s, a) /\ CanFinalize(s, a)
<1> DEFINE j == Justify(s, a)
<1>1. /\ j.slot = s.slot /\ j.historical_block_hashes = s.historical_block_hashes
      /\ j.latest_finalized = s.latest_finalized /\ DOMAIN j = DOMAIN s
  BY DEF Justify, BeamState
<1>2. LET r == RecordVotes(s, a)
      IN  /\ r.slot = s.slot /\ r.historical_block_hashes = s.historical_block_hashes
          /\ r.latest_finalized = s.latest_finalized
  BY DEF RecordVotes, BeamState
<1>3. DOMAIN s = {"slot", "header", "latest_justified", "latest_finalized",
                  "historical_block_hashes", "justified_slots", "justifications"}
  BY DEF BeamState
<1> HIDE DEF j
<1>4. LET f == Finalize(j, a, slotOf)
      IN  /\ f.slot = j.slot /\ f.historical_block_hashes = j.historical_block_hashes
          /\ f.latest_finalized = a.source
  BY <1>1, <1>3 DEF Finalize
<1> QED
  BY <1>1, <1>2, <1>4 DEF ProcessAttestation, ZeroRoot, ZERO_HASH, j

\* A state keeps belonging to its block when the tree grows.
LEMMA StateOfGrows ==
  ASSUME NEW B, NEW C, NEW s, NEW r, Tree(B), StateOf(B, s, r),
         DOMAIN B \subseteq DOMAIN C, \A q \in DOMAIN B : C[q] = B[q]
  PROVE  StateOf(C, s, r)
<1>1. r \in DOMAIN B /\ r \in DOMAIN C /\ C[r] = B[r]
  BY DEF StateOf
<1>2. \A q \in B[r].ancestors : C[q] = B[q]
  BY <1>1 DEF Tree
<1> QED
  BY <1>1, <1>2 DEF StateOf

\* Types of the blocks of a tree.
LEMMA TreeTypes ==
  ASSUME NEW B, Tree(B), NEW r \in DOMAIN B
  PROVE  B[r].slot \in Nat /\ B[r].ancestors \subseteq DOMAIN B /\ r \in Nat \ {0}
<1>1. B \in Seq([slot : Nat, ancestors : SUBSET Nat])
  BY DEF Tree
<1>2. DOMAIN B = 1 .. Len(B) /\ Len(B) \in Nat
  BY <1>1, LenProperties
<1>3. B[r] \in [slot : Nat, ancestors : SUBSET Nat]
  BY <1>1, <1>2, ElementOfSeq
<1> QED
  BY <1>2, <1>3 DEF Tree

\* The genesis state is the state of block 1.
LEMMA GenesisStateOf ==
  ASSUME NEW B, Tree(B)
  PROVE  StateOf(B, genGenesisState(1), 1)
<1>1. LET s == genGenesisState(1) IN s.slot = 0 /\ s.header.root = 1 /\ s.header.slot = 0
  BY DEF genGenesisState
<1>2. 1 \in DOMAIN B /\ B[1].slot = 0
  BY DEF Tree
<1> QED
  BY <1>1, <1>2, GenesisGood DEF StateOf

\* The finalized checkpoint of a block's state is an ancestor, before the block.
LEMMA FinalizedIsAncestor ==
  ASSUME NEW B, NEW s, NEW r, Tree(B), StateOf(B, s, r), B[r].slot > 0
  PROVE  /\ s.latest_finalized \in Checkpoint
         /\ s.latest_finalized.root \in B[r].ancestors
         /\ B[s.latest_finalized.root].slot = s.latest_finalized.slot
         /\ s.latest_finalized.slot < B[r].slot
<1>1. /\ r \in DOMAIN B /\ GoodState(s) /\ s.header.slot = B[r].slot
      /\ s.latest_finalized.root # 0
  BY DEF StateOf
<1>2. /\ s.latest_finalized \in Checkpoint /\ s.latest_finalized.slot \in Nat
      /\ s.latest_justified.slot \in Nat /\ s.header.slot \in Nat
  BY <1>1 DEF GoodState, BeamState, Checkpoint
<1>3. /\ s.latest_finalized.slot <= s.latest_justified.slot
      /\ s.latest_justified.slot < s.header.slot
      /\ HistoryAt(s, s.latest_finalized.slot) = s.latest_finalized.root
  BY <1>1 DEF GoodState, CheckpointsAnchored
<1>4. s.latest_finalized.slot \in 0 .. B[r].slot - 1
  BY <1>1, <1>2, <1>3
<1> QED
  BY <1>1, <1>2, <1>3, <1>4 DEF StateOf

\* A block added on `parent` keeps the tree a tree.
LEMMA TreeGrows ==
  ASSUME NEW B, Tree(B), NEW parent \in DOMAIN B, NEW slot \in Nat, slot > B[parent].slot
  PROVE  LET root == Len(B) + 1
             C    == Append(B, [slot |-> slot, ancestors |-> B[parent].ancestors \cup {root}])
         IN  /\ Tree(C)
             /\ root \notin DOMAIN B /\ root \in Nat \ {0, 1}
             /\ DOMAIN C = DOMAIN B \cup {root}
             /\ \A q \in DOMAIN B : C[q] = B[q]
             /\ C[root].slot = slot /\ C[root].ancestors = B[parent].ancestors \cup {root}
<1> DEFINE root == Len(B) + 1
           blk  == [slot |-> slot, ancestors |-> B[parent].ancestors \cup {root}]
           C    == Append(B, blk)
<1>1. B \in Seq([slot : Nat, ancestors : SUBSET Nat])
  BY DEF Tree
<1>2. DOMAIN B = 1 .. Len(B) /\ Len(B) \in Nat /\ 1 \in DOMAIN B
  BY <1>1, LenProperties DEF Tree
<1>3. root \notin DOMAIN B /\ root \in Nat \ {0, 1}
  BY <1>2
<1>4. B[parent] \in [slot : Nat, ancestors : SUBSET Nat]
  BY <1>1, <1>2, ElementOfSeq
<1>5. blk \in [slot : Nat, ancestors : SUBSET Nat]
  BY <1>3, <1>4
<1>6. /\ C \in Seq([slot : Nat, ancestors : SUBSET Nat]) /\ Len(C) = root
      /\ C[root] = blk /\ \A q \in 1 .. Len(B) : C[q] = B[q]
  BY <1>1, <1>5, AppendProperties
<1>7. DOMAIN C = DOMAIN B \cup {root}
  BY <1>2, <1>6, LenProperties
<1>8. /\ \A q \in DOMAIN B : C[q] = B[q]
      /\ C[root].slot = slot /\ C[root].ancestors = B[parent].ancestors \cup {root}
  BY <1>2, <1>6
<1> HIDE DEF C, root, blk
<1>9. \A r \in DOMAIN B : B[r].slot \in Nat /\ B[r].ancestors \subseteq DOMAIN B
  BY TreeTypes
<1>10. \A r \in DOMAIN C : r \in C[r].ancestors /\ C[r].ancestors \subseteq DOMAIN C
  BY <1>7, <1>8, <1>9 DEF Tree
<1>11. \A q \in B[parent].ancestors :
         q \in DOMAIN B /\ B[q].slot < slot /\ B[q].ancestors \subseteq B[parent].ancestors
  <2>1. ASSUME NEW q \in B[parent].ancestors PROVE B[q].slot < slot
    <3>1. B[q].slot \in Nat /\ B[parent].slot \in Nat
      BY <1>9
    <3>2. q = parent \/ B[q].slot < B[parent].slot
      BY DEF Tree
    <3> QED
      BY <3>1, <3>2
  <2> QED
    BY <1>9, <2>1 DEF Tree
<1>12. \A r \in DOMAIN C : \A q \in C[r].ancestors :
         C[q].ancestors \subseteq C[r].ancestors /\ (q # r => C[q].slot < C[r].slot)
  <2>1. ASSUME NEW r \in DOMAIN B, NEW q \in C[r].ancestors
        PROVE  C[q].ancestors \subseteq C[r].ancestors /\ (q # r => C[q].slot < C[r].slot)
    BY <1>8, <1>9 DEF Tree
  <2>2. ASSUME NEW q \in C[root].ancestors
        PROVE  C[q].ancestors \subseteq C[root].ancestors /\ (q # root => C[q].slot < C[root].slot)
    BY <1>8, <1>11
  <2> QED
    BY <1>7, <2>1, <2>2
<1>13. \A r \in DOMAIN C : \A p, q \in C[r].ancestors :
         C[p].slot <= C[q].slot => p \in C[q].ancestors
  <2>1. ASSUME NEW r \in DOMAIN B, NEW p \in C[r].ancestors, NEW q \in C[r].ancestors,
               C[p].slot <= C[q].slot
        PROVE  p \in C[q].ancestors
    BY <1>8, <1>9, <2>1 DEF Tree
  <2>2. ASSUME NEW p \in C[root].ancestors, NEW q \in C[root].ancestors,
               C[p].slot <= C[q].slot
        PROVE  p \in C[q].ancestors
    <3>1. CASE q = root
      BY <1>8, <3>1
    <3>2. CASE q # root /\ p = root
      <4>1. C[q].slot < slot /\ C[p].slot = slot /\ C[q].slot \in Nat
        BY <1>8, <1>9, <1>11, <3>2
      <4> QED
        BY <2>2, <4>1
    <3>3. CASE q # root /\ p # root
      <4>1. /\ p \in B[parent].ancestors /\ q \in B[parent].ancestors
            /\ C[p] = B[p] /\ C[q] = B[q]
        BY <1>8, <1>11, <3>3
      <4> QED
        BY <2>2, <4>1 DEF Tree
    <3> QED
      BY <3>1, <3>2, <3>3
  <2> QED
    BY <1>7, <2>1, <2>2
<1>14. 1 \in DOMAIN C /\ C[1].slot = 0 /\ C[1].ancestors = {1}
  BY <1>2, <1>7, <1>8 DEF Tree
<1>15. Tree(C)
  BY <1>6, <1>10, <1>12, <1>13, <1>14 DEF Tree
<1> QED
  BY <1>3, <1>7, <1>8, <1>15 DEF C, root, blk

\* A block has at most one ancestor at a slot.
LEMMA OneAncestorPerSlot ==
  ASSUME NEW B, Tree(B), NEW r \in DOMAIN B,
         NEW p \in B[r].ancestors, NEW q \in B[r].ancestors, B[p].slot = B[q].slot
  PROVE  p = q
<1>1. p \in DOMAIN B /\ q \in DOMAIN B /\ B[p].slot \in Nat
  BY TreeTypes
<1>2. B[p].slot <= B[q].slot
  BY <1>1
<1>3. p \in B[q].ancestors
  BY <1>2 DEF Tree
<1>4. p # q => B[p].slot < B[q].slot
  BY <1>1, <1>3 DEF Tree
<1> QED
  BY <1>1, <1>4

\* The state after the header of a new block belongs to that block, and has
\* its parent's finality.
LEMMA HeaderStateOf ==
  ASSUME NEW B, NEW C, Tree(B), NEW parent \in DOMAIN B, NEW s, StateOf(B, s, parent),
         NEW slot \in Nat, slot > B[parent].slot, NEW root \in Nat,
         parent \in DOMAIN C, root \in DOMAIN C, \A q \in DOMAIN B : C[q] = B[q],
         C[root].slot = slot, C[root].ancestors = B[parent].ancestors \cup {root}
  PROVE  LET t == process_block_header(process_slots(s, slot), root, slot)
         IN  StateOf(C, t, root) /\ FinalSlot(t) = FinalSlot(s)
<1> DEFINE t == process_block_header(process_slots(s, slot), root, slot)
<1>1. /\ GoodState(s) /\ s \in BeamState /\ s.latest_finalized \in Checkpoint
      /\ s.header.root = parent /\ s.header.slot = B[parent].slot /\ s.header.slot \in Nat
      /\ slot > s.header.slot
  BY DEF StateOf, GoodState, BeamState, Checkpoint
<1>2. GoodState(t)
  BY <1>1, HeaderPreservesGood
<1>3. /\ t.slot = slot /\ t.header = [root |-> root, slot |-> slot]
      /\ t.historical_block_hashes = AppendHistory(s, slot)
      /\ t.latest_finalized = IF s.header.slot = 0
                              THEN [s.latest_finalized EXCEPT !.root = s.header.root]
                              ELSE s.latest_finalized
  BY <1>1, HeaderFrame
<1> HIDE DEF t
<1>4. FinalSlot(t) = FinalSlot(s) /\ t.latest_finalized.root # 0
  <2>1. parent # 0
    BY TreeTypes
  <2>2. CASE s.header.slot = 0
    BY <1>1, <1>3, <2>1, <2>2 DEF FinalSlot, Checkpoint
  <2>3. CASE s.header.slot # 0
    BY <1>1, <1>3, <2>3 DEF FinalSlot, StateOf
  <2> QED
    BY <2>2, <2>3
<1>5. ASSUME NEW i \in 0 .. slot - 1, HistoryAt(t, i) # 0
      PROVE  HistoryAt(t, i) \in C[root].ancestors /\ C[HistoryAt(t, i)].slot = i
  <2>1. /\ Len(s.historical_block_hashes) = s.header.slot
        /\ i \in Nat /\ i + 1 \in 1 .. slot
    BY <1>1 DEF GoodState, Windowed
  <2>2. HistoryAt(t, i) = IF i + 1 <= s.header.slot THEN s.historical_block_hashes[i + 1]
                          ELSE IF i + 1 = s.header.slot + 1 THEN parent ELSE 0
    <3>1. AppendHistory(s, slot)
            = [j \in 1 .. slot |-> IF j <= s.header.slot THEN s.historical_block_hashes[j]
                                   ELSE IF j = s.header.slot + 1 THEN parent ELSE 0]
      BY <1>1, <2>1 DEF AppendHistory, ZERO_HASH
    <3> QED
      BY <1>3, <2>1, <3>1 DEF HistoryAt
  <2>3. CASE i < s.header.slot
    <3>1. HistoryAt(t, i) = HistoryAt(s, i) /\ i \in 0 .. B[parent].slot - 1
      BY <1>1, <2>1, <2>2, <2>3 DEF HistoryAt
    <3>2. HistoryAt(s, i) \in B[parent].ancestors /\ B[HistoryAt(s, i)].slot = i
      BY <1>5, <3>1 DEF StateOf
    <3>3. HistoryAt(s, i) \in DOMAIN B
      BY <3>2, TreeTypes
    <3> QED
      BY <3>1, <3>2, <3>3
  <2>4. CASE i = s.header.slot
    <3>1. HistoryAt(t, i) = parent
      BY <1>1, <2>2, <2>4
    <3> QED
      BY <1>1, <2>4, <3>1 DEF Tree
  <2>5. CASE i > s.header.slot
    BY <1>1, <1>5, <2>1, <2>2, <2>5
  <2> QED
    BY <1>1, <2>1, <2>3, <2>4, <2>5
<1>6. StateOf(C, t, root)
  BY <1>2, <1>3, <1>4, <1>5 DEF StateOf
<1> QED
  BY <1>4, <1>6 DEF t

\* So does the state after an attestation, and finality does not go back.
LEMMA AttestationStateOf ==
  ASSUME NEW B, Tree(B), NEW s, NEW r, StateOf(B, s, r), B[r].slot > 0,
         NEW a \in [source : Checkpoint, target : Checkpoint, bits : SUBSET Nat],
         NEW cached, NEW slotOf, AttestationError(s, a, cached) = "none"
  PROVE  LET t == ProcessAttestation(s, a, slotOf)
         IN  StateOf(B, t, r) /\ FinalSlot(s) <= FinalSlot(t)
<1> DEFINE t == ProcessAttestation(s, a, slotOf)
<1>1. /\ GoodState(s) /\ s \in BeamState /\ s.header.slot > 0 /\ FinalSlot(s) \in Nat
  BY DEF StateOf, GoodState, BeamState, Checkpoint, FinalSlot
<1>2. GoodState(t) /\ t.header = s.header
  BY <1>1, AttestationPreservesGood
<1>3. /\ t.slot = s.slot /\ t.historical_block_hashes = s.historical_block_hashes
      /\ \/ t.latest_finalized = s.latest_finalized
         \/ /\ t.latest_finalized = a.source /\ a.source.root # 0
            /\ a.bits # {} /\ ~ZeroRoot(a) /\ Viable(s, a)
            /\ ReachesThreshold(s, a) /\ CanFinalize(s, a)
  BY <1>1, AttestationFrame
<1> HIDE DEF t
<1>4. FinalSlot(s) <= FinalSlot(t)
  <2>1. CASE t.latest_finalized = s.latest_finalized
    BY <1>1, <2>1 DEF FinalSlot
  <2>2. CASE t.latest_finalized # s.latest_finalized
    <3>1. s.latest_finalized.slot <= a.source.slot
      BY <1>1, <1>3, <2>2, CheckedAttestation
    <3> QED
      BY <1>3, <2>2, <3>1 DEF FinalSlot
  <2> QED
    BY <2>1, <2>2
<1>5. StateOf(B, t, r)
  BY <1>2, <1>3 DEF StateOf, HistoryAt
<1> QED
  BY <1>4, <1>5 DEF t

----------------------------------------------------------------------------
(* The invariant holds initially and after the steps that only concern the *)
(* working state.                                                          *)

\* A chain that starts from genesis with an empty database.
LEMMA InitDbInv == DbInit => DbInv
<1> SUFFICES ASSUME DbInit PROVE DbInv
  OBVIOUS
<1>1. /\ blocks = <<[slot |-> 0, ancestors |-> {1}]>>
      /\ DOMAIN states = {1} /\ states[1] = genGenesisState(1) /\ DOMAIN post = {}
      /\ finalized = [root |-> 1, slot |-> 0] /\ emitted = 0
      /\ disk = [states |-> << >>, index |-> << >>, latest |-> 0] /\ loaded = 0
  BY EmptySeq DEF DbInit, Init
<1>2. /\ DOMAIN blocks = {1} /\ blocks[1].slot = 0 /\ blocks[1].ancestors = {1}
      /\ blocks \in Seq([slot : Nat, ancestors : SUBSET Nat])
  BY <1>1
<1>3. Tree(blocks)
  BY <1>2 DEF Tree
<1>4. StateOf(blocks, genGenesisState(1), 1)
  BY <1>3, GenesisStateOf
<1>5. DOMAIN disk.states = {} /\ DOMAIN disk.index = {}
  BY <1>1, EmptySeq
<1>6. StatesInv /\ GrowthInv
  BY <1>1, <1>4, <1>5 DEF StatesInv, GrowthInv
<1>7. MemoryInv
  BY <1>1, <1>2 DEF MemoryInv, Stored, Anchor, Checkpoint
<1>8. DiskInv
  BY <1>1, <1>5 DEF DiskInv
<1> QED
  BY <1>3, <1>6, <1>7, <1>8 DEF DbInv

\* The working state, or states in memory, are dropped (or nothing happens).
LEMMA DropStep ==
  ASSUME DbInv, UNCHANGED <<blocks, finalized, emitted, disk, loaded>>,
         DOMAIN states' \subseteq DOMAIN states, \A r \in DOMAIN states' : states'[r] = states[r],
         DOMAIN post' = {} \/ post' = post
  PROVE  DbInv'
<1>1. Tree(blocks)'
  BY DEF DbInv
<1>2. StatesInv' /\ GrowthInv'
  BY DEF DbInv, StatesInv, GrowthInv
<1>3. Anchor' = Anchor
  BY DEF Anchor
<1>4. MemoryInv'
  BY <1>3 DEF DbInv, MemoryInv, Stored
<1>5. DiskInv'
  BY DEF DbInv, DiskInv
<1> QED
  BY <1>1, <1>2, <1>4, <1>5 DEF DbInv

\* The API asks for the finalized state, which is no longer in memory.
LEMMA ServeStep ==
  ASSUME DbInv, ServeFinalizedState
  PROVE  DbInv'
<1>1. Tree(blocks) /\ StatesInv /\ GrowthInv /\ MemoryInv /\ DiskInv
  BY DEF DbInv
<1>2. /\ UNCHANGED <<blocks, states, post, finalized, emitted, disk>>
      /\ loaded' = IF loaded # 0 THEN loaded ELSE loadLatestFinalizedState(disk)
  BY DEF ServeFinalizedState, getFinalizedState, vars
<1>3. Anchor' = Anchor
  BY <1>2 DEF Anchor
<1>4. loadLatestFinalizedState(disk) # 0 => loadLatestFinalizedState(disk) = Anchor
  <2>1. CASE emitted = 0
    BY <1>1, <2>1 DEF DiskInv, loadLatestFinalizedState
  <2>2. CASE emitted # 0
    BY <1>1, <2>2 DEF DiskInv, loadLatestFinalizedState, Anchor
  <2> QED
    BY <2>1, <2>2
<1>5. MemoryInv'
  BY <1>1, <1>2, <1>3, <1>4 DEF MemoryInv, Stored
<1>6. StatesInv' /\ GrowthInv' /\ DiskInv' /\ Tree(blocks)'
  BY <1>1, <1>2 DEF StatesInv, GrowthInv, DiskInv
<1> QED
  BY <1>5, <1>6 DEF DbInv

\* The header of a new block.
LEMMA StartStep ==
  ASSUME DbInv, NEW parent \in DOMAIN states, NEW slot \in Slots,
         StartImport(parent, slot), UNCHANGED <<disk, loaded>>
  PROVE  DbInv'
<1> DEFINE root == Len(blocks) + 1
           new  == process_block_header(process_slots(states[parent], slot), root, slot)
<1>1. /\ Tree(blocks) /\ StatesInv /\ GrowthInv /\ MemoryInv /\ DiskInv
  BY DEF DbInv
<1>2. /\ StateOf(blocks, states[parent], parent) /\ parent \in DOMAIN blocks
      /\ slot \in Nat /\ slot > blocks[parent].slot
  BY <1>1, ImportAssumption DEF StatesInv, StateOf, StartImport
<1>3. /\ blocks' = Append(blocks, [slot |-> slot,
                                   ancestors |-> blocks[parent].ancestors \cup {root}])
      /\ DOMAIN post' = {root} /\ post'[root] = new
      /\ UNCHANGED <<states, finalized, emitted, disk, loaded>>
  BY DEF StartImport
<1>4. /\ Tree(blocks')
      /\ root \notin DOMAIN blocks /\ root \in Nat \ {0, 1}
      /\ DOMAIN blocks' = DOMAIN blocks \cup {root}
      /\ \A q \in DOMAIN blocks : blocks'[q] = blocks[q]
      /\ blocks'[root].slot = slot
      /\ blocks'[root].ancestors = blocks[parent].ancestors \cup {root}
  BY <1>1, <1>2, <1>3, TreeGrows
<1>5. StateOf(blocks', new, root) /\ FinalSlot(new) = FinalSlot(states[parent])
  BY <1>1, <1>2, <1>4, HeaderStateOf
<1> HIDE DEF root, new
<1>6. /\ blocks[parent].slot \in Nat /\ blocks'[root].slot > 0
      /\ \A r \in DOMAIN blocks : blocks[r].ancestors \subseteq DOMAIN blocks
  BY <1>1, <1>2, <1>4, TreeTypes
<1>7. /\ DOMAIN states \subseteq DOMAIN blocks /\ DOMAIN disk.states \subseteq DOMAIN blocks
      /\ \A r \in DOMAIN states : StateOf(blocks', states[r], r)
      /\ \A r \in DOMAIN disk.states : StateOf(blocks', disk.states[r], r)
  <2>1. DOMAIN states \subseteq DOMAIN blocks /\ DOMAIN disk.states \subseteq DOMAIN blocks
    BY <1>1 DEF StatesInv, StateOf
  <2>2. ASSUME NEW s, NEW r, StateOf(blocks, s, r) PROVE StateOf(blocks', s, r)
    BY <1>1, <1>4, <2>2, StateOfGrows
  <2> QED
    BY <1>1, <2>1, <2>2 DEF StatesInv
<1>8. StatesInv'
  BY <1>1, <1>3, <1>4, <1>5, <1>6, <1>7 DEF StatesInv
<1>9. GrowthInv'
  <2>1. \A r \in DOMAIN disk.states : \A q \in blocks'[r].ancestors :
          q # 1 => /\ q \in DOMAIN disk.states
                   /\ FinalSlot(disk.states[q]) <= FinalSlot(disk.states[r])
    BY <1>1, <1>4, <1>7 DEF GrowthInv
  <2>2. ASSUME NEW q \in blocks[parent].ancestors, q # 1
        PROVE  q \in DOMAIN disk.states /\ FinalSlot(disk.states[q]) <= FinalSlot(new)
    <3>1. parent # 1
      BY <1>1, <2>2 DEF Tree
    <3>2. parent \in DOMAIN disk.states /\ states[parent] = disk.states[parent]
      BY <1>1, <3>1 DEF StatesInv
    <3> QED
      BY <1>1, <1>5, <2>2, <3>2 DEF GrowthInv
  <2> QED
    BY <1>3, <1>4, <2>1, <2>2 DEF GrowthInv
<1>10. Anchor' = Anchor
  BY <1>3 DEF Anchor
<1>11. MemoryInv'
  <2>1. /\ finalized.root \in DOMAIN blocks /\ blocks'[finalized.root] = blocks[finalized.root]
        /\ Stored(finalized.root)'
    BY <1>1, <1>3, <1>4 DEF MemoryInv, Stored
  <2>2. /\ \A r \in DOMAIN states \cup {finalized.root} : Anchor \in blocks'[r].ancestors
        /\ Anchor \in blocks'[root].ancestors
    BY <1>1, <1>4, <1>7, <2>1 DEF MemoryInv
  <2> QED
    BY <1>1, <1>3, <1>10, <2>1, <2>2 DEF MemoryInv
<1>12. DiskInv'
  <2>1. CASE emitted = 0
    BY <1>1, <1>3, <2>1 DEF DiskInv
  <2>2. CASE emitted # 0
    <3>1. disk.index[emitted] \in DOMAIN blocks
      BY <1>1, <1>7, <2>2 DEF DiskInv
    <3>2. /\ blocks'[disk.index[emitted]] = blocks[disk.index[emitted]]
          /\ \A q \in blocks[disk.index[emitted]].ancestors : blocks'[q] = blocks[q]
      BY <1>4, <1>6, <3>1
    <3>3. \A at \in DOMAIN disk.index :
            /\ at \in 0 .. emitted
            /\ disk.index[at] \in blocks'[disk.index[emitted]].ancestors
            /\ blocks'[disk.index[at]].slot = at
      BY <1>1, <2>2, <3>2 DEF DiskInv
    <3>4. \A q \in blocks'[disk.index[emitted]].ancestors :
            blocks'[q].slot \in DOMAIN disk.index /\ disk.index[blocks'[q].slot] = q
      BY <1>1, <2>2, <3>2 DEF DiskInv
    <3>5. /\ disk = [states |-> disk.states, index |-> disk.index, latest |-> emitted]
          /\ emitted \in DOMAIN disk.index /\ disk.index[emitted] \in DOMAIN disk.states
          /\ blocks'[disk.index[emitted]].slot = emitted
      BY <1>1, <2>2, <3>2 DEF DiskInv
    <3>6. disk' = disk /\ emitted' = emitted
      BY <1>3
    <3> QED
      BY <2>2, <3>3, <3>4, <3>5, <3>6 DEF DiskInv
  <2> QED
    BY <2>1, <2>2
<1> QED
  BY <1>4, <1>8, <1>9, <1>11, <1>12 DEF DbInv

\* An attestation of a new block.
LEMMA AttestationStep ==
  ASSUME DbInv, NEW root \in NewBlocks, NEW a \in Attestations,
         ImportAttestation(root, a), UNCHANGED <<disk, loaded>>
  PROVE  DbInv'
<1> DEFINE new == ProcessAttestation(post[root], a, cache)
<1>1. /\ Tree(blocks) /\ StatesInv /\ GrowthInv /\ MemoryInv /\ DiskInv
      /\ root \in DOMAIN post /\ root \notin DOMAIN disk.states
  BY DEF DbInv, NewBlocks
<1>2. StateOf(blocks, post[root], root) /\ blocks[root].slot > 0
  BY <1>1 DEF StatesInv
<1>3. a \in [source : Checkpoint, target : Checkpoint, bits : SUBSET Nat]
  BY <1>1, AttestationsTyped DEF Tree
<1>4. StateOf(blocks, new, root) /\ FinalSlot(post[root]) <= FinalSlot(new)
  BY <1>1, <1>2, <1>3, AttestationStateOf DEF ImportAttestation
<1>5. /\ post' = [post EXCEPT ![root] = new]
      /\ UNCHANGED <<blocks, states, finalized, emitted, disk, loaded>>
  BY DEF ImportAttestation
<1>6. FinalSlot(new) \in Nat /\ FinalSlot(post[root]) \in Nat
  BY <1>2, <1>4 DEF StateOf, GoodState, BeamState, Checkpoint, FinalSlot
<1> HIDE DEF new
<1>7. /\ DOMAIN post' = DOMAIN post
      /\ \A r \in DOMAIN post : post'[r] = IF r = root THEN new ELSE post[r]
  BY <1>5
<1>8. StatesInv'
  BY <1>1, <1>4, <1>5, <1>7 DEF StatesInv
<1>9. GrowthInv'
  <2>1. ASSUME NEW q \in blocks[root].ancestors, q # 1, q # root
        PROVE  q \in DOMAIN disk.states /\ FinalSlot(disk.states[q]) <= FinalSlot(new)
    <3>1. /\ q \in DOMAIN disk.states
          /\ FinalSlot(disk.states[q]) <= FinalSlot(post[root])
      BY <1>1, <2>1 DEF GrowthInv
    <3>2. FinalSlot(disk.states[q]) \in Nat
      BY <1>1, <3>1 DEF StatesInv, StateOf, GoodState, BeamState, Checkpoint, FinalSlot
    <3> QED
      BY <1>4, <1>6, <3>1, <3>2
  <2> QED
    BY <1>1, <1>5, <1>7, <2>1 DEF GrowthInv
<1>10. Anchor' = Anchor
  BY <1>5 DEF Anchor
<1>11. MemoryInv'
  BY <1>1, <1>5, <1>7, <1>10 DEF MemoryInv, Stored
<1>12. DiskInv'
  BY <1>1, <1>5 DEF DiskInv
<1> QED
  BY <1>1, <1>5, <1>8, <1>9, <1>11, <1>12 DEF DbInv

\* A stored block is imported again after a restart.
LEMMA AgainStep ==
  ASSUME DbInv, NEW root \in DOMAIN disk.states, ImportAgain(root)
  PROVE  DbInv'
<1>1. Tree(blocks) /\ StatesInv /\ GrowthInv /\ MemoryInv /\ DiskInv
  BY DEF DbInv
<1>2. PICK parent \in DOMAIN states :
        blocks[root].ancestors = blocks[parent].ancestors \cup {root}
  BY DEF ImportAgain
<1>3. /\ DOMAIN post' = {root} /\ post'[root] = disk.states[root]
      /\ UNCHANGED <<blocks, states, finalized, emitted, disk, loaded>>
  BY DEF ImportAgain
<1>4. StatesInv' /\ GrowthInv'
  BY <1>1, <1>3 DEF StatesInv, GrowthInv
<1>5. Anchor' = Anchor
  BY <1>3 DEF Anchor
<1>6. MemoryInv'
  <2>1. Anchor \in blocks[root].ancestors
    BY <1>1, <1>2 DEF MemoryInv
  <2> QED
    BY <1>1, <1>3, <1>5, <2>1 DEF MemoryInv, Stored
<1>7. DiskInv'
  BY <1>1, <1>3 DEF DiskInv
<1> QED
  BY <1>1, <1>3, <1>4, <1>6, <1>7 DEF DbInv

----------------------------------------------------------------------------
(* The batch of a block, and restarts.                                     *)

\* What the database holds after the batch of the block being imported.
LEMMA BlockBatch ==
  ASSUME DbInv, NEW root \in DOMAIN post
  PROVE  LET d == updateBlockDb(disk, root)
         IN  /\ d = [states |-> d.states, index |-> disk.index, latest |-> emitted]
             /\ DOMAIN d.states = DOMAIN disk.states \cup {root}
             /\ d.states[root] = post[root]
             /\ \A r \in DOMAIN disk.states : d.states[r] = disk.states[r]
             /\ \A r \in DOMAIN d.states : StateOf(blocks, d.states[r], r) /\ blocks[r].slot > 0
             /\ \A r \in DOMAIN d.states : \A q \in blocks[r].ancestors :
                  q # 1 => /\ q \in DOMAIN d.states
                           /\ FinalSlot(d.states[q]) <= FinalSlot(d.states[r])
<1> DEFINE d == updateBlockDb(disk, root)
<1>1. Tree(blocks) /\ StatesInv /\ GrowthInv /\ DiskInv
  BY DEF DbInv
<1>2. disk = [states |-> disk.states, index |-> disk.index, latest |-> emitted]
  BY <1>1 DEF DiskInv
<1>3. /\ d = [states |-> d.states, index |-> disk.index, latest |-> emitted]
      /\ d.states = Extend(disk.states, root, post[root])
  BY <1>2 DEF updateBlockDb
<1> HIDE DEF d
<1>4. /\ DOMAIN d.states = DOMAIN disk.states \cup {root}
      /\ d.states[root] = post[root]
      /\ \A r \in DOMAIN disk.states : d.states[r] = disk.states[r]
  BY <1>1, <1>3 DEF Extend, StatesInv
<1>5. \A r \in DOMAIN d.states : StateOf(blocks, d.states[r], r) /\ blocks[r].slot > 0
  BY <1>1, <1>4 DEF StatesInv
<1>6. \A r \in DOMAIN d.states : FinalSlot(d.states[r]) \in Nat
  BY <1>5 DEF StateOf, GoodState, BeamState, Checkpoint, FinalSlot
<1>7. ASSUME NEW r \in DOMAIN d.states, NEW q \in blocks[r].ancestors, q # 1
      PROVE  q \in DOMAIN d.states /\ FinalSlot(d.states[q]) <= FinalSlot(d.states[r])
  <2>1. CASE r \in DOMAIN disk.states
    BY <1>1, <1>4, <1>7, <2>1 DEF GrowthInv
  <2>2. CASE r = root /\ q = root
    BY <1>4, <1>6, <2>2
  <2>3. CASE r = root /\ q # root
    BY <1>1, <1>4, <1>7, <2>3 DEF GrowthInv
  <2> QED
    BY <1>4, <2>1, <2>2, <2>3
<1> QED
  BY <1>3, <1>4, <1>5, <1>7 DEF d

\* A node that starts finds the block of the latest finalized slot.
LEMMA LoadsAnchor ==
  ASSUME DbInv, NEW d, d.latest = emitted, d.index = disk.index,
         DOMAIN disk.states \subseteq DOMAIN d.states,
         \A r \in DOMAIN d.states : StateOf(blocks, d.states[r], r)
  PROVE  /\ AnchorRoot(d) = Anchor
         /\ Anchor \in DOMAIN blocks /\ blocks[Anchor].slot = emitted
         /\ Anchor # 1 => Anchor \in DOMAIN d.states
         /\ StateOf(blocks, AnchorState(d, Anchor), Anchor)
         /\ Anchor # 1 => AnchorState(d, Anchor) = d.states[Anchor]
<1>1. Tree(blocks) /\ StatesInv /\ DiskInv
  BY DEF DbInv
<1>2. CASE emitted = 0
  <2>1. Anchor = 1 /\ AnchorRoot(d) = 1 /\ AnchorState(d, 1) = genGenesisState(1)
    BY <1>1, <1>2 DEF Anchor, DiskInv, AnchorRoot, loadLatestFinalizedState, AnchorState
  <2>2. 1 \in DOMAIN blocks /\ blocks[1].slot = 0
    BY <1>1 DEF Tree
  <2>3. StateOf(blocks, genGenesisState(1), 1)
    BY <1>1, GenesisStateOf
  <2> QED
    BY <1>2, <2>1, <2>2, <2>3
<1>3. CASE emitted # 0
  <2>1. /\ Anchor = disk.index[emitted] /\ emitted \in DOMAIN disk.index
        /\ Anchor \in DOMAIN disk.states /\ blocks[Anchor].slot = emitted
    BY <1>1, <1>3 DEF Anchor, DiskInv
  <2>2. Anchor # 1 /\ Anchor # 0
    BY <1>1, <1>3, <2>1, TreeTypes DEF Tree, StatesInv, StateOf
  <2> QED
    BY <2>1, <2>2 DEF AnchorRoot, loadLatestFinalizedState, AnchorState, StateOf
<1> QED
  BY <1>2, <1>3

\* The node starts again from a database that has kept its index: it resumes
\* at the anchor, which the block it held final descends from.
LEMMA RestartStep ==
  ASSUME DbInv, NEW d, d = [states |-> d.states, index |-> disk.index, latest |-> emitted],
         DOMAIN disk.states \subseteq DOMAIN d.states,
         \A r \in DOMAIN d.states : StateOf(blocks, d.states[r], r) /\ blocks[r].slot > 0,
         \A r \in DOMAIN d.states : \A q \in blocks[r].ancestors :
           q # 1 => q \in DOMAIN d.states /\ FinalSlot(d.states[q]) <= FinalSlot(d.states[r]),
         StartFrom(d), disk' = d
  PROVE  DbInv' /\ Descends(finalized.root, finalized'.root) /\ finalized'.slot = emitted
<1> DEFINE s == AnchorState(d, Anchor)
<1>1. Tree(blocks) /\ MemoryInv /\ DiskInv
  BY DEF DbInv
<1>2. d.latest = emitted /\ d.index = disk.index
  OBVIOUS
<1>3. /\ AnchorRoot(d) = Anchor
      /\ Anchor \in DOMAIN blocks /\ blocks[Anchor].slot = emitted
      /\ Anchor # 1 => Anchor \in DOMAIN d.states
      /\ StateOf(blocks, s, Anchor)
      /\ Anchor # 1 => s = d.states[Anchor]
  BY <1>2, LoadsAnchor
<1>4. s.slot = emitted /\ Anchor \in Nat /\ emitted \in Nat
  BY <1>1, <1>3, TreeTypes DEF StateOf, MemoryInv
<1> HIDE DEF s
<1>5. /\ DOMAIN states' = {Anchor} /\ states'[Anchor] = s /\ DOMAIN post' = {}
      /\ finalized' = [root |-> Anchor, slot |-> emitted] /\ emitted' = emitted
      /\ blocks' = blocks /\ disk' = d /\ loaded' = 0
  BY <1>3, <1>4, EmptySeq DEF StartFrom, s
<1>6. Anchor' = Anchor
  BY <1>2, <1>5 DEF Anchor
<1>7. StatesInv'
  BY <1>3, <1>5 DEF StatesInv
<1>8. GrowthInv'
  BY <1>5 DEF GrowthInv
<1>9. MemoryInv'
  <2>1. Anchor \in blocks[Anchor].ancestors
    BY <1>1, <1>3 DEF Tree
  <2>2. finalized' \in Checkpoint /\ emitted' \in Nat /\ emitted' <= finalized'.slot
    BY <1>4, <1>5 DEF Checkpoint
  <2>3. Stored(finalized.root)' /\ blocks'[finalized'.root].slot = finalized'.slot
    BY <1>3, <1>5 DEF Stored
  <2> QED
    BY <1>5, <1>6, <2>1, <2>2, <2>3 DEF MemoryInv
<1>10. DiskInv'
  <2>1. disk'.states = d.states /\ disk'.index = disk.index
    BY <1>2, <1>5
  <2>2. disk' = [states |-> disk'.states, index |-> disk'.index, latest |-> emitted']
    BY <1>5, <2>1
  <2>3. CASE emitted = 0
    BY <1>1, <1>5, <2>1, <2>2, <2>3 DEF DiskInv
  <2>4. CASE emitted # 0
    BY <1>1, <1>5, <2>1, <2>2, <2>4 DEF DiskInv
  <2> QED
    BY <2>3, <2>4
<1>11. Tree(blocks)'
  BY <1>1, <1>5
<1>12. Descends(finalized.root, finalized'.root) /\ finalized'.slot = emitted
  BY <1>1, <1>5 DEF MemoryInv, Descends
<1> QED
  BY <1>7, <1>8, <1>9, <1>10, <1>11, <1>12 DEF DbInv

----------------------------------------------------------------------------
(* The end of an import.                                                   *)

\* The finalized checkpoint after an import is a stored block, on the branch of
\* the anchor and of the block finalized before.
LEMMA UpdatedFinalizedStored ==
  ASSUME DbInv, NEW root \in DOMAIN post, ForkChoiceAccepts(root)
  PROVE  LET cp == UpdatedFinalized(root)
         IN  /\ cp \in Checkpoint /\ Stored(cp.root)
             /\ blocks[cp.root].slot = cp.slot /\ finalized.slot <= cp.slot
             /\ Anchor \in blocks[cp.root].ancestors
             /\ finalized.root \in blocks[cp.root].ancestors
<1>1. Tree(blocks) /\ StatesInv /\ GrowthInv /\ MemoryInv /\ DiskInv
  BY DEF DbInv
<1>2. CASE ~(post[root].latest_finalized.slot > finalized.slot)
  <2>1. finalized.slot \in Nat /\ UpdatedFinalized(root) = finalized
    BY <1>1, <1>2 DEF MemoryInv, UpdatedFinalized, Checkpoint
  <2>2. finalized.root \in blocks[finalized.root].ancestors
    BY <1>1 DEF MemoryInv, Stored, Tree
  <2> QED
    BY <1>1, <2>1, <2>2 DEF MemoryInv
<1>3. CASE post[root].latest_finalized.slot > finalized.slot
  <2> DEFINE cp == post[root].latest_finalized
  <2>1. UpdatedFinalized(root) = cp
    BY <1>3 DEF UpdatedFinalized
  <2>2. StateOf(blocks, post[root], root) /\ blocks[root].slot > 0 /\ root \in DOMAIN blocks
    BY <1>1 DEF StatesInv, StateOf
  <2>3. /\ cp \in Checkpoint /\ cp.root \in blocks[root].ancestors
        /\ blocks[cp.root].slot = cp.slot /\ cp.slot < blocks[root].slot
    BY <1>1, <2>2, FinalizedIsAncestor
  <2> HIDE DEF cp
  <2>4. /\ cp.slot \in Nat /\ finalized.slot \in Nat /\ emitted \in Nat
        /\ emitted <= finalized.slot /\ finalized.slot < cp.slot
    BY <1>1, <1>3, <2>3 DEF MemoryInv, Checkpoint, cp
  <2>5. Anchor \in blocks[root].ancestors /\ blocks[Anchor].slot = emitted
    BY <1>1 DEF MemoryInv, DiskInv, Anchor, Tree
  <2>6. blocks[Anchor].slot <= blocks[cp.root].slot
    BY <2>3, <2>4, <2>5
  <2>7. Anchor \in blocks[cp.root].ancestors
    BY <1>1, <2>2, <2>3, <2>5, <2>6 DEF Tree
  <2>8. cp.root # root
    <3>1. blocks[root].slot \in Nat
      BY <1>1, <2>2, TreeTypes
    <3> QED
      BY <2>3, <2>4, <3>1
  <2>9. Stored(cp.root)
    <3>1. cp.root \in DOMAIN blocks
      BY <1>1, <2>2, <2>3, TreeTypes
    <3> QED
      BY <1>1, <2>3, <2>8, <3>1 DEF GrowthInv, Stored
  <2>10. finalized.root \in blocks[cp.root].ancestors
    <3>1. finalized.root \in blocks[root].ancestors /\ blocks[finalized.root].slot = finalized.slot
      BY <1>1 DEF ForkChoiceAccepts, Descends, MemoryInv
    <3>2. blocks[finalized.root].slot <= blocks[cp.root].slot
      BY <2>3, <2>4, <3>1
    <3> QED
      BY <1>1, <2>2, <2>3, <3>1, <3>2 DEF Tree
  <2> QED
    BY <2>1, <2>3, <2>4, <2>7, <2>9, <2>10
<1> QED
  BY <1>2, <1>3

\* The second batch extends the index from the anchor to the new finalized
\* block: it becomes that block's chain.
LEMMA FinalityBatch ==
  ASSUME DbInv, NEW d, d = [states |-> d.states, index |-> disk.index, latest |-> emitted],
         NEW cp \in Checkpoint, Stored(cp.root), blocks[cp.root].slot = cp.slot,
         emitted < cp.slot, Anchor \in blocks[cp.root].ancestors
  PROVE  LET e == CommitFinality(d, cp)
         IN  /\ e = [states |-> d.states, index |-> e.index, latest |-> cp.slot]
             /\ \A at \in DOMAIN e.index : /\ at \in 0 .. cp.slot
                                           /\ e.index[at] \in blocks[cp.root].ancestors
                                           /\ blocks[e.index[at]].slot = at
             /\ \A q \in blocks[cp.root].ancestors :
                  blocks[q].slot \in DOMAIN e.index /\ e.index[blocks[q].slot] = q
<1> DEFINE e == CommitFinality(d, cp)
           chain == blocks[cp.root].ancestors
           rootAt(at) == {r \in FinalizedRoots(cp) : blocks[r].slot = at}
           slots == {blocks[r].slot : r \in FinalizedRoots(cp)}
           index == [at \in DOMAIN d.index \cup slots |->
                       IF at \in slots THEN CHOOSE r \in rootAt(at) : TRUE ELSE d.index[at]]
<1>0. d.index = disk.index
  OBVIOUS
<1>1. Tree(blocks) /\ StatesInv /\ MemoryInv /\ DiskInv
  BY DEF DbInv
<1>2. /\ cp.root \in DOMAIN blocks /\ cp.slot \in Nat /\ emitted \in Nat
      /\ \A r \in DOMAIN blocks : blocks[r].slot \in Nat
      /\ chain \subseteq DOMAIN blocks
  BY <1>1, TreeTypes DEF Stored, MemoryInv, Checkpoint
<1>3. e = [states |-> d.states, index |-> index, latest |-> cp.slot]
  <2>1. e = [d EXCEPT !.latest = cp.slot, !.index = index]
    BY Zenon DEF CommitFinality
  <2> HIDE DEF e, index
  <2> QED
    BY <2>1
<1>4. FinalizedRoots(cp) = {r \in chain : blocks[r].slot >= emitted}
  BY DEF FinalizedRoots
<1>5. \A q \in chain : blocks[q].slot \in 0 .. cp.slot
  <2>1. ASSUME NEW q \in chain PROVE blocks[q].slot \in 0 .. cp.slot
    <3>1. q = cp.root \/ blocks[q].slot < cp.slot
      BY <1>1, <1>2 DEF Tree
    <3>2. blocks[q].slot \in Nat
      BY <1>2
    <3> QED
      BY <1>2, <3>1, <3>2
  <2> QED
    BY <2>1
<1>6. ASSUME NEW q \in FinalizedRoots(cp)
      PROVE  blocks[q].slot \in slots /\ index[blocks[q].slot] = q
  <2>1. blocks[q].slot \in slots /\ q \in rootAt(blocks[q].slot)
    OBVIOUS
  <2>2. ASSUME NEW p \in rootAt(blocks[q].slot) PROVE p = q
    BY <1>1, <1>2, <1>4, OneAncestorPerSlot
  <2>3. (CHOOSE r \in rootAt(blocks[q].slot) : TRUE) = q
    <3> DEFINE c == CHOOSE r \in rootAt(blocks[q].slot) : TRUE
    <3>1. c \in rootAt(blocks[q].slot)
      BY <2>1
    <3> QED
      BY <2>2, <3>1
  <2> QED
    BY <2>1, <2>3
<1> HIDE DEF e, rootAt
<1>7. ASSUME NEW q \in chain, q \notin FinalizedRoots(cp)
      PROVE  /\ blocks[q].slot \in DOMAIN disk.index /\ blocks[q].slot \notin slots
             /\ disk.index[blocks[q].slot] = q
  <2>1. blocks[q].slot \in Nat /\ blocks[q].slot < emitted
    BY <1>2, <1>4, <1>7
  <2>2. emitted # 0
    BY <1>2, <2>1
  <2>3. Anchor = disk.index[emitted] /\ blocks[Anchor].slot = emitted
    BY <1>1, <2>2 DEF Anchor, DiskInv
  <2>4. blocks[q].slot <= blocks[Anchor].slot
    BY <1>2, <2>1, <2>3
  <2>5. q \in blocks[Anchor].ancestors
    BY <1>1, <1>2, <2>4 DEF Tree
  <2>6. blocks[q].slot \in DOMAIN disk.index /\ disk.index[blocks[q].slot] = q
    BY <1>1, <2>2, <2>3, <2>5 DEF DiskInv
  <2>7. blocks[q].slot \notin slots
    BY <1>2, <1>4, <2>1
  <2> QED
    BY <2>6, <2>7
<1>8. \A q \in chain : blocks[q].slot \in DOMAIN index /\ index[blocks[q].slot] = q
  BY <1>0, <1>6, <1>7
<1>9. ASSUME NEW at \in DOMAIN index
      PROVE  at \in 0 .. cp.slot /\ index[at] \in chain /\ blocks[index[at]].slot = at
  <2>1. CASE at \in slots
    <3>1. PICK q \in FinalizedRoots(cp) : blocks[q].slot = at
      BY <2>1
    <3>2. q \in chain /\ index[at] = q
      BY <1>4, <1>6, <3>1
    <3> QED
      BY <1>5, <3>1, <3>2
  <2>2. CASE at \notin slots
    <3>1. at \in DOMAIN disk.index /\ index[at] = disk.index[at]
      BY <1>0, <2>2
    <3>2. emitted # 0
      BY <1>1, <3>1 DEF DiskInv
    <3>3. Anchor = disk.index[emitted]
      BY <3>2 DEF Anchor
    <3>4. disk.index[at] \in blocks[Anchor].ancestors /\ blocks[disk.index[at]].slot = at
      BY <1>1, <3>1, <3>2, <3>3 DEF DiskInv
    <3>5. blocks[Anchor].ancestors \subseteq chain
      BY <1>1, <1>2 DEF Tree
    <3> QED
      BY <1>5, <3>1, <3>4, <3>5
  <2> QED
    BY <2>1, <2>2
<1> HIDE DEF index, chain
<1>10. e.index = index /\ e = [states |-> d.states, index |-> e.index, latest |-> cp.slot]
  BY <1>3
<1>11. /\ \A at \in DOMAIN e.index :
            at \in 0 .. cp.slot /\ e.index[at] \in chain /\ blocks[e.index[at]].slot = at
       /\ \A q \in chain : blocks[q].slot \in DOMAIN e.index /\ e.index[blocks[q].slot] = q
  BY <1>8, <1>9, <1>10
<1> QED
  BY <1>10, <1>11 DEF e, chain

\* The end of an import, with and without an advance of finality.
LEMMA StoreStep ==
  ASSUME DbInv, NEW root \in DOMAIN post, NEW followup \in BOOLEAN, StoreImport(root, followup)
  PROVE  DbInv'
<1> DEFINE cp     == UpdatedFinalized(root)
           d      == updateBlockDb(disk, root)
           stored == Extend(states, root, post[root])
<1>1. Tree(blocks) /\ StatesInv /\ GrowthInv /\ MemoryInv /\ DiskInv
  BY DEF DbInv
<1>2. /\ cp \in Checkpoint /\ Stored(cp.root)
      /\ blocks[cp.root].slot = cp.slot /\ finalized.slot <= cp.slot
      /\ Anchor \in blocks[cp.root].ancestors
      /\ finalized.root \in blocks[cp.root].ancestors
  BY UpdatedFinalizedStored DEF StoreImport, FinishImport
<1>3. /\ d = [states |-> d.states, index |-> disk.index, latest |-> emitted]
      /\ DOMAIN d.states = DOMAIN disk.states \cup {root}
      /\ d.states[root] = post[root]
      /\ \A r \in DOMAIN disk.states : d.states[r] = disk.states[r]
      /\ \A r \in DOMAIN d.states : StateOf(blocks, d.states[r], r) /\ blocks[r].slot > 0
      /\ \A r \in DOMAIN d.states : \A q \in blocks[r].ancestors :
           q # 1 => q \in DOMAIN d.states /\ FinalSlot(d.states[q]) <= FinalSlot(d.states[r])
  BY BlockBatch
<1>4. /\ DOMAIN stored = DOMAIN states \cup {root} /\ stored[root] = post[root]
      /\ \A r \in DOMAIN states : r # root => stored[r] = states[r]
  BY DEF Extend
<1>5. /\ DOMAIN post' = {} /\ blocks' = blocks /\ finalized' = cp /\ loaded' = loaded
      /\ IF followup /\ cp.slot > emitted
         THEN /\ emitted' = cp.slot /\ disk' = CommitFinality(d, cp)
              /\ states' = RestrictTo(stored, CanonicalRoots(cp))
         ELSE emitted' = emitted /\ disk' = d /\ states' = stored
  BY EmptySeq DEF StoreImport, FinishImport
<1> HIDE DEF cp, d, stored
<1>6. /\ cp.slot \in Nat /\ finalized.slot \in Nat /\ emitted \in Nat /\ emitted <= finalized.slot
      /\ DOMAIN states \subseteq DOMAIN blocks /\ root \in DOMAIN blocks
      /\ \A r \in DOMAIN blocks : blocks[r].slot \in Nat /\ blocks[r].ancestors \subseteq DOMAIN blocks
  BY <1>1, <1>2, TreeTypes DEF MemoryInv, Checkpoint, StatesInv, StateOf
<1>7. \A r \in DOMAIN stored :
        /\ StateOf(blocks, stored[r], r)
        /\ r # 1 => r \in DOMAIN d.states /\ stored[r] = d.states[r]
  <2>1. StateOf(blocks, stored[root], root) /\ root \in DOMAIN d.states /\ stored[root] = d.states[root]
    BY <1>1, <1>3, <1>4 DEF StatesInv
  <2>2. ASSUME NEW r \in DOMAIN states, r # root
        PROVE  StateOf(blocks, stored[r], r) /\ (r # 1 => r \in DOMAIN d.states /\ stored[r] = d.states[r])
    BY <1>1, <1>3, <1>4, <2>2 DEF StatesInv
  <2> QED
    BY <1>4, <2>1, <2>2
<1>8. /\ \A r \in DOMAIN stored : Anchor \in blocks[r].ancestors
      /\ loaded # 0 => loaded \in blocks[cp.root].ancestors
      /\ cp.root \in DOMAIN blocks /\ (cp.root # 1 => cp.root \in DOMAIN d.states)
  BY <1>1, <1>2, <1>3, <1>4 DEF MemoryInv, Stored, Tree
<1>9. /\ DOMAIN states' \subseteq DOMAIN stored
      /\ \A r \in DOMAIN states' : states'[r] = stored[r]
      /\ disk'.states = d.states
  <2>1. CASE followup /\ cp.slot > emitted
    <3>1. states' = RestrictTo(stored, CanonicalRoots(cp))
      BY <1>5, <2>1
    <3>2. disk' = CommitFinality(d, cp)
      BY <1>5, <2>1
    <3>3. disk'.states = d.states
      BY <1>2, <1>3, <1>6, <2>1, <3>2, FinalityBatch
    <3> QED
      BY <3>1, <3>3 DEF RestrictTo
  <2>2. CASE ~(followup /\ cp.slot > emitted)
    BY <1>5, <2>2
  <2> QED
    BY <2>1, <2>2
<1>10. StatesInv'
  BY <1>3, <1>5, <1>7, <1>9 DEF StatesInv
<1>11. GrowthInv'
  BY <1>3, <1>5, <1>9 DEF GrowthInv
<1>12. CASE ~(followup /\ cp.slot > emitted)
  <2>1. emitted' = emitted /\ disk' = d /\ states' = stored
    BY <1>5, <1>12
  <2>2. d.index = disk.index
    BY <1>3
  <2>3. Anchor' = Anchor
    BY <2>1, <2>2 DEF Anchor
  <2>4. MemoryInv'
    BY <1>2, <1>5, <1>6, <1>8, <2>1, <2>3 DEF MemoryInv, Stored
  <2>5. disk' = [states |-> disk'.states, index |-> disk'.index, latest |-> emitted']
    BY <1>3, <2>1, <2>2
  <2>6. DiskInv'
    <3>1. CASE emitted = 0
      BY <1>1, <1>5, <2>1, <2>2, <2>5, <3>1 DEF DiskInv
    <3>2. CASE emitted # 0
      BY <1>1, <1>3, <1>5, <2>1, <2>2, <2>5, <3>2 DEF DiskInv
    <3> QED
      BY <3>1, <3>2
  <2> QED
    BY <1>1, <1>5, <1>10, <1>11, <2>4, <2>6 DEF DbInv
<1>13. CASE followup /\ cp.slot > emitted
  <2>1. /\ emitted' = cp.slot /\ disk' = CommitFinality(d, cp)
        /\ states' = RestrictTo(stored, CanonicalRoots(cp))
    BY <1>5, <1>13
  <2>2. /\ disk' = [states |-> d.states, index |-> disk'.index, latest |-> cp.slot]
        /\ \A at \in DOMAIN disk'.index : /\ at \in 0 .. cp.slot
                                          /\ disk'.index[at] \in blocks[cp.root].ancestors
                                          /\ blocks[disk'.index[at]].slot = at
        /\ \A q \in blocks[cp.root].ancestors :
             blocks[q].slot \in DOMAIN disk'.index /\ disk'.index[blocks[q].slot] = q
    BY <1>2, <1>3, <1>6, <1>13, <2>1, FinalityBatch
  <2>3. cp.root \in blocks[cp.root].ancestors /\ cp.root \in DOMAIN blocks
    BY <1>1, <1>8 DEF Tree
  <2>4. cp.slot \in DOMAIN disk'.index /\ disk'.index[cp.slot] = cp.root
    BY <1>2, <2>2, <2>3
  <2>5. cp.slot # 0
    BY <1>6, <1>13
  <2>6. Anchor' = cp.root
    BY <2>1, <2>4, <2>5 DEF Anchor
  <2>7. DOMAIN states' = {r \in DOMAIN stored : cp.root \in blocks[r].ancestors}
    <3>1. DOMAIN stored \subseteq Roots
      <4>1. Roots = DOMAIN blocks
        BY <1>1, LenProperties DEF Roots, Tree
      <4> QED
        BY <1>4, <1>6, <4>1
    <3> QED
      BY <2>1, <3>1 DEF RestrictTo, CanonicalRoots, Descends
  <2>8. MemoryInv'
    <3>1. \A r \in DOMAIN states' \cup {cp.root} : cp.root \in blocks[r].ancestors
      BY <2>3, <2>7
    <3>2. emitted' \in Nat /\ emitted' <= finalized'.slot
      BY <1>5, <1>6, <2>1
    <3>3. Stored(finalized.root)'
      BY <1>5, <1>8, <1>9 DEF Stored
    <3> QED
      BY <1>2, <1>5, <1>8, <2>6, <3>1, <3>2, <3>3 DEF MemoryInv
  <2>9. DiskInv'
    <3>1. cp.root \in DOMAIN d.states
      BY <1>1, <1>2, <1>8, <2>5 DEF Tree
    <3>2. disk' = [states |-> disk'.states, index |-> disk'.index, latest |-> emitted']
      BY <1>9, <2>1, <2>2
    <3> QED
      BY <1>2, <1>5, <1>9, <2>1, <2>2, <2>4, <2>5, <3>1, <3>2 DEF DiskInv
  <2> QED
    BY <1>1, <1>5, <1>10, <1>11, <2>8, <2>9 DEF DbInv
<1> QED
  BY <1>12, <1>13

----------------------------------------------------------------------------
(* The invariant, and the theorems.                                        *)

\* Both kinds of restart satisfy the premises of RestartStep.
LEMMA EveryRestart ==
  ASSUME DbInv, Restart \/ \E root \in DOMAIN post : RestartBetweenBatches(root)
  PROVE  DbInv' /\ Descends(finalized.root, finalized'.root) /\ finalized'.slot = emitted
<1>1. CASE Restart
  <2>1. StartFrom(disk) /\ disk' = disk
    BY <1>1 DEF Restart
  <2>2. disk = [states |-> disk.states, index |-> disk.index, latest |-> emitted]
    BY DEF DbInv, DiskInv
  <2>3. /\ \A r \in DOMAIN disk.states : StateOf(blocks, disk.states[r], r) /\ blocks[r].slot > 0
        /\ \A r \in DOMAIN disk.states : \A q \in blocks[r].ancestors :
             q # 1 => /\ q \in DOMAIN disk.states
                      /\ FinalSlot(disk.states[q]) <= FinalSlot(disk.states[r])
    BY DEF DbInv, StatesInv, GrowthInv
  <2> QED
    BY <2>1, <2>2, <2>3, RestartStep
<1>2. ASSUME NEW root \in DOMAIN post, RestartBetweenBatches(root)
      PROVE  DbInv' /\ Descends(finalized.root, finalized'.root) /\ finalized'.slot = emitted
  <2> DEFINE d == updateBlockDb(disk, root)
  <2>1. disk' = d /\ StartFrom(d)
    BY <1>2 DEF RestartBetweenBatches
  <2>2. /\ d = [states |-> d.states, index |-> disk.index, latest |-> emitted]
        /\ DOMAIN disk.states \subseteq DOMAIN d.states
        /\ \A r \in DOMAIN d.states : StateOf(blocks, d.states[r], r) /\ blocks[r].slot > 0
        /\ \A r \in DOMAIN d.states : \A q \in blocks[r].ancestors :
             q # 1 => q \in DOMAIN d.states /\ FinalSlot(d.states[q]) <= FinalSlot(d.states[r])
    BY BlockBatch
  <2> HIDE DEF d
  <2> QED
    BY <2>1, <2>2, RestartStep
<1> QED
  BY <1>1, <1>2

\* Every step preserves the invariant.
LEMMA NextDbInv == DbInv /\ [DbNext]_dbVars => DbInv'
<1> SUFFICES ASSUME DbInv, [DbNext]_dbVars PROVE DbInv'
  OBVIOUS
<1>1. ASSUME NEW parent \in DOMAIN states, NEW slot \in Slots,
             StartImport(parent, slot), UNCHANGED <<disk, loaded>>
      PROVE  DbInv'
  BY <1>1, StartStep
<1>2. ASSUME NEW root \in NewBlocks, NEW a \in Attestations,
             ImportAttestation(root, a), UNCHANGED <<disk, loaded>>
      PROVE  DbInv'
  BY <1>2, AttestationStep
<1>3. ASSUME NEW root \in NewBlocks, AbortImport(root), UNCHANGED <<disk, loaded>>
      PROVE  DbInv'
  BY <1>3, EmptySeq, DropStep DEF AbortImport
<1>4. ASSUME NEW root \in DOMAIN disk.states, ImportAgain(root)
      PROVE  DbInv'
  BY <1>4, AgainStep
<1>5. ASSUME NEW root \in DOMAIN post, NEW followup \in BOOLEAN, StoreImport(root, followup)
      PROVE  DbInv'
  BY <1>5, StoreStep
<1>6. ASSUME NEW root \in DOMAIN post, RefuseImport(root), UNCHANGED <<disk, loaded>>
      PROVE  DbInv'
  BY <1>6, EmptySeq, DropStep DEF RefuseImport
<1>7. ASSUME NEW anchor, NEW older, PrunePeriodically(anchor, older), UNCHANGED <<disk, loaded>>
      PROVE  DbInv'
  <2>1. UNCHANGED <<blocks, post, finalized, emitted, disk, loaded>>
    BY <1>7 DEF PrunePeriodically
  <2>2. DOMAIN states' \subseteq DOMAIN states /\ \A r \in DOMAIN states' : states'[r] = states[r]
    BY <1>7 DEF PrunePeriodically, RestrictTo
  <2> QED
    BY <2>1, <2>2, DropStep
<1>8. CASE Restart \/ \E root \in DOMAIN post : RestartBetweenBatches(root)
  BY <1>8, EveryRestart
<1>9. CASE UNCHANGED dbVars
  BY <1>9, DropStep DEF dbVars, vars
<1> QED
  BY <1>1, <1>2, <1>3, <1>4, <1>5, <1>6, <1>7, <1>8, <1>9, ServeStep DEF DbNext

\* DbInv holds in every state of every behaviour with imports, finalizations
\* and restarts.
LEMMA DbInvariance == DbSpec => []DbInv
<1> QED
  BY InitDbInv, NextDbInv, PTL DEF DbSpec

\* Whatever finality the database records can be loaded again: no sequence of
\* imports and restarts makes a start fall back to genesis
\* (loadLatestFinalizedState).
THEOREM RecordedFinalityCorrect == DbSpec => []RecordedFinalityLoads
<1>1. DbInv => RecordedFinalityLoads
  <2> SUFFICES ASSUME DbInv PROVE RecordedFinalityLoads
    OBVIOUS
  <2>1. DiskInv /\ disk.latest = emitted
    BY DEF DbInv, DiskInv
  <2> QED
    BY <2>1 DEF DiskInv, RecordedFinalityLoads
<1> QED
  BY <1>1, DbInvariance, PTL

\* The finalized slot index is the chain of the latest finalized block, without
\* holes and without anything else (putFinalizedSlotIndex).
THEOREM IndexCorrect == DbSpec => []IndexIsFinalizedChain
<1>1. DbInv => IndexIsFinalizedChain
  <2> SUFFICES ASSUME DbInv, disk.latest # 0
               PROVE  {disk.index[slot] : slot \in DOMAIN disk.index \cap 0 .. disk.latest}
                        = blocks[disk.index[disk.latest]].ancestors
    BY DEF IndexIsFinalizedChain
  <2>1. DiskInv /\ disk.latest = emitted
    BY DEF DbInv, DiskInv
  <2>2. \A slot \in DOMAIN disk.index :
          slot \in 0 .. emitted /\ disk.index[slot] \in blocks[disk.index[emitted]].ancestors
    BY <2>1 DEF DiskInv
  <2>3. \A q \in blocks[disk.index[emitted]].ancestors :
          blocks[q].slot \in DOMAIN disk.index /\ disk.index[blocks[q].slot] = q
    BY <2>1 DEF DiskInv
  <2> QED
    BY <2>1, <2>2, <2>3
<1> QED
  BY <1>1, DbInvariance, PTL

\* What the API serves as the finalized state is the state of the finalized block or
\* of an ancestor of it, after any pruning, restart and late finality, and there is
\* one as soon as the database records finality (BeamChain.getFinalizedState).
THEOREM ServedStateCorrect == DbSpec => []ServedStateIsFinal
<1>1. ASSUME DbInv PROVE ServedStateIsFinal
  <2>1. Tree(blocks) /\ StatesInv /\ MemoryInv /\ DiskInv /\ disk.latest = emitted
    BY <1>1 DEF DbInv, DiskInv
  <2>2. /\ finalized.root \in DOMAIN blocks /\ finalized.root # 0
        /\ finalized.root \in blocks[finalized.root].ancestors
        /\ Anchor \in blocks[finalized.root].ancestors
        /\ loaded # 0 => loaded \in blocks[finalized.root].ancestors
    BY <2>1, TreeTypes DEF MemoryInv, Stored, Tree
  <2>3. CASE emitted = 0
    <3>1. loadLatestFinalizedState(disk) = 0
      BY <2>1, <2>3 DEF DiskInv, loadLatestFinalizedState
    <3> QED
      BY <2>1, <2>2, <2>3, <3>1 DEF ServedStateIsFinal, getFinalizedState, Descends
  <2>4. CASE emitted # 0
    <3>1. loadLatestFinalizedState(disk) = Anchor /\ Anchor \in DOMAIN blocks
      BY <2>1, <2>4 DEF DiskInv, loadLatestFinalizedState, Anchor, StatesInv, StateOf
    <3>2. Anchor # 0
      BY <2>1, <3>1, TreeTypes
    <3> QED
      BY <2>2, <3>1, <3>2 DEF ServedStateIsFinal, getFinalizedState, Descends
  <2> QED
    BY <2>3, <2>4
<1> QED
  BY <1>1, DbInvariance, PTL

\* The checkpoints of every stored or working state are blocks of its own
\* history, also of the states loaded from disk (process_attestations).
THEOREM DbCheckpointsCorrect == DbSpec => []CheckpointsOnChain
<1>1. DbInv => CheckpointsOnChain
  BY DEF DbInv, StatesInv, StateOf, GoodState, CheckpointsOnChain, ForAllStates
<1> QED
  BY <1>1, DbInvariance, PTL

\* A block's finalized checkpoint is one of its ancestors and not before that of
\* any ancestor in memory: along a branch finality only moves forward.
THEOREM FinalityCorrect == DbSpec => []FinalityExtendsAncestors
<1>1. ASSUME DbInv PROVE FinalityExtendsAncestors
  <2> SUFFICES ASSUME NEW r \in DOMAIN states, r # 1
               PROVE  /\ states[r].latest_finalized.root \in blocks[r].ancestors
                      /\ \A q \in DOMAIN states \cap blocks[r].ancestors :
                           states[q].latest_finalized.slot <= states[r].latest_finalized.slot
    BY DEF FinalityExtendsAncestors
  <2>1. Tree(blocks) /\ StatesInv /\ GrowthInv
    BY <1>1 DEF DbInv
  <2>2. /\ StateOf(blocks, states[r], r) /\ blocks[r].slot > 0
        /\ r \in DOMAIN disk.states /\ states[r] = disk.states[r]
    BY <2>1 DEF StatesInv
  <2>3. states[r].latest_finalized.root \in blocks[r].ancestors
    BY <2>1, <2>2, FinalizedIsAncestor
  <2>4. ASSUME NEW q \in DOMAIN states \cap blocks[r].ancestors
        PROVE  states[q].latest_finalized.slot <= states[r].latest_finalized.slot
    <3>1. CASE q # 1
      BY <2>1, <2>2, <3>1 DEF StatesInv, GrowthInv, FinalSlot
    <3>2. CASE q = 1
      <4>1. states[1].latest_finalized.slot = 0
        <5>1. StateOf(blocks, states[1], 1)
          BY <2>1, <3>2 DEF StatesInv
        <5>2. Windowed(states[1]) /\ states[1].header.slot = 0
          BY <2>1, <5>1 DEF StateOf, GoodState, Tree
        <5> QED
          BY <5>2 DEF Windowed
      <4>2. states[r].latest_finalized.slot \in Nat
        BY <2>2 DEF StateOf, GoodState, BeamState, Checkpoint
      <4> QED
        BY <3>2, <4>1, <4>2
    <3> QED
      BY <3>1, <3>2
  <2> QED
    BY <2>3, <2>4
<1> QED
  BY <1>1, DbInvariance, PTL

\* A restart, also one between the two batches of an import, resumes at an
\* ancestor of what the dead process held final and loses no finality it had
\* processed (Node.init, processFinalizationAdvancement).
THEOREM RestartCorrect == DbSpec => RestartKeepsFinality
<1>1. ASSUME DbInv, Restart \/ \E root \in DOMAIN post : RestartBetweenBatches(root)
      PROVE  Descends(finalized.root, finalized'.root) /\ finalized'.slot >= emitted
  <2>1. Descends(finalized.root, finalized'.root) /\ finalized'.slot = emitted
    BY <1>1, EveryRestart
  <2>2. emitted \in Nat
    BY <1>1 DEF DbInv, MemoryInv
  <2> QED
    BY <2>1, <2>2
<1>2. DbInv /\ [DbNext]_dbVars
        => [Restart \/ (\E root \in DOMAIN post : RestartBetweenBatches(root)) =>
              Descends(finalized.root, finalized'.root) /\ finalized'.slot >= emitted]_dbVars
  BY <1>1
<1> QED
  BY <1>2, DbInvariance, PTL DEF DbSpec, RestartKeepsFinality
============================================================================
