---------------------------- MODULE BlockImport ----------------------------
(***************************************************************************)
(* Block import of the chain (BeamChain.onBlock and the finalization part  *)
(* of BeamChain.onBlockFollowup, pkgs/node/src/chain.zig) over a tree of   *)
(* blocks: the state transition runs on a copy of the parent's state, one  *)
(* attestation of the body at a time, against the chain-wide root-to-slot  *)
(* cache; the post state is stored, the fork-choice store's finalized      *)
(* checkpoint advances, and a finalization advance prunes states, cache and*)
(* fork choice. When finality is far behind, onInterval prunes states too. *)
(*                                                                         *)
(* Blocks are numbered in the order they are first imported; the number is *)
(* the block's root and block 1 is genesis. Signatures are valid.          *)
(***************************************************************************)
EXTENDS StateTransition

CONSTANTS MaxBlocks,   \* bound on the number of blocks, genesis included
          Slots,       \* slots a block may have
          BitSets      \* aggregation bits an attestation may carry

ASSUME ImportAssumption ==
  /\ MaxBlocks \in Nat
  /\ Slots \subseteq Nat
  /\ BitSets \subseteq SUBSET Nat

VARIABLES
  blocks,     \* every block: its slot, and its ancestors (itself included)
  states,     \* BeamChain.states: root -> post state
  cache,      \* BeamChain.root_to_slot_cache
  post,       \* the block being imported -> its working state (empty when idle)
  nodes,      \* the blocks of the fork choice's array
  finalized,  \* fcStore.latest_finalized
  emitted     \* slot of BeamChain.last_emitted_finalized

vars == <<blocks, states, cache, post, nodes, finalized, emitted>>

Roots == 1 .. Len(blocks)

Descends(root, ancestor) == ancestor \in blocks[root].ancestors

Extend(f, key, value) ==
  [k \in DOMAIN f \cup {key} |-> IF k = key THEN value ELSE f[k]]

RestrictTo(f, keys) == [k \in DOMAIN f \cap keys |-> f[k]]

\* BeamChain.init from a genesis anchor.
Init ==
  /\ blocks = <<[slot |-> 0, ancestors |-> {1}]>>
  /\ states = [r \in {1} |-> genGenesisState(1)]
  /\ cache = [r \in {1} |-> 0]
  /\ post = << >>
  /\ nodes = {1}
  /\ finalized = [root |-> 1, slot |-> 0]
  /\ emitted = 0

\* onBlock clones the parent's state and processes slots and header.
StartImport(parent, slot) ==
  LET root == Len(blocks) + 1
      pre  == states[parent]
  IN  /\ DOMAIN post = {}
      /\ Len(blocks) < MaxBlocks
      /\ slot > pre.slot
      /\ HeaderError(pre, slot) = "none"
      /\ blocks' = Append(blocks, [slot |-> slot,
                                   ancestors |-> blocks[parent].ancestors \cup {root}])
      /\ post' = [r \in {root} |->
                    process_block_header(process_slots(pre, slot), root, slot)]
      /\ UNCHANGED <<states, cache, nodes, finalized, emitted>>

\* The checkpoints an attestation may name: those of blocks, and the zero one.
KnownCheckpoints ==
  {[root |-> r, slot |-> blocks[r].slot] : r \in Roots}
    \cup {[root |-> ZERO_HASH, slot |-> 0]}

Attestations == [source : KnownCheckpoints, target : KnownCheckpoints, bits : BitSets]

\* One iteration of the loop of process_attestations succeeds.
ImportAttestation(root, a) ==
  /\ AttestationError(post[root], a, DOMAIN cache) = "none"
  /\ post' = [post EXCEPT ![root] = ProcessAttestation(@, a, cache)]
  /\ UNCHANGED <<blocks, states, cache, nodes, finalized, emitted>>

\* It returns an error on some attestation: the working state is freed, the block
\* is not imported.
AbortImport(root) ==
  /\ ~(\A a \in Attestations : AttestationError(post[root], a, DOMAIN cache) = "none")
  /\ post' = << >>
  /\ UNCHANGED <<blocks, states, cache, nodes, finalized, emitted>>

\* ForkChoice.onBlock accepts the block (its parent is a known node).
ForkChoiceAccepts(root) ==
  /\ blocks[root].slot >= finalized.slot
  /\ Descends(root, finalized.root)

\* fcStore.update
UpdatedFinalized(root) ==
  IF post[root].latest_finalized.slot > finalized.slot
  THEN post[root].latest_finalized ELSE finalized

\* processFinalizationAdvancement keeps the states and the nodes of the finalized
\* block and its descendants, and the cache entries after the finalized slot.
CanonicalRoots(cp) == {r \in Roots : Descends(r, cp.root)}

CachePruned(c, slot) == RestrictTo(c, {r \in DOMAIN c : c[r] > slot})

\* The end of onBlock. `followup` says whether the caller runs
\* onBlockFollowup: the gossip, publish and by-root paths do,
\* processCachedDescendants does not.
FinishImport(root, followup) ==
  LET cp       == UpdatedFinalized(root)
      advances == followup /\ cp.slot > emitted
      stored   == Extend(states, root, post[root])
      cached   == Extend(cache, root, blocks[root].slot)
  IN  /\ ForkChoiceAccepts(root)
      /\ finalized' = cp
      /\ emitted' = IF advances THEN cp.slot ELSE emitted
      /\ states' = IF advances THEN RestrictTo(stored, CanonicalRoots(cp)) ELSE stored
      /\ nodes' = IF advances THEN (nodes \cup {root}) \cap CanonicalRoots(cp)
                  ELSE nodes \cup {root}
      /\ cache' = IF advances THEN CachePruned(cached, cp.slot) ELSE cached
      /\ post' = << >>
      /\ UNCHANGED blocks

\* ForkChoice.onBlock refuses the block: only the cache entry, which onBlock
\* adds first, is left behind.
RefuseImport(root) ==
  /\ ~ForkChoiceAccepts(root)
  /\ cache' = Extend(cache, root, blocks[root].slot)
  /\ post' = << >>
  /\ UNCHANGED <<blocks, states, nodes, finalized, emitted>>

\* The blocks some way back from a head, which onInterval takes for settled when
\* they are after the finalized block.
PruningAnchors ==
  {cp \in KnownCheckpoints :
     /\ cp.root \in nodes
     /\ cp.slot > finalized.slot
     /\ Descends(cp.root, finalized.root)
     /\ \E head \in nodes \ {cp.root} : Descends(head, cp.root)}

\* Blocks neither before nor below the finalized one.
SideBlocks ==
  {r \in nodes : ~Descends(r, finalized.root) /\ ~Descends(finalized.root, r)}

\* The periodic pruning of onInterval. From the finalized block on it keeps only the
\* states of the anchor and of what is below it. `older` are side blocks added before
\* the finalized one, which it does not look at. All nodes stay.
PrunePeriodically(anchor, older) ==
  /\ states' = RestrictTo(states, CanonicalRoots(anchor) \cup older
                            \cup {r \in Roots : Descends(finalized.root, r) /\ r # finalized.root})
  /\ UNCHANGED <<blocks, cache, post, nodes, finalized, emitted>>

Next ==
  \/ \E parent \in DOMAIN states, slot \in Slots : StartImport(parent, slot)
  \/ \E root \in DOMAIN post, a \in Attestations : ImportAttestation(root, a)
  \/ \E root \in DOMAIN post : AbortImport(root)
  \/ \E root \in DOMAIN post, followup \in BOOLEAN : FinishImport(root, followup)
  \/ \E root \in DOMAIN post : RefuseImport(root)
  \/ \E anchor \in PruningAnchors, older \in SUBSET SideBlocks :
       PrunePeriodically(anchor, older)

Spec == Init /\ [][Next]_vars

----------------------------------------------------------------------------
(* Properties.                                                             *)

\* Type invariant of the import variables (BeamChain's fields and the
\* working state of onBlock).
TypeOK ==
  /\ blocks \in Seq([slot : Nat, ancestors : SUBSET Nat])
  /\ DOMAIN states \subseteq Roots
  /\ \A r \in DOMAIN states : states[r] \in BeamState
  /\ DOMAIN post \subseteq Roots
  /\ \A r \in DOMAIN post : post[r] \in BeamState
  /\ DOMAIN cache \subseteq Roots
  /\ \A r \in DOMAIN cache : cache[r] \in Nat
  /\ nodes \subseteq Roots
  /\ finalized \in Checkpoint
  /\ emitted \in Nat

ForAllStates(P(_)) ==
  /\ \A r \in DOMAIN states : P(states[r])
  /\ \A r \in DOMAIN post : P(post[r])

\* The history list has one entry per slot before the latest block, and the
\* justified window exactly one entry per slot after the finalized one, so
\* that every index isSlotJustified computes is in range
\* (extendJustifiedSlots, shiftJustifiedSlots).
Windowed(s) ==
  /\ Len(s.historical_block_hashes) = s.header.slot
  /\ IF s.header.slot = 0
     THEN s.latest_finalized.slot = 0 /\ Len(s.justified_slots) = 0
     ELSE Len(s.justified_slots) = s.header.slot - 1 - s.latest_finalized.slot

WindowInv == ForAllStates(Windowed)

\* From the first block on, the justified and finalized checkpoints of a state
\* are blocks of that state's own history, finalized is not after justified,
\* and the justified slot is marked in the window (process_attestations moves
\* the three pieces of state separately).
CheckpointsAnchored(s) ==
  s.header.slot > 0 =>
    /\ s.latest_finalized.slot <= s.latest_justified.slot
    /\ s.latest_justified.slot < s.header.slot
    /\ HistoryAt(s, s.latest_justified.slot) = s.latest_justified.root
    /\ HistoryAt(s, s.latest_finalized.slot) = s.latest_finalized.root
    /\ isSlotJustified(s, s.latest_justified.slot)

CheckpointsOnChain == ForAllStates(CheckpointsAnchored)

\* Votes are only kept for blocks of the state's own history that are after
\* the finalized slot and not yet justified, and never reach two thirds: a
\* target is dropped from the map when it is justified or overtaken by
\* finalization.
PendingVotes(s) ==
  \A p \in s.justifications :
    /\ \E slot \in s.latest_finalized.slot + 1 .. s.header.slot - 1 :
         HistoryAt(s, slot) = p[1] /\ ~isSlotJustified(s, slot)
    /\ 3 * Cardinality(VotesFor(s, p[1])) < 2 * N

PendingVotesInv == ForAllStates(PendingVotes)

\* Along a branch finality only moves forward: a block's finalized checkpoint
\* is one of its own ancestors and not before the finalized checkpoint of any
\* ancestor whose state is still held.
FinalityExtendsAncestors ==
  \A r \in DOMAIN states \ {1} :
    /\ states[r].latest_finalized.root \in blocks[r].ancestors
    /\ \A q \in DOMAIN states \cap blocks[r].ancestors :
         states[q].latest_finalized.slot <= states[r].latest_finalized.slot

\* The errors that would mean the state transition disagrees with itself are
\* unreachable: a header never fails to extend the window, an attestation is
\* never outside it, and finality never moves backwards (u64 underflow).
InternalErrorsUnreachable ==
  /\ \A r \in DOMAIN states, slot \in Slots :
       slot > states[r].header.slot => HeaderError(states[r], slot) = "none"
  /\ \A r \in DOMAIN post, cp \in KnownCheckpoints :
       InHistory(post[r], cp.slot) => ~JustificationIndexError(post[r], cp.slot)
  /\ \A r \in DOMAIN post, a \in Attestations :
       a.source.slot < post[r].latest_finalized.slot
         => AttestationError(post[r], a, DOMAIN cache) # "SlotUnderflow"

\* "Chain.zig maintains the global cache" in sync with the histories of the
\* states: whenever a block is being processed, the root of every target its
\* state holds votes for is cached, so the lookup that process_attestations
\* does when it finalizes cannot refuse the block.
CacheInSync ==
  \A r \in DOMAIN post : \A p \in post[r].justifications : p[1] \in DOMAIN cache
============================================================================
