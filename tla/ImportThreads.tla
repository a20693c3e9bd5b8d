--------------------------- MODULE ImportThreads ---------------------------
(***************************************************************************)
(* The threads of a node that work on its fork choice (BeamChain.onBlock,  *)
(* onBlockFollowup, processFinalizationAdvancement, onInterval,            *)
(* produceBlock; pkgs/node/src/chain.zig). The network bridge thread       *)
(* imports blocks and votes inside its callbacks; the event-loop thread    *)
(* ticks the clock, replays queued blocks and runs the validator duties.   *)
(* Every step below is one section under the fork choice's lock; nothing   *)
(* else orders the two threads.                                            *)
(*                                                                         *)
(* Imported blocks have passed the state transition, which is abstracted   *)
(* to the checkpoints of the post state (see BlockImport for the STF).     *)
(***************************************************************************)
EXTENDS ForkChoice

CONSTANTS Importers,   \* the threads that import blocks, a subset of Threads
          Blocks,      \* the blocks other than the anchor: root and slot
          VoteSlots,   \* slots votes of validators may have
          VoteHeads,   \* roots votes may be for
          Times,       \* intervals the clock is ticked to
          FORKCHOICE_PRUNING_INTERVAL_SLOTS

Threads == {"bridge", "loop"}

ASSUME ThreadsAssumption ==
  /\ Importers \subseteq Threads
  /\ Blocks \subseteq [root : Nat \ {0, 1}, slot : Nat \ {0}]
  /\ VoteSlots \subseteq Nat \ {0}
  /\ VoteHeads \subseteq Nat \ {0}
  /\ Times \subseteq Nat
  /\ FORKCHOICE_PRUNING_INTERVAL_SLOTS \in Nat \ {0}

VARIABLES
  fc,        \* the fork choice
  states,    \* the roots whose post state BeamChain.states holds
  seen,      \* the roots already used for a block
  emitted,   \* slot of BeamChain.last_emitted_finalized
  indexed,   \* the roots in the finalized slot index of the database
  thread     \* what each thread is doing, with the blocks it has read

vars == <<fc, states, seen, emitted, indexed, thread>>

Anchor == [root |-> 1, slot |-> 0]

\* `view`, `final` and `pruned` are the results of a canonicality analysis.
Idle == [pc |-> "idle", block |-> NoBlock, second |-> NoBlock,
         view |-> {}, final |-> {}, pruned |-> {}]

At(t, pc) == thread[t].pc = pc

Goto(t, pc) == thread' = [thread EXCEPT ![t].pc = pc]

Return(t) == thread' = [thread EXCEPT ![t] = Idle]

Hold(t, pc, block) == thread' = [thread EXCEPT ![t] = [Idle EXCEPT !.pc = pc, !.block = block]]

Votes == [validator : Validators, head : VoteHeads, slot : VoteSlots]

Init ==
  /\ fc = ForkChoiceInit(Anchor)
  /\ states = {Anchor.root}
  /\ seen = {Anchor.root}
  /\ emitted = Anchor.slot
  /\ indexed = {}
  /\ thread = [t \in Threads |-> Idle]

----------------------------------------------------------------------------
(* The checkpoints of a post state.                                        *)

\* The block `root` and its ancestors in the array.
Branch(root) ==
  {BlockOf(fc.nodes[i]) : i \in PathToAnchor(fc.nodes, IndexOf(fc.nodes, root))}

\* What the state transition guarantees of a block's justified and finalized
\* checkpoints if they are later than the store's: they are blocks of its own
\* branch, and finalized is before justified. That a finalized block is also on
\* the branch of the latest justified one is the safety of the protocol (fewer
\* than a third of the validators equivocate).
PostJustified(parent) ==
  {fc.justified} \cup {cp \in Branch(parent) : cp.slot > fc.justified.slot}

PostFinalized(parent, justified) ==
  {fc.finalized} \cup {cp \in Branch(parent) \cap Branch(justified.root) :
                        cp.slot > fc.finalized.slot /\ cp.slot < justified.slot}

\* fc.onBlock of a new block by thread t, which goes on at pc. The early checks
\* of onGossip and the lookup of the parent's state have passed.
AddBlock(t, pc, block, parent) ==
  /\ block.root \notin seen
  /\ parent \in states
  /\ onBlockError(fc, parent, block.slot) = "none"
  /\ block.slot > fc.nodes[IndexOf(fc.nodes, parent)].slot
  /\ \E justified \in PostJustified(parent) :
       \E finalized \in PostFinalized(parent, justified) :
         fc' = onBlock(fc, block.root, block.slot, parent, justified, finalized)
  /\ seen' = seen \cup {block.root}
  /\ Hold(t, pc, block)

----------------------------------------------------------------------------
(* BeamChain.onBlock                                                       *)

ImportBlock(t, block, parent) ==
  /\ At(t, "idle")
  /\ AddBlock(t, "added", block, parent)
  /\ UNCHANGED <<states, emitted, indexed>>

\* A vote in the body of the block, applied for one validator.
BlockVote(t, vote) ==
  /\ At(t, "added")
  /\ vote.slot <= timeSlots(fc) + 1
  /\ fc' = onAttestation(fc, vote, TRUE)
  /\ UNCHANGED <<states, seen, emitted, indexed, thread>>

\* updateHead, after which the post state is stored. For a block of this node
\* it is the end of produceBlock: the onBlock of publishBlock finds the block
\* in the fork choice and goes on with the proposer's vote.
UpdateHead(t) ==
  LET u == updateHead(fc)
  IN  /\ At(t, "added") \/ At(t, "produced")
      /\ fc' = u.fc
      /\ IF u.error = "none"
         THEN states' = states \cup {thread[t].block.root} /\ Goto(t, "stored")
         ELSE UNCHANGED states /\ Return(t)
      /\ UNCHANGED <<seen, emitted, indexed>>

\* The proposer's own vote, which need not be for its block.
ProposerVote(t, validator, head) ==
  /\ At(t, "stored")
  /\ fc' = onAttestation(fc, [validator |-> validator, head |-> head,
                              slot |-> thread[t].block.slot], FALSE)
  /\ Goto(t, "confirm")
  /\ UNCHANGED <<states, seen, emitted, indexed>>

\* confirmBlock fails if the block has been removed. The caller goes on with
\* onBlockFollowup; processCachedDescendants does not.
Confirm(t, followup) ==
  /\ At(t, "confirm")
  /\ IF followup /\ IndexOf(fc.nodes, thread[t].block.root) # 0
     THEN Goto(t, "followup") ELSE Return(t)
  /\ UNCHANGED <<fc, states, seen, emitted, indexed>>

\* onBlockFollowup reads the finalized checkpoint, and last_emitted_finalized, which
\* no lock protects ...
Followup(t) ==
  /\ At(t, "followup")
  /\ IF fc.finalized.slot > emitted
     THEN thread' = [thread EXCEPT ![t].pc = "emit", ![t].block = fc.finalized]
     ELSE Return(t)
  /\ UNCHANGED <<fc, states, seen, emitted, indexed>>

\* ... and moves the latter, whatever the other thread has done meanwhile.
Emit(t) ==
  /\ At(t, "emit")
  /\ emitted' = thread[t].block.slot
  /\ Goto(t, "finalize")
  /\ UNCHANGED <<fc, states, seen, indexed>>

----------------------------------------------------------------------------
(* processFinalizationAdvancement                                          *)

\* getCanonicalViewAndAnalysis under the shared lock: the view for the rebase, the
\* blocks that are final now, and the blocks whose states go. It fails if a rebase
\* has removed the finalized block. The number of orphans it logs is an unsigned
\* difference, which underflows when another thread has moved last_emitted_finalized
\* and not rebased yet: a build with overflow checks goes no further than this.
Analyse(t) ==
  LET target == IndexOf(fc.nodes, thread[t].block.root)
  IN  /\ At(t, "finalize")
      /\ IF target = 0 THEN Return(t)
         ELSE thread' = [thread EXCEPT
                ![t].pc = "lookup",
                ![t].view = getCanonicalView(fc.nodes, thread[t].block.root),
                ![t].final = {fc.nodes[i].root : i \in PathToAnchor(fc.nodes, target)},
                ![t].pruned = PrunedRoots(fc.nodes, target, 1)]
      /\ UNCHANGED <<fc, states, seen, emitted, indexed>>

\* Every final block is looked up in the fork choice again, one lock at a time, the
\* anchor last. A rebase in between removes the anchor before any other of them, so
\* the loop fails if and only if its last lookup does.
LookUp(t) ==
  /\ At(t, "lookup")
  /\ IF thread[t].final \subseteq RootsOf(fc.nodes) THEN Goto(t, "commit") ELSE Return(t)
  /\ UNCHANGED <<fc, states, seen, emitted, indexed>>

\* Mutant: only the new finalized block is put into the index.
CommitNewest(t) ==
  /\ At(t, "commit")
  /\ indexed' = indexed \cup {thread[t].block.root}
  /\ states' = states \ thread[t].pruned
  /\ Goto(t, "rebase")
  /\ UNCHANGED <<fc, seen, emitted>>

\* The batch is committed, then the states are pruned.
Commit(t) ==
  /\ At(t, "commit")
  /\ indexed' = indexed \cup thread[t].final
  /\ states' = states \ thread[t].pruned
  /\ Goto(t, "rebase")
  /\ UNCHANGED <<fc, seen, emitted>>

\* rebase with the view computed before. A panic ends the process.
Rebase(t) ==
  LET target == thread[t].block.root
  IN  /\ At(t, "rebase")
      /\ IF IndexOf(fc.nodes, target) = 0 THEN UNCHANGED fc
         ELSE /\ ~RebaseCrashes(fc, target, thread[t].view)
              /\ fc' = rebase(fc, target, thread[t].view)
      /\ Return(t)
      /\ UNCHANGED <<states, seen, emitted, indexed>>

----------------------------------------------------------------------------
(* Votes, clock and block production.                                      *)

\* A gossip vote that passed validation, or a vote of this node.
GossipVote(vote) ==
  /\ \E t \in Threads : At(t, "idle")
  /\ vote.slot <= timeSlots(fc)
  /\ fc' = onAttestation(fc, vote, FALSE)
  /\ UNCHANGED <<states, seen, emitted, indexed, thread>>

LoopIsFree == At("loop", "idle")

\* BeamChain.onInterval on the event loop, which first ticks the fork choice (a
\* time already reached changes nothing there) ...
Interval(time, hasProposal) ==
  LET ticked == onInterval(fc, time, hasProposal)
  IN  /\ LoopIsFree
      /\ fc' = ticked.fc
      /\ IF ticked.error = "none" /\ time % INTERVALS_PER_SLOT = 1
         THEN Hold("loop", "print", [NoBlock EXCEPT !.slot = time \div INTERVALS_PER_SLOT])
         ELSE UNCHANGED thread
      /\ UNCHANGED <<states, seen, emitted, indexed>>

\* ... once a slot updates the head for printSlot, which keeps an error to itself ...
PrintSlot ==
  LET slot == thread["loop"].block.slot
  IN  /\ At("loop", "print")
      /\ fc' = IF slot > 0 THEN updateHead(fc).fc ELSE fc
      /\ IF slot > 0 /\ slot % FORKCHOICE_PRUNING_INTERVAL_SLOTS = 0
         THEN Goto("loop", "pruning") ELSE Return("loop")
      /\ UNCHANGED <<states, seen, emitted, indexed>>

\* ... then from time to time looks whether finality is far behind ...
ReadFinalized ==
  /\ At("loop", "pruning")
  /\ IF fc.finalized.slot + 2 * FORKCHOICE_PRUNING_INTERVAL_SLOTS < thread["loop"].block.slot
     THEN thread' = [thread EXCEPT !["loop"].pc = "depth", !["loop"].second = fc.finalized]
     ELSE Return("loop")
  /\ UNCHANGED <<fc, states, seen, emitted, indexed>>

\* ... takes a block far behind the head for settled ...
ReadPruningAnchor ==
  LET anchor == getCanonicalAncestorAtDepth(fc, FORKCHOICE_PRUNING_INTERVAL_SLOTS)
  IN  /\ At("loop", "depth")
      /\ IF anchor.slot > thread["loop"].second.slot
         THEN thread' = [thread EXCEPT !["loop"].pc = "analyse", !["loop"].block = anchor]
         ELSE Return("loop")
      /\ UNCHANGED <<fc, states, seen, emitted, indexed>>

\* ... finds the blocks before it and beside it, which fails if a rebase has removed
\* one of the two blocks ...
AnalysePruning ==
  LET anchor    == IndexOf(fc.nodes, thread["loop"].block.root)
      finalized == IndexOf(fc.nodes, thread["loop"].second.root)
  IN  /\ At("loop", "analyse")
      /\ IF anchor # 0 /\ finalized \in PathToAnchor(fc.nodes, anchor)
         THEN thread' = [thread EXCEPT !["loop"].pc = "prune",
                                       !["loop"].pruned = PrunedRoots(fc.nodes, anchor, finalized)]
         ELSE Return("loop")
      /\ UNCHANGED <<fc, states, seen, emitted, indexed>>

\* ... and drops their states. Their nodes stay in the array.
PrunePeriodically ==
  /\ At("loop", "prune")
  /\ states' = states \ thread["loop"].pruned
  /\ Return("loop")
  /\ UNCHANGED <<fc, seen, emitted, indexed>>

\* produceBlock: the proposal head is computed in one section ...
StartProposal(t) ==
  LET a == acceptNewAttestations(fc)
  IN  /\ t = "loop" /\ At(t, "idle")
      /\ a.error = "none"
      /\ fc' = a.fc
      /\ Hold(t, "propose", a.fc.head)
      /\ UNCHANGED <<states, seen, emitted, indexed>>

\* ... and the block built on it is added in another, its state before it. The
\* votes in its body are known to the fork choice already.
Propose(t, block) ==
  LET parent == thread[t].block.root
  IN  /\ At(t, "propose")
      /\ block.slot = timeSlots(fc)
      /\ AddBlock(t, "produced", block, parent)
      /\ states' = states \cup {block.root}
      /\ UNCHANGED <<emitted, indexed>>

\* Production fails: the parent's state is gone, its block is refused, or the
\* signatures cannot be aggregated.
AbandonProposal(t) ==
  /\ At(t, "propose")
  /\ Return(t)
  /\ UNCHANGED <<fc, states, seen, emitted, indexed>>

Next ==
  \/ \E t \in Importers, block \in Blocks, parent \in RootsOf(fc.nodes) :
       ImportBlock(t, block, parent)
  \/ \E t \in Importers, vote \in Votes : BlockVote(t, vote)
  \/ \E t \in Importers : UpdateHead(t)
  \/ \E t \in Importers, v \in Validators, head \in VoteHeads : ProposerVote(t, v, head)
  \/ \E t \in Importers, followup \in BOOLEAN : Confirm(t, followup)
  \/ \E t \in Importers : Followup(t) \/ Emit(t)
  \/ \E t \in Importers : Analyse(t) \/ LookUp(t) \/ Commit(t) \/ Rebase(t)
  \/ \E vote \in Votes : GossipVote(vote)
  \/ \E time \in Times, hasProposal \in BOOLEAN : Interval(time, hasProposal)
  \/ PrintSlot \/ ReadFinalized \/ ReadPruningAnchor \/ AnalysePruning \/ PrunePeriodically
  \/ \E t \in Importers : StartProposal(t)
  \/ \E t \in Importers, block \in Blocks : Propose(t, block)
  \/ \E t \in Importers : AbandonProposal(t)

Spec == Init /\ [][Next]_vars

----------------------------------------------------------------------------
(* Properties.                                                             *)

\* A node's weight is the number of validators whose applied vote is in its
\* subtree, at every moment: deltas, insertions and rebase keep the
\* incremental weights exact (computeDeltas, applyDeltas, rebase).
WeightsMatchVotes ==
  \A i \in 1 .. Len(fc.nodes) :
    fc.nodes[i].weight =
      Cardinality({v \in Validators : i \in PathToAnchor(fc.nodes, fc.trackers[v].applied)})

\* GHOST from scratch: from the justified block, repeatedly the child with the
\* most votes in its subtree, the larger root on a tie, as long as it has
\* `cutoff` votes.
Ghost(f, votes, cutoff) ==
  LET n == f.nodes
      support(i) == Cardinality({v \in Validators : i \in PathToAnchor(n, votes[v].index)})
      better(i, j) == \/ support(i) > support(j)
                      \/ support(i) = support(j) /\ n[i].root >= n[j].root
      walk[i \in 1 .. Len(n)] ==
        IF ChildrenOf(n, i) = {} THEN i
        ELSE LET c == CHOOSE c \in ChildrenOf(n, i) :
                        \A d \in ChildrenOf(n, i) : better(c, d)
             IN  IF support(c) >= cutoff THEN walk[c] ELSE i
  IN  BlockOf(n[walk[IndexOf(n, f.justified.root)]])

\* Whatever was computed before (heads, safe targets with another cutoff,
\* rebases), the incremental head and safe-target computation return what
\* GHOST from scratch returns (computeFCHead).
HeadMatchesGhost ==
  LET head == computeFCHead(fc, KnownVotes(fc), 0)
      safe == computeFCHead(fc, NewVotes(fc), SafeTargetCutoff)
  IN  /\ head.error = "none" /\ head.head = Ghost(fc, KnownVotes(fc), 0)
      /\ safe.error = "none" /\ safe.head = Ghost(fc, NewVotes(fc), SafeTargetCutoff)

\* A rebase finds every index it looks up and every delta it removes: none of
\* its panics can happen (rebaseUnlocked).
RebaseNeverCrashes ==
  \A t \in Importers :
    At(t, "rebase") /\ IndexOf(fc.nodes, thread[t].block.root) # 0
      => ~RebaseCrashes(fc, thread[t].block.root, thread[t].view)

\* "the entire subtree of targetAnchorRoot is not affected and is to be
\* preserved as it is": a rebase keeps every block below its target, and
\* nothing else.
SubtreePreserved ==
  [][\A t \in Importers :
       At(t, "rebase") /\ IndexOf(fc.nodes, thread[t].block.root) # 0 /\ Rebase(t)
         => RootsOf(fc'.nodes) =
              {fc.nodes[i].root : i \in Subtree(fc.nodes,
                                    IndexOf(fc.nodes, thread[t].block.root))}]_vars

\* A rebase only drops final blocks the index has: when it starts, every ancestor of
\* its target that is still in the array has been committed, also after a
\* finalization that failed half way or that another thread overtook
\* (processFinalizationAdvancement).
RemovedAreIndexed ==
  \A t \in Importers :
    LET target == IndexOf(fc.nodes, thread[t].block.root)
    IN  At(t, "rebase") /\ target # 0 =>
          {fc.nodes[i].root : i \in PathToAnchor(fc.nodes, target)} \subseteq indexed

\* Periodic pruning never takes a state the chain can still go on from below the
\* block it considers settled, whatever is imported, reorganised or rebased between
\* its four looks at the fork choice (onInterval, getCanonicalityAnalysis).
PruningKeepsSubtree ==
  At("loop", "prune") =>
    LET anchor == IndexOf(fc.nodes, thread["loop"].block.root)
    IN  anchor # 0 =>
          \A i \in Subtree(fc.nodes, anchor) : fc.nodes[i].root \notin thread["loop"].pruned

\* The block `a` is `b` or one of its ancestors.
UpTo(a, b) == /\ IndexOf(fc.nodes, a.root) # 0
              /\ IndexOf(fc.nodes, a.root)
                   \in PathToAnchor(fc.nodes, IndexOf(fc.nodes, b.root))

\* No import is between fc.onBlock, which may move the justified checkpoint, and
\* the updateHead that follows it.
HeadIsCurrent == \A t \in Importers : ~At(t, "added") /\ ~At(t, "produced")

\* The target a validator votes for is between the justified checkpoint and the
\* head on one branch, after any votes, reorganisations, rebases and safe-target
\* updates: "Ensure target is at or after the source (latest_justified)"
\* (getAttestationTarget).
TargetOnHeadBranch ==
  LET target == getAttestationTarget(fc)
  IN  HeadIsCurrent /\ target # NoBlock => UpTo(fc.justified, target) /\ UpTo(target, fc.head)

\* "latestNew is always ahead of latestKnown (and will be non null if
\* latestknown is not null)", which is why acceptNewAttestations may overwrite
\* latestKnown by latestNew without losing a vote.
NewAheadOfKnown ==
  \A v \in Validators :
    fc.trackers[v].known # NoVote =>
      /\ fc.trackers[v].new # NoVote
      /\ fc.trackers[v].new.slot >= fc.trackers[v].known.slot
=============================================================================
