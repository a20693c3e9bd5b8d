----------------------------- MODULE ForkChoice -----------------------------
(***************************************************************************)
(* The fork choice (ForkChoice, pkgs/node/src/forkchoice.zig) as operators *)
(* on a record `f` of its lock-protected fields. Every public method takes *)
(* the lock for its whole duration, so each is one atomic function here;   *)
(* the threads that call them are modelled in ImportThreads.               *)
(*                                                                         *)
(* Fields of f:                                                            *)
(*   nodes      the proto array            deltas   length of the delta list *)
(*   justified, finalized   fcStore's checkpoints                          *)
(*   time       slot_clock.time, in intervals                              *)
(*   trackers   validator -> [applied, known, new]                         *)
(*   head, safeTarget       a block's root and slot                        *)
(*   ready      status = .ready                                            *)
(* A tracker's vote is [index, slot]; NoVote stands for null, whose slot   *)
(* the source also reads as 0.                                             *)
(***************************************************************************)
EXTENDS ProtoArray, JustifiableSlot

CONSTANT Validators     \* the genesis registry

ASSUME ValidatorsAssumption == IsFiniteSet(Validators) /\ Validators # {}

INTERVALS_PER_SLOT == 5

NoVote == [index |-> 0, slot |-> 0]

NoBlock == [root |-> 0, slot |-> 0]

BlockOf(node) == [root |-> node.root, slot |-> node.slot]

timeSlots(f) == f.time \div INTERVALS_PER_SLOT

----------------------------------------------------------------------------
(* Head computation.                                                       *)

\* computeDeltasUnlocked: minus one where a validator's vote was applied
\* before, plus one where it is applied now.
computeDeltas(f, votes) ==
  [i \in 1 .. Len(f.nodes) |->
     Cardinality({v \in Validators : votes[v].index = i})
       - Cardinality({v \in Validators : f.trackers[v].applied = i})]

\* What computeFCHeadUnlocked returns once the weights have moved: the new
\* fields, and the head or "InvalidJustifiedRoot".
HeadAfter(f, votes, nodes, justified) ==
  [fc |-> [f EXCEPT !.nodes = nodes, !.deltas = Len(nodes),
                    !.trackers = [v \in Validators |->
                       [f.trackers[v] EXCEPT !.applied = votes[v].index]]],
   error |-> IF justified = 0 THEN "InvalidJustifiedRoot" ELSE "none",
   head |-> IF justified = 0 THEN NoBlock
            ELSE BlockOf(nodes[IF nodes[justified].bestDescendant # 0
                               THEN nodes[justified].bestDescendant ELSE justified])]

HeadIn(f, votes, nodes) == HeadAfter(f, votes, nodes, IndexOf(nodes, f.justified.root))

\* computeFCHeadUnlocked.
computeFCHead(f, votes, cutoff) ==
  HeadIn(f, votes, applyDeltas(f.nodes, computeDeltas(f, votes), cutoff))

KnownVotes(f) == [v \in Validators |-> f.trackers[v].known]

NewVotes(f) == [v \in Validators |-> f.trackers[v].new]

TakeHead(c) ==
  [fc |-> IF c.error = "none" THEN [c.fc EXCEPT !.head = c.head] ELSE c.fc,
   error |-> c.error]

updateHead(f) == TakeHead(computeFCHead(f, KnownVotes(f), 0))

\* ceil(2 N / 3)
SafeTargetCutoff == (2 * Cardinality(Validators) + 2) \div 3

\* A safe target before the present one is an error.
TakeSafeTarget(c, regresses) ==
  [fc |-> IF c.error = "none" /\ ~regresses THEN [c.fc EXCEPT !.safeTarget = c.head]
          ELSE c.fc,
   error |-> IF regresses THEN "InvalidSafeTargetCompute" ELSE c.error]

CheckSafeTarget(f, c) ==
  TakeSafeTarget(c, c.error = "none" /\ c.head.slot < f.safeTarget.slot)

updateSafeTarget(f) == CheckSafeTarget(f, computeFCHead(f, NewVotes(f), SafeTargetCutoff))

\* acceptNewAttestationsUnlocked (the payload maps it also moves are not part
\* of f).
acceptNewAttestations(f) ==
  updateHead([f EXCEPT !.trackers =
    [v \in Validators |-> [f.trackers[v] EXCEPT !.known = f.trackers[v].new]]])

----------------------------------------------------------------------------
(* The clock.                                                              *)

AtInterval(ticked, interval, hasProposal) ==
  IF interval = 4 \/ (interval = 0 /\ hasProposal) THEN acceptNewAttestations(ticked)
  ELSE IF interval = 3 THEN updateSafeTarget(ticked)
  ELSE [fc |-> ticked, error |-> "none"]

tickInterval(f, hasProposal) ==
  AtInterval([f EXCEPT !.time = @ + 1], (f.time + 1) % INTERVALS_PER_SLOT, hasProposal)

TickUnlessError(prev, hasProposal) ==
  IF prev.error # "none" THEN prev ELSE tickInterval(prev.fc, hasProposal)

\* onIntervalUnlocked catches up interval by interval and stops at the first
\* error; only the last tick may carry the proposal.
onInterval(f, target, hasProposal) ==
  LET reach[t \in f.time .. target] ==
        IF t = f.time THEN [fc |-> f, error |-> "none"]
        ELSE TickUnlessError(reach[t - 1], hasProposal /\ t = target)
  IN  IF target <= f.time THEN [fc |-> f, error |-> "none"] ELSE reach[target]

----------------------------------------------------------------------------
(* Blocks and votes.                                                       *)

\* isFinalizedDescendant: the first ancestor at or before the finalized slot
\* is the finalized block.
isFinalizedDescendant(f, root) ==
  LET path  == PathToAnchor(f.nodes, IndexOf(f.nodes, root))
      older == {i \in path : f.nodes[i].slot <= f.finalized.slot}
  IN  older # {} /\ f.nodes[Max(older)].root = f.finalized.root

onBlockError(f, parentRoot, slot) ==
  IF IndexOf(f.nodes, parentRoot) = 0 THEN "UnknownParent"
  ELSE IF slot * INTERVALS_PER_SLOT > f.time THEN "FutureSlot"
  ELSE IF slot < f.finalized.slot THEN "PreFinalizedSlot"
  ELSE IF ~isFinalizedDescendant(f, parentRoot) THEN "NotFinalizedDescendant"
  ELSE "none"

Later(cp, current) == IF cp.slot > current.slot THEN cp ELSE current

\* onBlockUnlocked when it returns no error: the store takes the later
\* checkpoints of the post state, then the node is added unless present.
onBlock(f, root, slot, parentRoot, justified, finalized) ==
  [f EXCEPT !.justified = Later(justified, @),
            !.finalized = Later(finalized, @),
            !.ready = @ \/ justified.slot > f.justified.slot,
            !.nodes = IF IndexOf(@, root) # 0 THEN @ ELSE Add(@, root, slot, parentRoot)]

\* onAttestationUnlocked. Votes for unknown blocks, and gossip votes for
\* future slots, are errors that change nothing.
AcceptsVote(f, vote, fromBlock) ==
  /\ IndexOf(f.nodes, vote.head) # 0
  /\ fromBlock \/ vote.slot <= timeSlots(f)

UpdatedTracker(f, vote, fromBlock) ==
  LET t    == f.trackers[vote.validator]
      cast == [index |-> IndexOf(f.nodes, vote.head), slot |-> vote.slot]
      laterThanKnown == vote.slot > t.known.slot
      laterThanNew   == vote.slot > t.new.slot
  IN  IF fromBlock
      THEN [t EXCEPT !.known = IF laterThanKnown THEN cast ELSE @,
                     !.new = IF laterThanKnown /\ laterThanNew THEN cast ELSE @]
      ELSE [t EXCEPT !.new = IF laterThanNew THEN cast ELSE @]

onAttestation(f, vote, fromBlock) ==
  IF AcceptsVote(f, vote, fromBlock)
  THEN [f EXCEPT !.trackers[vote.validator] = UpdatedTracker(f, vote, fromBlock)]
  ELSE f

----------------------------------------------------------------------------
(* Rebase.                                                                 *)

MovedVote(kept, vote) ==
  IF NewIndex(kept, vote.index) = 0 THEN NoVote
  ELSE [vote EXCEPT !.index = NewIndex(kept, @)]

\* Removing node i also removes an entry of the delta list, which must exist:
\* the list has its length of the last head computation.
DeltaMissing(f, kept) ==
  \E i \in 1 .. Len(f.nodes) : NewIndex(kept, i) = 0 /\ i > f.deltas

RebaseCrashes(f, targetRoot, view) ==
  LET kept == KeptIndices(f.nodes, targetRoot, view)
  IN  DeltaMissing(f, kept) \/ RebasePanics(f.nodes, targetRoot, kept)

\* Mutant: the applied votes keep their old indices.
rebaseKeepsApplied(f, targetRoot, view) ==
  LET kept == KeptIndices(f.nodes, targetRoot, view)
  IN  [f EXCEPT !.nodes = RebasedNodes(@, targetRoot, kept),
                !.deltas = @ - (Len(f.nodes) - Len(kept)),
                !.trackers = [v \in Validators |->
                   [applied |-> f.trackers[v].applied,
                    known |-> MovedVote(kept, f.trackers[v].known),
                    new |-> MovedVote(kept, f.trackers[v].new)]]]

\* rebaseUnlocked, for a target that is in the array.
rebase(f, targetRoot, view) ==
  LET kept == KeptIndices(f.nodes, targetRoot, view)
  IN  [f EXCEPT !.nodes = RebasedNodes(@, targetRoot, kept),
                !.deltas = @ - (Len(f.nodes) - Len(kept)),
                !.trackers = [v \in Validators |->
                   [applied |-> NewIndex(kept, f.trackers[v].applied),
                    known |-> MovedVote(kept, f.trackers[v].known),
                    new |-> MovedVote(kept, f.trackers[v].new)]]]

----------------------------------------------------------------------------
(* init, and the target of a validator's vote.                             *)

\* ForkChoice.init ends with updateHead on the anchor alone.
ForkChoiceInit(anchor) ==
  [nodes |-> <<NewNode(anchor.root, anchor.slot, 0, 0)>>, deltas |-> 1,
   justified |-> anchor, finalized |-> anchor,
   time |-> anchor.slot * INTERVALS_PER_SLOT,
   trackers |-> [v \in Validators |-> [applied |-> 0, known |-> NoVote, new |-> NoVote]],
   head |-> anchor, safeTarget |-> anchor,
   ready |-> anchor.slot = 0]

\* getCanonicalAncestorAtDepth: so many blocks back from the head, at most to the
\* anchor of the array. NoBlock: the head is not in the array.
getCanonicalAncestorAtDepth(f, depth) ==
  LET start == IndexOf(f.nodes, f.head.root)
      back[d \in 0 .. depth] ==
        IF d = 0 THEN start
        ELSE IF back[d - 1] = 1 THEN 1 ELSE f.nodes[back[d - 1]].parent
  IN  IF start = 0 THEN NoBlock
      ELSE BlockOf(f.nodes[IF start - 1 < depth THEN 1 ELSE back[depth]])

\* Mutant: the target may be before the justified checkpoint.
AnyTarget(f, target) == target

\* A target is not before the source of the vote.
NotBeforeJustified(f, target) == IF target.slot < f.justified.slot THEN f.justified ELSE target

\* getAttestationTargetUnlocked: up to three blocks back while after the safe
\* target, then back to a justifiable slot, and never before the justified
\* checkpoint. NoBlock stands for the errors: the walk leaves the array, or
\* meets a slot before the finalized one.
getAttestationTarget(f) ==
  LET back(i) == IF i # 0 /\ f.nodes[i].slot > f.safeTarget.slot
                 THEN f.nodes[i].parent ELSE i
      start   == IndexOf(f.nodes, f.head.root)
      low     == back(back(back(start)))
      isTarget(i) == \/ f.nodes[i].slot < f.finalized.slot
                     \/ IsJustifiableSlot(f.finalized.slot, f.nodes[i].slot)
      found   == {i \in PathToAnchor(f.nodes, low) : isTarget(i)}
  IN  IF start = 0 \/ low = 0 \/ found = {} THEN NoBlock
      ELSE LET target == f.nodes[Max(found)]
           IN  IF target.slot < f.finalized.slot THEN NoBlock
               ELSE NotBeforeJustified(f, BlockOf(target))
=============================================================================
