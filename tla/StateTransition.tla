-------------------------- MODULE StateTransition --------------------------
(***************************************************************************)
(* The lean-consensus state transition function, as operators on beam      *)
(* states: process_slots, process_block_header and one iteration of the    *)
(* loop of process_attestations (pkgs/types/src/state.zig), with the       *)
(* justified-slots bitfield helpers of pkgs/types/src/utils.zig.           *)
(*                                                                         *)
(* A root is a natural number; ZERO_HASH is 0 and hashing is injective, so *)
(* a block's root is the number it was given when it was created.          *)
(* Lists are sequences, so the source's index i is index i + 1 here.       *)
(* `justifications` is the relation "validator v voted for target root r": *)
(* the source keeps the same relation as a sorted list of roots and one    *)
(* flat bit list; module JustificationCodec models that conversion.        *)
(***************************************************************************)
EXTENDS JustifiableSlot, Sequences, FiniteSets

CONSTANT N          \* number of validators of the genesis registry

ASSUME NAssumption == N \in Nat \ {0}

Validators == 0 .. N - 1

ZERO_HASH == 0

Checkpoint == [root : Nat, slot : Nat]

BeamState ==
  [slot             : Nat,
   header           : Checkpoint,       \* latest_block_header: its root and slot
   latest_justified : Checkpoint,
   latest_finalized : Checkpoint,
   historical_block_hashes : Seq(Nat),
   justified_slots  : Seq({0, 1}),
   justifications   : SUBSET (Nat \X Validators)]

\* The state of an empty chain whose genesis block has root `root`.
genGenesisState(root) ==
  [slot |-> 0,
   header |-> [root |-> root, slot |-> 0],
   latest_justified |-> [root |-> ZERO_HASH, slot |-> 0],
   latest_finalized |-> [root |-> ZERO_HASH, slot |-> 0],
   historical_block_hashes |-> << >>,
   justified_slots |-> << >>,
   justifications |-> {}]

----------------------------------------------------------------------------
(* The justified-slots window.                                             *)

\* Index of a slot in justified_slots (the first window entry is the slot
\* after the finalized one).
getJustifiedSlotsIndex(finalizedSlot, slot) == slot - finalizedSlot

\* isSlotJustified fails with InvalidJustificationIndex outside the window.
JustificationIndexError(s, slot) ==
  /\ slot > s.latest_finalized.slot
  /\ getJustifiedSlotsIndex(s.latest_finalized.slot, slot) > Len(s.justified_slots)

isSlotJustified(s, slot) ==
  \/ slot <= s.latest_finalized.slot
  \/ s.justified_slots[getJustifiedSlotsIndex(s.latest_finalized.slot, slot)] = 1

\* Mutant: the index is one too low.
setSlotJustifiedOffByOne(s, slot) ==
  IF slot <= s.latest_finalized.slot
  THEN s.justified_slots
  ELSE [s.justified_slots EXCEPT
          ![getJustifiedSlotsIndex(s.latest_finalized.slot, slot) - 1] = 1]

\* The window after marking `slot`, which is a no-op at or before the
\* finalized slot.
setSlotJustified(s, slot) ==
  IF slot <= s.latest_finalized.slot
  THEN s.justified_slots
  ELSE [s.justified_slots EXCEPT
          ![getJustifiedSlotsIndex(s.latest_finalized.slot, slot)] = 1]

\* Number of window entries needed to reach targetSlot.
RequiredCapacity(s, targetSlot) == targetSlot - s.latest_finalized.slot

ExtendError(s, targetSlot) ==
  IF targetSlot < s.latest_finalized.slot THEN "InvalidJustificationTargetSlot"
  ELSE IF /\ targetSlot # s.latest_finalized.slot
          /\ RequiredCapacity(s, targetSlot) <= Len(s.justified_slots)
    THEN "InvalidJustificationCapacity"
  ELSE "none"

\* Mutant: the window ends one slot before the target.
ExtendOffByOne(s, targetSlot) ==
  IF targetSlot = s.latest_finalized.slot
  THEN s.justified_slots
  ELSE [i \in 1 .. RequiredCapacity(s, targetSlot) - 1 |->
          IF i <= Len(s.justified_slots) THEN s.justified_slots[i] ELSE 0]

extendJustifiedSlots(s, targetSlot) ==
  IF targetSlot = s.latest_finalized.slot
  THEN s.justified_slots
  ELSE [i \in 1 .. RequiredCapacity(s, targetSlot) |->
          IF i <= Len(s.justified_slots) THEN s.justified_slots[i] ELSE 0]

shiftJustifiedSlots(s, delta) ==
  IF delta >= Len(s.justified_slots)
  THEN << >>
  ELSE [i \in 1 .. Len(s.justified_slots) - delta |-> s.justified_slots[i + delta]]

----------------------------------------------------------------------------
(* Slots and the block header.                                             *)

\* process_slots advances the state to the block's slot; the state root it
\* stores in the header completes the header whose root `header` stands for.
process_slots(s, slot) == [s EXCEPT !.slot = slot]

\* The parent's root, then ZERO_HASH for every slot without a block.
AppendHistory(s, slot) ==
  LET len    == Len(s.historical_block_hashes)
      missed == slot - s.header.slot - 1
  IN  [i \in 1 .. len + 1 + missed |->
         IF i <= len THEN s.historical_block_hashes[i]
         ELSE IF i = len + 1 THEN s.header.root ELSE ZERO_HASH]

\* The header checks that depend on the state: everything else (proposer,
\* parent root) is decided by the block alone.
HeaderError(s, slot) ==
  IF slot <= s.header.slot THEN "InvalidLatestBlockHeader"
  ELSE ExtendError(s, slot - 1)

process_block_header(s, root, slot) ==
  LET firstBlock == s.header.slot = 0
      anchored(cp) == IF firstBlock THEN [cp EXCEPT !.root = s.header.root] ELSE cp
  IN  [s EXCEPT
         !.header = [root |-> root, slot |-> slot],
         !.latest_justified = anchored(@),
         !.latest_finalized = anchored(@),
         !.historical_block_hashes = AppendHistory(s, slot),
         !.justified_slots = extendJustifiedSlots(s, slot - 1)]

----------------------------------------------------------------------------
(* One aggregated attestation of the block body:                           *)
(*   [source : Checkpoint, target : Checkpoint, bits : a set of indices].  *)

HistoryAt(s, slot) == s.historical_block_hashes[slot + 1]

InHistory(s, slot) == slot < Len(s.historical_block_hashes)

ZeroRoot(a) == a.source.root = ZERO_HASH \/ a.target.root = ZERO_HASH

\* Mutant: the source is not compared with the history.
ViableAnySource(s, a) ==
  /\ isSlotJustified(s, a.source.slot)
  /\ ~isSlotJustified(s, a.target.slot)
  /\ a.target.root = HistoryAt(s, a.target.slot)
  /\ a.source.slot < a.target.slot
  /\ IsJustifiableSlot(s.latest_finalized.slot, a.target.slot)

\* The conjunction whose negation makes the loop `continue`.
Viable(s, a) ==
  /\ isSlotJustified(s, a.source.slot)
  /\ ~isSlotJustified(s, a.target.slot)
  /\ a.source.root = HistoryAt(s, a.source.slot)
  /\ a.target.root = HistoryAt(s, a.target.slot)
  /\ a.source.slot < a.target.slot
  /\ IsJustifiableSlot(s.latest_finalized.slot, a.target.slot)

\* Some set bit is not an index of the registry.
UnknownValidator(a) == \E v \in a.bits : v >= N

VotesFor(s, root) == {v \in Validators : <<root, v>> \in s.justifications}

CountedVotes(s, a) == VotesFor(s, a.target.root) \cup a.bits

ReachesThreshold(s, a) == 3 * Cardinality(CountedVotes(s, a)) >= 2 * N

\* can_target_finalize: no slot strictly between source and target could
\* have been justified.
CanFinalize(s, a) ==
  \A slot \in a.source.slot + 1 .. a.target.slot - 1 :
    ~IsJustifiableSlot(s.latest_finalized.slot, slot)

\* The votes left after the target is justified and removed from the map.
WithoutTarget(s, a) == {p \in s.justifications : p[1] # a.target.root}

\* The first error the loop body returns on this attestation, in its order,
\* or "none". `cached` is the set of roots the root-to-slot cache holds.
AttestationError(s, a, cached) ==
  IF a.bits = {} THEN "none"
  ELSE IF ~InHistory(s, a.source.slot) \/ ~InHistory(s, a.target.slot)
    THEN "InvalidSlotIndex"
  ELSE IF JustificationIndexError(s, a.source.slot) \/ JustificationIndexError(s, a.target.slot)
    THEN "InvalidJustificationIndex"
  ELSE IF ZeroRoot(a) THEN "none"
  ELSE IF a.target.slot < s.latest_finalized.slot THEN "InvalidJustifiableSlot"
  ELSE IF ~Viable(s, a) THEN "none"
  ELSE IF UnknownValidator(a) THEN "InvalidValidatorId"
  ELSE IF ~ReachesThreshold(s, a) THEN "none"
  \* the first slot the finalization loop looks at is before the finalized one
  ELSE IF a.source.slot + 1 < s.latest_finalized.slot THEN "InvalidJustifiableSlot"
  ELSE IF ~CanFinalize(s, a) THEN "none"
  ELSE IF a.source.slot < s.latest_finalized.slot THEN "SlotUnderflow"
  ELSE IF /\ a.source.slot > s.latest_finalized.slot
          /\ \E p \in WithoutTarget(s, a) : p[1] \notin cached
    THEN "InvalidJustificationRoot"
  ELSE "none"

\* The attestation is counted: its bits are set for the target root.
RecordVotes(s, a) ==
  [s EXCEPT !.justifications = @ \cup ({a.target.root} \X a.bits)]

Justify(s, a) ==
  [s EXCEPT !.latest_justified = a.target,
            !.justified_slots = setSlotJustified(s, a.target.slot),
            !.justifications = WithoutTarget(s, a)]

\* Mutant: votes for targets finality has overtaken stay.
FinalizeKeepsVotes(s, a, slotOf) ==
  [s EXCEPT !.latest_finalized = a.source,
            !.justified_slots = shiftJustifiedSlots(s, a.source.slot - s.latest_finalized.slot)]

\* The source becomes finalized: the window shifts and the votes for targets
\* at or before it are dropped. slotOf is the root-to-slot cache.
Finalize(s, a, slotOf) ==
  LET delta == a.source.slot - s.latest_finalized.slot
  IN  IF delta = 0
      THEN [s EXCEPT !.latest_finalized = a.source]
      ELSE [s EXCEPT !.latest_finalized = a.source,
                     !.justified_slots = shiftJustifiedSlots(s, delta),
                     !.justifications = {p \in @ : slotOf[p[1]] > a.source.slot}]

ProcessAttestation(s, a, slotOf) ==
  IF a.bits = {} \/ ZeroRoot(a) \/ ~Viable(s, a) THEN s
  ELSE IF ~ReachesThreshold(s, a) THEN RecordVotes(s, a)
  ELSE IF ~CanFinalize(s, a) THEN Justify(s, a)
  ELSE Finalize(Justify(s, a), a, slotOf)
============================================================================
