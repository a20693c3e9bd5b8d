------------------------- MODULE BlockImportProofs -------------------------
(***************************************************************************)
(* Proofs about BlockImport: for any number of validators, blocks and      *)
(* slots, every state the chain stores or is computing is well formed.     *)
(***************************************************************************)
EXTENDS BlockImport, SequenceTheorems, TLAPS

\* A function on an initial segment of the naturals is a sequence.
LEMMA FunctionIsSeq ==
  ASSUME NEW S, NEW n \in Nat, NEW f \in [1 .. n -> S]
  PROVE  f \in Seq(S) /\ Len(f) = n
<1>1. f \in Seq(S)
  BY SeqDef
<1>2. DOMAIN f = 1 .. n /\ DOMAIN f = 1 .. Len(f) /\ Len(f) \in Nat
  BY <1>1, LenProperties
<1> QED
  BY <1>1, <1>2

\* What every state satisfies: its type, the length of its two lists, and its
\* checkpoints being blocks of its own history. The last conjunct is what
\* makes the others inductive at the first block after genesis.
GoodState(s) ==
  /\ s \in BeamState
  /\ Windowed(s)
  /\ CheckpointsAnchored(s)
  /\ s.header.slot = 0 => s.latest_justified.slot = 0

----------------------------------------------------------------------------
(* process_block_header                                                    *)

\* A well-formed state can process a header of any later slot: the window
\* always grows (extendJustifiedSlots returns no error).
LEMMA HeaderNeverFails ==
  ASSUME NEW s, GoodState(s), NEW slot \in Nat, slot > s.header.slot
  PROVE  HeaderError(s, slot) = "none"
<1>1. /\ s.header.slot \in Nat /\ s.latest_finalized.slot \in Nat
      /\ s.latest_justified.slot \in Nat
  BY DEF GoodState, BeamState, Checkpoint
<1>2. CASE s.header.slot = 0
  BY <1>1, <1>2 DEF GoodState, Windowed, HeaderError, ExtendError, RequiredCapacity
<1>3. CASE s.header.slot # 0
  <2>1. /\ s.latest_finalized.slot < s.header.slot
        /\ Len(s.justified_slots) = s.header.slot - 1 - s.latest_finalized.slot
    <3>1. Windowed(s) /\ CheckpointsAnchored(s)
      BY DEF GoodState
    <3>2. s.header.slot > 0
      BY <1>1, <1>3
    <3>3. s.latest_finalized.slot < s.header.slot
      BY <1>1, <3>1, <3>2 DEF CheckpointsAnchored
    <3> QED
      BY <1>3, <3>1, <3>3 DEF Windowed
  <2> QED
    BY <1>1, <2>1 DEF HeaderError, ExtendError, RequiredCapacity
<1> QED
  BY <1>2, <1>3

\* The history after the header: its length, and what it keeps and adds.
LEMMA AppendHistoryProperties ==
  ASSUME NEW s, GoodState(s), NEW slot \in Nat, slot > s.header.slot
  PROVE  LET h == AppendHistory(s, slot)
         IN  /\ h \in Seq(Nat)
             /\ Len(h) = slot
             /\ h[s.header.slot + 1] = s.header.root
             /\ \A i \in 1 .. s.header.slot : h[i] = s.historical_block_hashes[i]
<1> DEFINE h == AppendHistory(s, slot)
<1>1. /\ s.header.slot \in Nat /\ s.header.root \in Nat
      /\ s.historical_block_hashes \in Seq(Nat)
      /\ Len(s.historical_block_hashes) = s.header.slot
  BY DEF GoodState, BeamState, Checkpoint, Windowed
<1>2. h = [i \in 1 .. slot |->
             IF i <= s.header.slot THEN s.historical_block_hashes[i]
             ELSE IF i = s.header.slot + 1 THEN s.header.root ELSE 0]
  BY <1>1 DEF AppendHistory, ZERO_HASH
<1>3. \A i \in 1 .. s.header.slot : s.historical_block_hashes[i] \in Nat
  BY <1>1, ElementOfSeq
<1>4. h \in [1 .. slot -> Nat]
  BY <1>1, <1>2, <1>3
<1>5. h \in Seq(Nat) /\ Len(h) = slot
  BY <1>4, FunctionIsSeq
<1>6. h[s.header.slot + 1] = s.header.root
  BY <1>1, <1>2
<1>7. \A i \in 1 .. s.header.slot : h[i] = s.historical_block_hashes[i]
  BY <1>1, <1>2
<1> QED
  BY <1>5, <1>6, <1>7

\* The window after the header.
LEMMA ExtendProperties ==
  ASSUME NEW s, GoodState(s), NEW slot \in Nat, slot > s.header.slot
  PROVE  LET w == extendJustifiedSlots(s, slot - 1)
         IN  /\ w \in Seq({0, 1})
             /\ Len(w) = slot - 1 - s.latest_finalized.slot
             /\ Len(s.justified_slots) <= Len(w)
             /\ \A i \in 1 .. Len(s.justified_slots) : w[i] = s.justified_slots[i]
<1> DEFINE w == extendJustifiedSlots(s, slot - 1)
           n == slot - 1 - s.latest_finalized.slot
<1>1. /\ s.header.slot \in Nat /\ s.latest_finalized.slot \in Nat
      /\ s.latest_justified.slot \in Nat
      /\ s.justified_slots \in Seq({0, 1})
  BY DEF GoodState, BeamState, Checkpoint
<1>2. Len(s.justified_slots) \in Nat
  BY <1>1, LenProperties
<1>3. n \in Nat /\ Len(s.justified_slots) <= n
  <2>1. CASE s.header.slot = 0
    BY <1>1, <2>1 DEF GoodState, Windowed
  <2>2. CASE s.header.slot # 0
    <3>1. Windowed(s) /\ CheckpointsAnchored(s)
      BY DEF GoodState
    <3>2. s.header.slot > 0
      BY <1>1, <2>2
    <3>3. s.latest_finalized.slot < s.header.slot
      BY <1>1, <3>1, <3>2 DEF CheckpointsAnchored
    <3>4. Len(s.justified_slots) = s.header.slot - 1 - s.latest_finalized.slot
      BY <2>2, <3>1 DEF Windowed
    <3> QED
      BY <1>1, <3>3, <3>4, SMTT(30)
  <2> QED
    BY <2>1, <2>2
<1>4. \A i \in 1 .. Len(s.justified_slots) : s.justified_slots[i] \in {0, 1}
  BY <1>1, ElementOfSeq
<1>5. CASE slot - 1 = s.latest_finalized.slot
  <2>1. w = s.justified_slots /\ n = 0
    BY <1>1, <1>5 DEF extendJustifiedSlots
  <2> QED
    BY <1>1, <1>2, <1>3, <2>1
<1>6. CASE slot - 1 # s.latest_finalized.slot
  <2>1. w = [i \in 1 .. n |-> IF i <= Len(s.justified_slots)
                              THEN s.justified_slots[i] ELSE 0]
    BY <1>1, <1>6 DEF extendJustifiedSlots, RequiredCapacity
  <2>2. w \in [1 .. n -> {0, 1}]
    BY <1>2, <1>3, <1>4, <2>1
  <2>3. w \in Seq({0, 1}) /\ Len(w) = n
    BY <1>3, <2>2, FunctionIsSeq
  <2>4. \A i \in 1 .. Len(s.justified_slots) : w[i] = s.justified_slots[i]
    BY <1>2, <1>3, <2>1
  <2> QED
    BY <1>3, <2>3, <2>4
<1> QED
  BY <1>5, <1>6

\* Processing the header of a later slot keeps a state well formed.
LEMMA HeaderPreservesGood ==
  ASSUME NEW s, GoodState(s), NEW slot \in Nat, slot > s.header.slot, NEW root \in Nat
  PROVE  LET t == process_block_header(process_slots(s, slot), root, slot)
         IN  GoodState(t) /\ t.header.slot = slot
<1> DEFINE s0 == process_slots(s, slot)
           t  == process_block_header(s0, root, slot)
           hdr == [root |-> root, slot |-> slot]
           anchored(cp) == IF s.header.slot = 0 THEN [cp EXCEPT !.root = s.header.root] ELSE cp
<1>1. /\ s \in BeamState
      /\ s.header \in Checkpoint /\ s.latest_finalized \in Checkpoint
      /\ s.latest_justified \in Checkpoint
      /\ s.header.slot \in Nat /\ s.header.root \in Nat
      /\ s.latest_finalized.slot \in Nat /\ s.latest_justified.slot \in Nat
      /\ s.justified_slots \in Seq({0, 1}) /\ Len(s.justified_slots) \in Nat
  BY LenProperties DEF GoodState, BeamState, Checkpoint
<1>2. AppendHistory(s0, slot) = AppendHistory(s, slot)
  BY <1>1 DEF AppendHistory, process_slots, BeamState
<1>3. extendJustifiedSlots(s0, slot - 1) = extendJustifiedSlots(s, slot - 1)
  BY <1>1 DEF extendJustifiedSlots, RequiredCapacity, process_slots, BeamState
<1>4. t = [s EXCEPT !.slot = slot, !.header = hdr,
                    !.latest_justified = anchored(s.latest_justified),
                    !.latest_finalized = anchored(s.latest_finalized),
                    !.historical_block_hashes = AppendHistory(s, slot),
                    !.justified_slots = extendJustifiedSlots(s, slot - 1)]
  BY <1>1, <1>2, <1>3 DEF process_block_header, process_slots, BeamState
<1>5. /\ anchored(s.latest_justified) \in Checkpoint
      /\ anchored(s.latest_finalized) \in Checkpoint
      /\ anchored(s.latest_justified).slot = s.latest_justified.slot
      /\ anchored(s.latest_finalized).slot = s.latest_finalized.slot
  BY <1>1 DEF Checkpoint
<1>6. /\ t.slot = slot /\ t.header = hdr
      /\ t.latest_justified = anchored(s.latest_justified)
      /\ t.latest_finalized = anchored(s.latest_finalized)
      /\ t.historical_block_hashes = AppendHistory(s, slot)
      /\ t.justified_slots = extendJustifiedSlots(s, slot - 1)
      /\ t.justifications = s.justifications
  BY <1>1, <1>4 DEF BeamState
<1>7. t \in BeamState
  <2>1. hdr \in Checkpoint
    BY DEF Checkpoint
  <2>2. AppendHistory(s, slot) \in Seq(Nat) /\ extendJustifiedSlots(s, slot - 1) \in Seq({0, 1})
    BY AppendHistoryProperties, ExtendProperties
  <2>3. s \in BeamState
    BY <1>1
  <2> DEFINE lj == anchored(s.latest_justified)
             lf == anchored(s.latest_finalized)
             hs == AppendHistory(s, slot)
             js == extendJustifiedSlots(s, slot - 1)
  <2>4. t = [s EXCEPT !.slot = slot, !.header = hdr, !.latest_justified = lj,
                      !.latest_finalized = lf, !.historical_block_hashes = hs,
                      !.justified_slots = js]
    BY <1>4
  <2>5. hs \in Seq(Nat) /\ js \in Seq({0, 1}) /\ lj \in Checkpoint /\ lf \in Checkpoint
    BY <1>5, <2>2
  <2> HIDE DEF t, s0, hdr, anchored, lj, lf, hs, js
  <2> QED
    BY <2>1, <2>3, <2>4, <2>5 DEF BeamState
<1>8. Windowed(t)
  BY <1>1, <1>5, <1>6, AppendHistoryProperties, ExtendProperties DEF Windowed
<1>9. CheckpointsAnchored(t)
  <2>1. CASE s.header.slot = 0
    <3>1. s.latest_justified.slot = 0 /\ s.latest_finalized.slot = 0
      BY <2>1 DEF GoodState, Windowed
    <3>2. t.latest_justified.root = s.header.root /\ t.latest_finalized.root = s.header.root
      BY <1>1, <1>6, <2>1 DEF Checkpoint
    <3>3. t.historical_block_hashes[1] = s.header.root
      BY <1>6, <2>1, AppendHistoryProperties
    <3> QED
      BY <1>5, <1>6, <2>1, <3>1, <3>2, <3>3
      DEF CheckpointsAnchored, HistoryAt, isSlotJustified
  <2>2. CASE s.header.slot # 0
    <3>1. t.latest_justified = s.latest_justified /\ t.latest_finalized = s.latest_finalized
      BY <1>6, <2>2
    <3>2. /\ s.latest_finalized.slot <= s.latest_justified.slot
          /\ s.latest_justified.slot < s.header.slot
          /\ s.historical_block_hashes[s.latest_justified.slot + 1] = s.latest_justified.root
          /\ s.historical_block_hashes[s.latest_finalized.slot + 1] = s.latest_finalized.root
          /\ isSlotJustified(s, s.latest_justified.slot)
      BY <1>1, <2>2 DEF GoodState, CheckpointsAnchored, HistoryAt
    <3>3. /\ t.historical_block_hashes[s.latest_justified.slot + 1] = s.latest_justified.root
          /\ t.historical_block_hashes[s.latest_finalized.slot + 1] = s.latest_finalized.root
      <4>1. \A i \in 1 .. s.header.slot :
              t.historical_block_hashes[i] = s.historical_block_hashes[i]
        BY <1>6, AppendHistoryProperties
      <4>2. /\ s.latest_justified.slot + 1 \in 1 .. s.header.slot
            /\ s.latest_finalized.slot + 1 \in 1 .. s.header.slot
        BY <1>1, <3>2
      <4> QED
        BY <3>2, <4>1, <4>2
    <3>4. isSlotJustified(t, s.latest_justified.slot)
      <4> DEFINE i == s.latest_justified.slot - s.latest_finalized.slot
      <4>1. CASE s.latest_justified.slot <= s.latest_finalized.slot
        BY <3>1, <4>1 DEF isSlotJustified
      <4>2. CASE s.latest_justified.slot > s.latest_finalized.slot
        <5>0. Len(s.justified_slots) = s.header.slot - 1 - s.latest_finalized.slot
          BY <2>2 DEF GoodState, Windowed
        <5>1. /\ s.justified_slots[i] = 1
              /\ i \in 1 .. Len(s.justified_slots)
          <6>1. s.justified_slots[i] = 1
            BY <1>1, <3>2, <4>2 DEF isSlotJustified, getJustifiedSlotsIndex
          <6>2. i \in 1 .. Len(s.justified_slots)
            BY <1>1, <3>2, <4>2, <5>0, SMTT(30)
          <6> QED
            BY <6>1, <6>2
        <5>2. t.justified_slots[i] = 1
          BY <1>6, <5>1, ExtendProperties
        <5> QED
          BY <3>1, <5>2 DEF isSlotJustified, getJustifiedSlotsIndex
      <4> QED
        BY <1>1, <4>1, <4>2
    <3> QED
      BY <1>1, <1>6, <3>1, <3>2, <3>3, <3>4 DEF CheckpointsAnchored, HistoryAt
  <2> QED
    BY <2>1, <2>2
<1> QED
  BY <1>1, <1>6, <1>7, <1>8, <1>9 DEF GoodState

----------------------------------------------------------------------------
(* process_attestations                                                    *)

\* What is known once an attestation has passed the checks of the loop body.
LEMMA CheckedAttestation ==
  ASSUME NEW s, GoodState(s), s.header.slot > 0,
         NEW a \in [source : Checkpoint, target : Checkpoint, bits : SUBSET Nat],
         NEW cached, AttestationError(s, a, cached) = "none",
         a.bits # {}, ~ZeroRoot(a), Viable(s, a)
  PROVE  /\ s.latest_finalized.slot < a.target.slot
         /\ a.source.slot < a.target.slot
         /\ a.target.slot < s.header.slot
         /\ HistoryAt(s, a.source.slot) = a.source.root
         /\ HistoryAt(s, a.target.slot) = a.target.root
         /\ a.bits \subseteq Validators
         /\ ReachesThreshold(s, a) /\ CanFinalize(s, a)
              => s.latest_finalized.slot <= a.source.slot
<1>1. /\ s.header.slot \in Nat /\ s.latest_finalized.slot \in Nat
      /\ a.source.slot \in Nat /\ a.target.slot \in Nat
      /\ Len(s.historical_block_hashes) = s.header.slot
  BY DEF GoodState, BeamState, Checkpoint, Windowed
<1>2. InHistory(s, a.source.slot) /\ InHistory(s, a.target.slot)
  BY DEF AttestationError
<1>3. /\ ~isSlotJustified(s, a.target.slot)
      /\ a.source.root = HistoryAt(s, a.source.slot)
      /\ a.target.root = HistoryAt(s, a.target.slot)
      /\ a.source.slot < a.target.slot
  BY DEF Viable
<1>4. s.latest_finalized.slot < a.target.slot
  BY <1>1, <1>3 DEF isSlotJustified
<1>5. a.bits \subseteq Validators
  <2>1. ~UnknownValidator(a)
    BY <1>1, <1>2, <1>4 DEF AttestationError
  <2> QED
    BY <2>1, NAssumption DEF UnknownValidator, Validators
<1>6. ASSUME ReachesThreshold(s, a), CanFinalize(s, a)
      PROVE  s.latest_finalized.slot <= a.source.slot
  BY <1>1, <1>2, <1>4, <1>6 DEF AttestationError
<1> QED
  BY <1>1, <1>2, <1>3, <1>4, <1>5, <1>6 DEF InHistory

\* Counting votes that do not reach two thirds touches no other field.
LEMMA RecordPreservesGood ==
  ASSUME NEW s, GoodState(s),
         NEW a \in [source : Checkpoint, target : Checkpoint, bits : SUBSET Nat],
         a.bits \subseteq Validators
  PROVE  GoodState(RecordVotes(s, a)) /\ RecordVotes(s, a).header = s.header
<1> DEFINE t == RecordVotes(s, a)
<1>1. s \in BeamState /\ a.target.root \in Nat
  BY DEF GoodState, Checkpoint
<1>2. s.justifications \cup ({a.target.root} \X a.bits) \in SUBSET (Nat \X Validators)
  BY <1>1 DEF BeamState
<1>3. /\ t \in BeamState
      /\ t.header = s.header /\ t.latest_finalized = s.latest_finalized
      /\ t.latest_justified = s.latest_justified
      /\ t.historical_block_hashes = s.historical_block_hashes
      /\ t.justified_slots = s.justified_slots
  BY <1>1, <1>2 DEF RecordVotes, BeamState
<1> QED
  BY <1>3 DEF GoodState, Windowed, CheckpointsAnchored, HistoryAt, isSlotJustified

\* Justifying the target of a checked attestation.
LEMMA JustifyPreservesGood ==
  ASSUME NEW s, GoodState(s), s.header.slot > 0,
         NEW a \in [source : Checkpoint, target : Checkpoint, bits : SUBSET Nat],
         s.latest_finalized.slot < a.target.slot,
         a.target.slot < s.header.slot,
         HistoryAt(s, a.target.slot) = a.target.root
  PROVE  LET t == Justify(s, a)
         IN  /\ GoodState(t)
             /\ t.header = s.header /\ t.latest_finalized = s.latest_finalized
             /\ t.latest_justified = a.target
             /\ t.historical_block_hashes = s.historical_block_hashes
<1> DEFINE t == Justify(s, a)
           i == a.target.slot - s.latest_finalized.slot
           w == setSlotJustified(s, a.target.slot)
<1>1. /\ s \in BeamState /\ a.target \in Checkpoint
      /\ s.header.slot \in Nat /\ s.latest_finalized.slot \in Nat
      /\ a.target.slot \in Nat /\ s.justified_slots \in Seq({0, 1})
  BY DEF GoodState, BeamState, Checkpoint
<1>2. Len(s.justified_slots) = s.header.slot - 1 - s.latest_finalized.slot
  BY <1>1 DEF GoodState, Windowed
<1>3. i \in 1 .. Len(s.justified_slots)
  BY <1>1, <1>2
<1>4. w = [s.justified_slots EXCEPT ![i] = 1]
  BY <1>1 DEF setSlotJustified, getJustifiedSlotsIndex
<1>5. w \in Seq({0, 1}) /\ Len(w) = Len(s.justified_slots) /\ w[i] = 1
  BY <1>1, <1>3, <1>4, ExceptSeq
<1>6. WithoutTarget(s, a) \in SUBSET (Nat \X Validators)
  BY <1>1 DEF WithoutTarget, BeamState
<1>7. /\ t \in BeamState
      /\ t.header = s.header /\ t.latest_finalized = s.latest_finalized
      /\ t.latest_justified = a.target
      /\ t.historical_block_hashes = s.historical_block_hashes
      /\ t.justified_slots = w
  BY <1>1, <1>5, <1>6 DEF Justify, BeamState
<1>8. Windowed(t)
  BY <1>5, <1>7 DEF GoodState, Windowed
<1>9. isSlotJustified(t, a.target.slot)
  BY <1>5, <1>7 DEF isSlotJustified, getJustifiedSlotsIndex
<1>10. CheckpointsAnchored(t)
  BY <1>1, <1>7, <1>9, SMTT(30) DEF GoodState, CheckpointsAnchored, HistoryAt
<1> QED
  BY <1>1, <1>7, <1>8, <1>10 DEF GoodState

\* The window after finalization moved forward by delta slots.
LEMMA ShiftProperties ==
  ASSUME NEW s, s.justified_slots \in Seq({0, 1}),
         NEW delta \in Nat, delta <= Len(s.justified_slots)
  PROVE  LET w == shiftJustifiedSlots(s, delta)
         IN  /\ w \in Seq({0, 1})
             /\ Len(w) = Len(s.justified_slots) - delta
             /\ \A i \in 1 .. Len(w) : w[i] = s.justified_slots[i + delta]
<1> DEFINE w == shiftJustifiedSlots(s, delta)
           n == Len(s.justified_slots) - delta
<1>1. Len(s.justified_slots) \in Nat /\ n \in Nat
  BY LenProperties
<1>2. CASE n = 0
  <2>1. w = << >>
    BY <1>1, <1>2 DEF shiftJustifiedSlots
  <2>2. w \in Seq({0, 1}) /\ Len(w) = 0
    BY <2>1, EmptySeq
  <2> QED
    BY <1>1, <1>2, <2>2
<1>3. CASE n # 0
  <2>1. w = [i \in 1 .. n |-> s.justified_slots[i + delta]]
    BY <1>1, <1>3 DEF shiftJustifiedSlots
  <2>2. \A i \in 1 .. n : s.justified_slots[i + delta] \in {0, 1}
    <3>1. \A j \in 1 .. Len(s.justified_slots) : s.justified_slots[j] \in {0, 1}
      BY ElementOfSeq
    <3>2. \A i \in 1 .. n : i + delta \in 1 .. Len(s.justified_slots)
      BY <1>1
    <3> QED
      BY <3>1, <3>2
  <2>3. w \in [1 .. n -> {0, 1}]
    BY <2>1, <2>2
  <2>4. w \in Seq({0, 1}) /\ Len(w) = n
    BY <1>1, <2>3, FunctionIsSeq, SMTT(30)
  <2> QED
    BY <2>1, <2>4
<1> QED
  BY <1>2, <1>3

\* Finalizing the source of a checked attestation whose target has just been
\* justified.
LEMMA FinalizePreservesGood ==
  ASSUME NEW s, GoodState(s), s.header.slot > 0,
         NEW a \in [source : Checkpoint, target : Checkpoint, bits : SUBSET Nat],
         NEW slotOf,
         s.latest_justified = a.target,
         s.latest_finalized.slot <= a.source.slot,
         a.source.slot < a.target.slot,
         HistoryAt(s, a.source.slot) = a.source.root
  PROVE  LET t == Finalize(s, a, slotOf)
         IN  /\ GoodState(t)
             /\ t.header = s.header
             /\ t.latest_finalized = a.source
<1> DEFINE t == Finalize(s, a, slotOf)
           delta == a.source.slot - s.latest_finalized.slot
           kept == {p \in s.justifications : slotOf[p[1]] > a.source.slot}
<1>1. /\ s \in BeamState /\ a.source \in Checkpoint
      /\ s.header.slot \in Nat /\ s.latest_finalized.slot \in Nat
      /\ s.latest_justified.slot \in Nat
      /\ a.source.slot \in Nat /\ a.target.slot \in Nat
      /\ s.justified_slots \in Seq({0, 1})
  BY DEF GoodState, BeamState, Checkpoint
<1>2. /\ Len(s.historical_block_hashes) = s.header.slot
      /\ Len(s.justified_slots) = s.header.slot - 1 - s.latest_finalized.slot
  BY <1>1 DEF GoodState, Windowed
<1>3. /\ a.target.slot < s.header.slot
      /\ HistoryAt(s, a.target.slot) = a.target.root
      /\ isSlotJustified(s, a.target.slot)
  BY <1>1 DEF GoodState, CheckpointsAnchored
<1>4. CASE delta = 0
  <2>1. /\ t \in BeamState /\ t.header = s.header /\ t.latest_finalized = a.source
        /\ t.latest_justified = s.latest_justified
        /\ t.historical_block_hashes = s.historical_block_hashes
        /\ t.justified_slots = s.justified_slots
    BY <1>1, <1>4 DEF Finalize, BeamState
  <2>2. a.source.slot = s.latest_finalized.slot
    BY <1>1, <1>4
  <2>3. Windowed(t)
    BY <1>1, <1>2, <2>1, <2>2 DEF Windowed
  <2>4. isSlotJustified(t, a.target.slot)
    BY <1>3, <2>1, <2>2 DEF isSlotJustified
  <2>5. CheckpointsAnchored(t)
    BY <1>1, <1>3, <2>1, <2>4, SMTT(30) DEF CheckpointsAnchored, HistoryAt
  <2> QED
    BY <1>1, <2>1, <2>3, <2>5 DEF GoodState
<1>5. CASE delta # 0
  <2>1. delta \in Nat /\ delta <= Len(s.justified_slots)
    BY <1>1, <1>2, <1>3, SMTT(30)
  <2> DEFINE w == shiftJustifiedSlots(s, delta)
  <2>2. /\ w \in Seq({0, 1})
        /\ Len(w) = Len(s.justified_slots) - delta
        /\ \A i \in 1 .. Len(w) : w[i] = s.justified_slots[i + delta]
    BY <1>1, <2>1, ShiftProperties
  <2>3. kept \in SUBSET (Nat \X Validators)
    BY <1>1 DEF BeamState
  <2>4. t = [s EXCEPT !.latest_finalized = a.source, !.justified_slots = w,
                      !.justifications = kept]
    BY <1>1, <1>5 DEF Finalize, BeamState
  <2> HIDE DEF w, kept
  <2>5. /\ t \in BeamState /\ t.header = s.header /\ t.latest_finalized = a.source
        /\ t.latest_justified = s.latest_justified
        /\ t.historical_block_hashes = s.historical_block_hashes
        /\ t.justified_slots = w
    BY <1>1, <2>2, <2>3, <2>4 DEF BeamState
  <2>6. Len(w) = s.header.slot - 1 - a.source.slot
    <3>1. s.header.slot \in Int /\ s.latest_finalized.slot \in Int /\ a.source.slot \in Int
      BY <1>1
    <3>2. Len(w) = (s.header.slot - 1 - s.latest_finalized.slot) - delta
      BY <1>2, <2>2
    <3> QED
      BY <3>1, <3>2
  <2>7. Windowed(t)
    BY <1>1, <1>2, <2>5, <2>6 DEF Windowed
  <2>8. isSlotJustified(t, a.target.slot)
    <3>1. s.justified_slots[a.target.slot - s.latest_finalized.slot] = 1
      BY <1>1, <1>3 DEF isSlotJustified, getJustifiedSlotsIndex
    <3>2. a.target.slot - a.source.slot \in 1 .. Len(w)
      BY <1>1, <1>3, <2>6
    <3>3. w[a.target.slot - a.source.slot] = 1
      <4>1. w[a.target.slot - a.source.slot]
              = s.justified_slots[(a.target.slot - a.source.slot) + delta]
        BY <2>2, <3>2
      <4>2. /\ a.target.slot \in Int /\ a.source.slot \in Int
            /\ s.latest_finalized.slot \in Int
        BY <1>1
      <4>3. (a.target.slot - a.source.slot) + delta = a.target.slot - s.latest_finalized.slot
        BY <4>2
      <4> QED
        BY <3>1, <4>1, <4>3
    <3> QED
      BY <2>5, <3>3 DEF isSlotJustified, getJustifiedSlotsIndex
  <2>9. CheckpointsAnchored(t)
    <3>1. /\ t.header.slot = s.header.slot
          /\ t.latest_finalized = a.source /\ t.latest_justified = a.target
          /\ t.historical_block_hashes = s.historical_block_hashes
      BY <2>5
    <3>2. a.source.slot <= a.target.slot
      BY <1>1
    <3>3. /\ HistoryAt(t, a.source.slot) = a.source.root
          /\ HistoryAt(t, a.target.slot) = a.target.root
      BY <1>3, <3>1 DEF HistoryAt
    <3> HIDE DEF t
    <3> QED
      BY <1>3, <2>8, <3>1, <3>2, <3>3 DEF CheckpointsAnchored
  <2> QED
    BY <1>1, <2>5, <2>7, <2>9 DEF GoodState
<1> QED
  BY <1>4, <1>5

\* One attestation that is not refused keeps a state well formed.
LEMMA AttestationPreservesGood ==
  ASSUME NEW s, GoodState(s), s.header.slot > 0,
         NEW a \in [source : Checkpoint, target : Checkpoint, bits : SUBSET Nat],
         NEW cached, NEW slotOf, AttestationError(s, a, cached) = "none"
  PROVE  LET t == ProcessAttestation(s, a, slotOf)
         IN  GoodState(t) /\ t.header = s.header
<1>1. CASE a.bits = {} \/ ZeroRoot(a) \/ ~Viable(s, a)
  BY <1>1 DEF ProcessAttestation
<1>2. CASE a.bits # {} /\ ~ZeroRoot(a) /\ Viable(s, a)
  <2>1. /\ s.latest_finalized.slot < a.target.slot
        /\ a.source.slot < a.target.slot
        /\ a.target.slot < s.header.slot
        /\ HistoryAt(s, a.source.slot) = a.source.root
        /\ HistoryAt(s, a.target.slot) = a.target.root
        /\ a.bits \subseteq Validators
        /\ ReachesThreshold(s, a) /\ CanFinalize(s, a)
             => s.latest_finalized.slot <= a.source.slot
    BY <1>2, CheckedAttestation
  <2>2. CASE ~ReachesThreshold(s, a)
    BY <1>2, <2>1, <2>2, RecordPreservesGood DEF ProcessAttestation
  <2>3. CASE ReachesThreshold(s, a)
    <3> DEFINE j == Justify(s, a)
    <3>1. /\ GoodState(j)
          /\ j.header = s.header /\ j.latest_finalized = s.latest_finalized
          /\ j.latest_justified = a.target
          /\ j.historical_block_hashes = s.historical_block_hashes
      BY <2>1, JustifyPreservesGood
    <3>2. CASE ~CanFinalize(s, a)
      BY <1>2, <2>3, <3>1, <3>2 DEF ProcessAttestation
    <3>3. CASE CanFinalize(s, a)
      <4>1. ProcessAttestation(s, a, slotOf) = Finalize(j, a, slotOf)
        BY <1>2, <2>3, <3>3 DEF ProcessAttestation
      <4>2. HistoryAt(j, a.source.slot) = a.source.root
        BY <2>1, <3>1 DEF HistoryAt
      <4>3. s.latest_finalized.slot <= a.source.slot
        BY <2>1, <2>3, <3>3
      <4> HIDE DEF j
      <4>4. /\ j.header.slot > 0 /\ a.target.slot < j.header.slot
            /\ j.latest_finalized.slot <= a.source.slot
        BY <2>1, <3>1, <4>3
      <4> QED
        <5>1. /\ GoodState(Finalize(j, a, slotOf))
              /\ Finalize(j, a, slotOf).header = j.header
          BY <2>1, <3>1, <4>2, <4>4, FinalizePreservesGood, SMTT(30)
        <5> QED
          BY <3>1, <4>1, <5>1
    <3> QED
      BY <3>2, <3>3
  <2> QED
    BY <2>2, <2>3
<1> QED
  BY <1>1, <1>2

----------------------------------------------------------------------------
(* The inductive invariant of block import.                                *)

\* Types, every stored or working state well formed, and the working state
\* past its header (so that the attestation lemmas apply).
IInv ==
  /\ TypeOK
  /\ ForAllStates(GoodState)
  /\ \A r \in DOMAIN post : post[r].header.slot > 0

\* The genesis state is well formed.
LEMMA GenesisGood == GoodState(genGenesisState(1))
<1>1. << >> \in Seq(Nat) /\ << >> \in Seq({0, 1}) /\ Len(<< >>) = 0
  BY EmptySeq
<1>2. genGenesisState(1) \in BeamState
  BY <1>1 DEF genGenesisState, BeamState, Checkpoint, ZERO_HASH
<1>3. Windowed(genGenesisState(1))
  BY <1>1 DEF genGenesisState, Windowed
<1>4. CheckpointsAnchored(genGenesisState(1))
  <2>1. genGenesisState(1).header.slot = 0
    BY DEF genGenesisState
  <2> QED
    BY <2>1 DEF CheckpointsAnchored
<1>5. genGenesisState(1).latest_justified.slot = 0
  BY DEF genGenesisState
<1> QED
  BY <1>2, <1>3, <1>4, <1>5 DEF GoodState

\* The genesis anchor satisfies the invariant.
LEMMA InitIInv == Init => IInv
<1> SUFFICES ASSUME Init PROVE IInv
  OBVIOUS
<1>1. /\ Len(blocks) = 1
      /\ blocks \in Seq([slot : Nat, ancestors : SUBSET Nat])
  BY DEF Init
<1>2. Roots = {1}
  BY <1>1 DEF Roots
<1>3. genGenesisState(1) \in BeamState /\ GoodState(genGenesisState(1))
  BY GenesisGood DEF GoodState
<1>4. DOMAIN post = {}
  BY EmptySeq DEF Init
<1>5. DOMAIN states = {1} /\ states[1] = genGenesisState(1)
  BY DEF Init
<1>6. TypeOK
  BY <1>1, <1>2, <1>3, <1>4, <1>5 DEF Init, TypeOK, Checkpoint
<1> QED
  BY <1>3, <1>4, <1>5, <1>6 DEF IInv, ForAllStates

\* Checkpoints of blocks are well typed ...
LEMMA CheckpointsTyped ==
  ASSUME blocks \in Seq([slot : Nat, ancestors : SUBSET Nat])
  PROVE  KnownCheckpoints \subseteq Checkpoint
<1>1. ASSUME NEW r \in Roots
      PROVE  r \in Nat /\ blocks[r].slot \in Nat
  <2>1. r \in 1 .. Len(blocks)
    BY DEF Roots
  <2>2. blocks[r] \in [slot : Nat, ancestors : SUBSET Nat]
    BY <2>1, ElementOfSeq
  <2> QED
    BY <2>1, <2>2, LenProperties
<1> QED
  BY <1>1 DEF KnownCheckpoints, Checkpoint, ZERO_HASH

\* ... and so is every attestation a block may carry.
LEMMA AttestationsTyped ==
  ASSUME blocks \in Seq([slot : Nat, ancestors : SUBSET Nat])
  PROVE  Attestations \subseteq [source : Checkpoint, target : Checkpoint, bits : SUBSET Nat]
<1> QED
  BY CheckpointsTyped, ImportAssumption DEF Attestations

\* Every step of an import preserves the invariant.
LEMMA NextIInv == IInv /\ [Next]_vars => IInv'
<1> SUFFICES ASSUME IInv, [Next]_vars PROVE IInv'
  OBVIOUS
<1>1. /\ TypeOK
      /\ \A r \in DOMAIN states : GoodState(states[r])
      /\ \A r \in DOMAIN post : GoodState(post[r]) /\ post[r].header.slot > 0
      /\ blocks \in Seq([slot : Nat, ancestors : SUBSET Nat]) /\ Len(blocks) \in Nat
  BY LenProperties DEF IInv, ForAllStates, TypeOK
<1>2. ASSUME NEW parent \in DOMAIN states, NEW slot \in Slots, StartImport(parent, slot)
      PROVE  IInv'
  <2> DEFINE root == Len(blocks) + 1
             pre  == states[parent]
             new  == process_block_header(process_slots(pre, slot), root, slot)
             blk  == [slot |-> slot, ancestors |-> blocks[parent].ancestors \cup {root}]
  <2>1. slot \in Nat /\ root \in Nat /\ GoodState(pre) /\ pre.header.slot \in Nat
    BY <1>1, ImportAssumption DEF GoodState, BeamState, Checkpoint
  <2>2. slot > pre.header.slot
    BY <1>2, <2>1 DEF StartImport, HeaderError
  <2>3. GoodState(new) /\ new.header.slot = slot
    BY <2>1, <2>2, HeaderPreservesGood
  <2>4. blocks[parent] \in [slot : Nat, ancestors : SUBSET Nat]
    BY <1>1, ElementOfSeq DEF TypeOK, Roots
  <2>5. blk \in [slot : Nat, ancestors : SUBSET Nat]
    BY <2>1, <2>4
  <2>6. /\ blocks' \in Seq([slot : Nat, ancestors : SUBSET Nat])
        /\ Len(blocks') = root
    BY <1>1, <1>2, <2>5, AppendProperties DEF StartImport
  <2>7. Roots' = 1 .. root /\ Roots \subseteq Roots' /\ root \in Roots'
    BY <1>1, <2>6 DEF Roots
  <2>8. DOMAIN post' = {root} /\ post'[root] = new
    BY <1>2 DEF StartImport
  <2> HIDE DEF new, blk, root
  <2>9. UNCHANGED <<states, cache, nodes, finalized, emitted>>
    BY <1>2 DEF StartImport
  <2>10. TypeOK'
    BY <1>1, <2>3, <2>6, <2>7, <2>8, <2>9 DEF TypeOK, GoodState
  <2> QED
    BY <1>1, <2>1, <2>2, <2>3, <2>8, <2>9, <2>10 DEF IInv, ForAllStates
<1>3. ASSUME NEW root \in DOMAIN post, NEW a \in Attestations, ImportAttestation(root, a)
      PROVE  IInv'
  <2> DEFINE new == ProcessAttestation(post[root], a, cache)
  <2>1. GoodState(new) /\ new.header = post[root].header
    BY <1>1, <1>3, AttestationsTyped, AttestationPreservesGood DEF ImportAttestation
  <2>2. post' = [post EXCEPT ![root] = new]
    BY <1>3 DEF ImportAttestation
  <2> HIDE DEF new
  <2>3. /\ DOMAIN post' = DOMAIN post
        /\ \A r \in DOMAIN post : post'[r] = IF r = root THEN new ELSE post[r]
    BY <2>2
  <2>4. UNCHANGED <<blocks, states, cache, nodes, finalized, emitted>>
    BY <1>3 DEF ImportAttestation
  <2>5. TypeOK'
    BY <1>1, <2>1, <2>3, <2>4 DEF TypeOK, GoodState, Roots
  <2> QED
    BY <1>1, <2>1, <2>3, <2>4, <2>5 DEF IInv, ForAllStates
<1>4. ASSUME NEW root \in DOMAIN post, AbortImport(root)
      PROVE  IInv'
  <2>1. DOMAIN post' = {} /\ UNCHANGED <<blocks, states, cache, nodes, finalized, emitted>>
    BY <1>4, EmptySeq DEF AbortImport
  <2> QED
    BY <1>1, <2>1 DEF IInv, ForAllStates, TypeOK, Roots
<1>5. ASSUME NEW root \in DOMAIN post
      PROVE  LET stored == Extend(states, root, post[root])
                 cached == Extend(cache, root, blocks[root].slot)
             IN  /\ DOMAIN stored \subseteq Roots /\ DOMAIN cached \subseteq Roots
                 /\ \A r \in DOMAIN stored : GoodState(stored[r])
                 /\ \A r \in DOMAIN cached : cached[r] \in Nat
  <2>1. root \in Roots
    BY <1>1 DEF TypeOK
  <2>2. blocks[root] \in [slot : Nat, ancestors : SUBSET Nat]
    BY <1>1, <2>1, ElementOfSeq DEF Roots
  <2> QED
    BY <1>1, <2>1, <2>2 DEF Extend, TypeOK
<1>6. ASSUME NEW root \in DOMAIN post, NEW followup \in BOOLEAN, FinishImport(root, followup)
      PROVE  IInv'
  <2> DEFINE stored == Extend(states, root, post[root])
             cached == Extend(cache, root, blocks[root].slot)
             cp     == UpdatedFinalized(root)
  <2>1. cp \in Checkpoint /\ cp.slot \in Nat
    BY <1>1 DEF UpdatedFinalized, TypeOK, BeamState, Checkpoint
  <2>2. /\ DOMAIN stored \subseteq Roots /\ DOMAIN cached \subseteq Roots
        /\ \A r \in DOMAIN stored : GoodState(stored[r])
        /\ \A r \in DOMAIN cached : cached[r] \in Nat
    BY <1>5
  <2>3. /\ DOMAIN post' = {} /\ blocks' = blocks /\ finalized' = cp
        /\ emitted' \in Nat
    <3>1. post' = << >> /\ blocks' = blocks /\ finalized' = cp
      BY <1>6 DEF FinishImport
    <3>2. emitted' = cp.slot \/ emitted' = emitted
      BY <1>6 DEF FinishImport
    <3>3. emitted \in Nat
      BY <1>1 DEF TypeOK
    <3> QED
      BY <2>1, <3>1, <3>2, <3>3, EmptySeq
  <2>4. \/ states' = stored
        \/ states' = RestrictTo(stored, CanonicalRoots(cp))
    BY <1>6 DEF FinishImport
  <2>5. \/ cache' = cached
        \/ cache' = CachePruned(cached, cp.slot)
    BY <1>6 DEF FinishImport
  <2> HIDE DEF stored, cached, cp
  <2>6. DOMAIN states' \subseteq Roots /\ \A r \in DOMAIN states' : GoodState(states'[r])
    BY <2>2, <2>4 DEF RestrictTo
  <2>7. DOMAIN cache' \subseteq Roots /\ \A r \in DOMAIN cache' : cache'[r] \in Nat
    BY <2>2, <2>5 DEF RestrictTo, CachePruned
  <2>8. nodes' \subseteq Roots
    <3>1. nodes' \subseteq nodes \cup {root}
      BY <1>6 DEF FinishImport
    <3> QED
      BY <1>1, <3>1 DEF TypeOK
  <2>9. TypeOK'
    BY <1>1, <2>1, <2>3, <2>6, <2>7, <2>8 DEF TypeOK, GoodState, Roots
  <2> QED
    BY <2>3, <2>6, <2>9 DEF IInv, ForAllStates
<1>7. ASSUME NEW root \in DOMAIN post, RefuseImport(root)
      PROVE  IInv'
  <2>1. /\ DOMAIN post' = {} /\ UNCHANGED <<blocks, states, nodes, finalized, emitted>>
        /\ cache' = Extend(cache, root, blocks[root].slot)
    BY <1>7, EmptySeq DEF RefuseImport
  <2>2. DOMAIN cache' \subseteq Roots /\ \A r \in DOMAIN cache' : cache'[r] \in Nat
    BY <1>5, <2>1
  <2> QED
    BY <1>1, <2>1, <2>2 DEF IInv, ForAllStates, TypeOK, Roots
<1>8. ASSUME NEW anchor, NEW older, PrunePeriodically(anchor, older)
      PROVE  IInv'
  <2>1. UNCHANGED <<blocks, cache, post, nodes, finalized, emitted>>
    BY <1>8 DEF PrunePeriodically
  <2>2. DOMAIN states' \subseteq DOMAIN states /\ \A r \in DOMAIN states' : states'[r] = states[r]
    BY <1>8 DEF PrunePeriodically, RestrictTo
  <2> QED
    BY <1>1, <2>1, <2>2 DEF IInv, ForAllStates, TypeOK, Roots
<1>9. CASE UNCHANGED vars
  BY <1>1, <1>9 DEF vars, IInv, ForAllStates, TypeOK, Roots
<1> QED
  BY <1>2, <1>3, <1>4, <1>6, <1>7, <1>8, <1>9 DEF Next

\* IInv holds in every state of every behaviour of the import: it holds
\* initially and every step of Next, or a stutter, keeps it.
LEMMA Invariance == Spec => []IInv
<1> QED
  BY InitIInv, NextIInv, PTL DEF Spec

----------------------------------------------------------------------------
(* The theorems.                                                           *)

\* The variables of block import keep their types, for any registry size,
\* block tree and set of attestations (BeamChain.onBlock).
THEOREM TypeCorrect == Spec => []TypeOK
<1>1. IInv => TypeOK
  BY DEF IInv
<1> QED
  BY <1>1, Invariance, PTL

\* In every stored or working state the history list has one entry per slot
\* before the latest block and the justified window one entry per slot after
\* the finalized one (extendJustifiedSlots, shiftJustifiedSlots).
THEOREM WindowCorrect == Spec => []WindowInv
<1>1. IInv => WindowInv
  BY DEF IInv, WindowInv, ForAllStates, GoodState
<1> QED
  BY <1>1, Invariance, PTL

\* The justified and finalized checkpoints of every state are blocks of its
\* own history, ordered, and the justified one is marked in the window
\* (process_attestations).
THEOREM CheckpointsCorrect == Spec => []CheckpointsOnChain
<1>1. IInv => CheckpointsOnChain
  BY DEF IInv, CheckpointsOnChain, ForAllStates, GoodState
<1> QED
  BY <1>1, Invariance, PTL

\* The state transition never disagrees with itself: a header of a later slot
\* always extends the window, no attestation is looked up outside it, and
\* finality never moves backwards (the u64 subtraction cannot underflow).
THEOREM NoInternalErrors == Spec => []InternalErrorsUnreachable
<1>1. ASSUME IInv PROVE InternalErrorsUnreachable
  <2>1. ASSUME NEW r \in DOMAIN states, NEW slot \in Slots, slot > states[r].header.slot
        PROVE  HeaderError(states[r], slot) = "none"
    BY <1>1, <2>1, ImportAssumption, HeaderNeverFails DEF IInv, ForAllStates
  <2>2. ASSUME NEW r \in DOMAIN post, NEW cp \in KnownCheckpoints, InHistory(post[r], cp.slot)
        PROVE  ~JustificationIndexError(post[r], cp.slot)
    <3> DEFINE s == post[r]
    <3>1. GoodState(s) /\ s.header.slot > 0
      BY <1>1 DEF IInv, ForAllStates
    <3>2. cp.slot \in Nat
      BY <1>1, CheckpointsTyped DEF IInv, TypeOK, Checkpoint
    <3> HIDE DEF s
    <3>3. s \in BeamState /\ Windowed(s)
      BY <3>1 DEF GoodState
    <3>4. s.header.slot \in Nat /\ s.latest_finalized.slot \in Nat
      BY <3>3 DEF BeamState, Checkpoint
    <3>5. /\ Len(s.historical_block_hashes) = s.header.slot
          /\ Len(s.justified_slots) = s.header.slot - 1 - s.latest_finalized.slot
      BY <3>1, <3>3, <3>4 DEF Windowed
    <3>6. cp.slot < s.header.slot
      BY <2>2, <3>5 DEF InHistory, s
    <3>7. ~(cp.slot - s.latest_finalized.slot > Len(s.justified_slots))
      BY <3>2, <3>4, <3>5, <3>6
    <3> QED
      BY <3>7 DEF JustificationIndexError, getJustifiedSlotsIndex, s
  <2>3. ASSUME NEW r \in DOMAIN post, NEW a \in Attestations,
               a.source.slot < post[r].latest_finalized.slot
        PROVE  AttestationError(post[r], a, DOMAIN cache) # "SlotUnderflow"
    <3> DEFINE s == post[r]
    <3>1. /\ GoodState(s) /\ s.header.slot > 0
          /\ a \in [source : Checkpoint, target : Checkpoint, bits : SUBSET Nat]
      BY <1>1, AttestationsTyped DEF IInv, ForAllStates, TypeOK
    <3> HIDE DEF s
    <3>2. s.latest_finalized.slot \in Nat /\ a.source.slot \in Nat /\ a.target.slot \in Nat
      BY <3>1 DEF GoodState, BeamState, Checkpoint
    <3>3. ASSUME Viable(s, a), CanFinalize(s, a),
                 ~(a.source.slot + 1 < s.latest_finalized.slot)
          PROVE  ~(a.source.slot < s.latest_finalized.slot)
      <4>1. s.latest_finalized.slot < a.target.slot
        <5>1. ~isSlotJustified(s, a.target.slot)
          BY <3>3 DEF Viable
        <5>2. ~(a.target.slot <= s.latest_finalized.slot)
          BY <5>1 DEF isSlotJustified
        <5> QED
          BY <3>2, <5>2
      <4>2. IsJustifiableSlot(s.latest_finalized.slot, s.latest_finalized.slot)
        BY <3>2 DEF IsJustifiableSlot
      <4>3. ASSUME a.source.slot < s.latest_finalized.slot PROVE FALSE
        <5>1. s.latest_finalized.slot \in a.source.slot + 1 .. a.target.slot - 1
          BY <3>2, <3>3, <4>1, <4>3
        <5> QED
          BY <3>3, <4>2, <5>1 DEF CanFinalize
      <4> QED
        BY <4>3
    <3>4. AttestationError(s, a, DOMAIN cache) # "SlotUnderflow"
      BY <3>3 DEF AttestationError
    <3> QED
      BY <3>4 DEF s
  <2> QED
    BY <2>1, <2>2, <2>3 DEF InternalErrorsUnreachable
<1> QED
  BY <1>1, Invariance, PTL
============================================================================
