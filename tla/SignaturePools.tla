--------------------------- MODULE SignaturePools ---------------------------
(***************************************************************************)
(* The signature and aggregated-payload maps of the fork choice, behind    *)
(* signatures_mutex, with the vote trackers they must agree with           *)
(* (pkgs/node/src/forkchoice.zig, AggregatedAttestationsResult of          *)
(* pkgs/types/src/block.zig, and their callers in pkgs/node/src/chain.zig).*)
(* The bridge thread delivers gossip and blocks, the event loop replays    *)
(* queued blocks, aggregates, accepts and proposes; a step is one locked   *)
(* section.                                                                *)
(*                                                                         *)
(* A proof is its set of participants. Signatures have been verified       *)
(* before they reach these maps, so none fails to parse.                   *)
(***************************************************************************)
EXTENDS Integers, Sequences, FiniteSets, FiniteSetsExt

CONSTANTS
  Validators,   \* validator indices
  Data,         \* attestation data, by its root
  SlotOf,       \* slot of a vote; NoData has slot 0
  TargetSlot,   \* slot of its target
  Source,       \* slot of its source
  Slots,        \* slots the clock reaches and checkpoints may have
  MaxArrivals   \* bound on the signatures and proofs that arrive

NoData == 0

ASSUME PoolsAssumption ==
  /\ Validators \subseteq Nat /\ IsFiniteSet(Validators)
  /\ Data \subseteq Nat \ {NoData}
  /\ SlotOf \in [Data \cup {NoData} -> Nat] /\ SlotOf[NoData] = 0
  /\ TargetSlot \in [Data -> Nat]
  /\ Source \in [Data -> Nat]
  /\ Slots \subseteq Nat
  /\ MaxArrivals \in Nat

Keys == Validators \X Data

Threads == {"bridge", "loop"}

\* Where a vote comes from (is_from_block).
Origins == {"gossip", "block"}

VARIABLES
  data,       \* the roots in attestation_data_by_root
  gossip,     \* the keys of gossip_signatures
  fresh,      \* latest_new_aggregated_payloads: key -> list of proofs
  known,      \* latest_known_aggregated_payloads
  trackers,   \* validator -> its latest known and new vote
  gone,       \* the data whose head a rebase has removed from the proto array
  clock,      \* slot of the fork choice clock
  justified,  \* slot of the latest justified checkpoint
  finalized,  \* slot up to which stale data has been pruned
  worker,     \* what each thread is doing
  packed,     \* the attestations of the block being produced
  arrivals    \* number of signatures and proofs that have arrived

pools == <<data, gossip, fresh, known>>
chain == <<gone, clock, justified, finalized>>
vars == <<pools, trackers, chain, worker, packed, arrivals>>

Idle == [pc |-> "idle", data |-> NoData, proof |-> {}, left |-> {},
         origin |-> "gossip", slot |-> 0, chosen |-> {}]

At(t, pc) == worker[t].pc = pc

Arrival == arrivals < MaxArrivals /\ arrivals' = arrivals + 1

Become(t, w) == worker' = [worker EXCEPT ![t] = w]

Init ==
  /\ data = {} /\ gossip = {}
  /\ fresh = [k \in Keys |-> << >>] /\ known = [k \in Keys |-> << >>]
  /\ trackers = [v \in Validators |-> [known |-> NoData, new |-> NoData]]
  /\ gone = {} /\ clock = 0 /\ justified = 0 /\ finalized = 0
  /\ worker = [t \in Threads |-> Idle]
  /\ packed = {} /\ arrivals = 0

----------------------------------------------------------------------------
(* Votes.                                                                  *)

\* onAttestationUnlocked: the vote's head must be in the proto array, and a
\* gossiped vote must not be from a later slot than the clock.
Refused(d, origin) == d \in gone \/ (origin = "gossip" /\ SlotOf[d] > clock)

Tracked(tracker, d, origin) ==
  LET fromBlock      == origin = "block"
      laterThanKnown == SlotOf[d] > SlotOf[tracker.known]
      laterThanNew   == SlotOf[d] > SlotOf[tracker.new]
  IN  IF Refused(d, origin) THEN tracker
      ELSE [known |-> IF fromBlock /\ laterThanKnown THEN d ELSE tracker.known,
            new |-> IF laterThanNew /\ (fromBlock => laterThanKnown) THEN d ELSE tracker.new]

\* validateAttestationData: the head is known and the slot is not ahead (by
\* more than one slot for a vote of a block).
Valid(d, origin) == d \notin gone /\ SlotOf[d] <= clock + (IF origin = "block" THEN 1 ELSE 0)

\* onSignedAttestation for a gossiped vote, or for the proposer's vote of a
\* block, which onBlock does not validate: the signature is stored before the
\* vote may be refused.
onSignedAttestation(t, v, d) ==
  /\ At(t, "idle") /\ Arrival
  /\ data' = data \cup {d}
  /\ gossip' = gossip \cup {<<v, d>>}
  /\ trackers' = [trackers EXCEPT ![v] = Tracked(@, d, "gossip")]
  /\ UNCHANGED <<fresh, known, chain, worker, packed>>

KeysOf(d, proof) == {<<v, d>> : v \in proof}

\* onGossipAggregatedAttestation, and an attestation of a block in onBlock:
\* each participant's vote is tracked in a section of its own, in the order
\* of the bits ...
StartAggregated(t, d, proof, origin) ==
  /\ At(t, "idle") /\ Valid(d, origin) /\ proof # {}
  /\ Arrival
  /\ Become(t, [Idle EXCEPT !.pc = "track", !.data = d, !.proof = proof, !.left = proof,
                            !.origin = origin])
  /\ UNCHANGED <<pools, trackers, chain, packed>>

TrackVote(t, v) ==
  /\ At(t, "track")
  /\ v \in worker[t].left /\ \A u \in worker[t].left : v <= u
  /\ trackers' = [trackers EXCEPT ![v] = Tracked(@, worker[t].data, worker[t].origin)]
  /\ worker' = [worker EXCEPT ![t].left = @ \ {v}]
  /\ UNCHANGED <<pools, chain, packed, arrivals>>

WithProof(map, d, proof) ==
  [k \in Keys |-> IF k \in KeysOf(d, proof) THEN Append(map[k], proof) ELSE map[k]]

\* ... and storeAggregatedPayload comes last.
storeAggregatedPayload(t) ==
  LET d == worker[t].data
      proof == worker[t].proof
  IN  /\ At(t, "track") /\ worker[t].left = {}
      /\ data' = data \cup {d}
      /\ fresh' = IF worker[t].origin = "block" THEN fresh ELSE WithProof(fresh, d, proof)
      /\ known' = IF worker[t].origin = "block" THEN WithProof(known, d, proof) ELSE known
      /\ Become(t, Idle)
      /\ UNCHANGED <<gossip, trackers, chain, packed, arrivals>>

----------------------------------------------------------------------------
(* The event loop.                                                         *)

Signers(d) == {v \in Validators : <<v, d>> \in gossip}

\* aggregateCommitteeSignatures, at interval 2 of an aggregator: one proof for
\* each attestation data with signatures.
aggregateCommitteeSignatures ==
  LET voted(k) == k \in gossip /\ k[2] \in data
  IN  /\ At("loop", "idle")
      /\ fresh' = [k \in Keys |-> IF voted(k) THEN Append(fresh[k], Signers(k[2]))
                                  ELSE fresh[k]]
      /\ gossip' = {k \in gossip : ~voted(k)}
      /\ UNCHANGED <<data, known, trackers, chain, worker, packed, arrivals>>

MovedPayloads == [k \in Keys |-> known[k] \o fresh[k]]

\* Mutant: the new proofs are cleared and not moved.
AcceptDropsPayloads ==
  /\ UNCHANGED known
  /\ fresh' = [k \in Keys |-> << >>]
  /\ trackers' = [v \in Validators |-> [trackers[v] EXCEPT !.known = trackers[v].new]]
  /\ UNCHANGED <<data, gossip>>

\* acceptNewAttestationsUnlocked.
Accept ==
  /\ known' = MovedPayloads
  /\ fresh' = [k \in Keys |-> << >>]
  /\ trackers' = [v \in Validators |-> [trackers[v] EXCEPT !.known = trackers[v].new]]
  /\ UNCHANGED <<data, gossip>>

\* tickInterval: a slot starts, and a proposer accepts ...
TickSlot(hasProposal) ==
  /\ At("loop", "idle")
  /\ clock + 1 \in Slots
  /\ clock' = clock + 1
  /\ IF hasProposal THEN Accept ELSE UNCHANGED <<pools, trackers>>
  /\ UNCHANGED <<gone, justified, finalized, worker, packed, arrivals>>

\* ... and everybody accepts at the last interval.
acceptNewAttestations == At("loop", "idle") /\ Accept /\ UNCHANGED <<chain, worker, packed, arrivals>>

\* produceBlock: getProposalHead, then getProposalAttestations, then the
\* aggregation under signatures_mutex.
getProposalHead ==
  /\ At("loop", "idle") /\ Accept
  /\ Become("loop", [Idle EXCEPT !.pc = "choose"])
  /\ UNCHANGED <<chain, packed, arrivals>>

getProposalAttestations ==
  LET votes == {<<v, trackers[v].known>> : v \in {u \in Validators : trackers[u].known # NoData}}
  IN  /\ At("loop", "choose")
      /\ Become("loop", [Idle EXCEPT !.pc = "pack",
                           !.chosen = {k \in votes : Source[k[2]] = justified}])
      /\ UNCHANGED <<pools, trackers, chain, packed, arrivals>>

\* The first of the candidates that covers most of the remaining validators.
BestProof(candidates, remaining) ==
  LET coverage(i) == Cardinality(candidates[i] \cap remaining)
      best == {i \in DOMAIN candidates :
                 \A j \in DOMAIN candidates : coverage(i) >= coverage(j)}
  IN  candidates[Min(best)]

\* Mutant: the first validator's best proof ends the search.
StoredProofsFirst(d, remaining) ==
  IF remaining = {} \/ known[<<Min(remaining), d>>] = << >> THEN {}
  ELSE {BestProof(known[<<Min(remaining), d>>], remaining)}

\* Phase 2 of computeAggregatedSignatures: a greedy cover by stored proofs of
\* the validators without a signature of their own.
StoredProofs(d, remaining) ==
  LET cover[r \in SUBSET remaining] ==
        IF r = {} THEN {}
        ELSE LET candidates == known[<<Min(r), d>>]
                 best == BestProof(candidates, r)
             IN  IF candidates = << >> \/ best \cap r = {} THEN cover[r \ {Min(r)}]
                 ELSE {best} \cup cover[r \ best]
  IN  cover[remaining]

\* The fresh aggregate skips the validators of stored proofs.
FreshAggregate(available, stored) ==
  IF available \ UNION stored = {} THEN {} ELSE {available \ UNION stored}

Aggregates(d, voters) ==
  LET available == voters \cap Signers(d)
      stored    == StoredProofs(d, voters \ available)
  IN  {[data |-> d, bits |-> p] : p \in stored \cup FreshAggregate(available, stored)}

computeAggregatedSignatures ==
  LET chosen == worker["loop"].chosen
      voters(d) == {v \in Validators : <<v, d>> \in chosen}
  IN  /\ At("loop", "pack")
      /\ packed' = UNION {Aggregates(d, voters(d)) : d \in Data}
      /\ Become("loop", [Idle EXCEPT !.pc = "built"])
      /\ UNCHANGED <<pools, trackers, chain, arrivals>>

\* The rest of produceBlock: the new block enters the fork choice, where it may
\* move the justified checkpoint; its attestations are not imported again.
BlockDone(slot) ==
  /\ At("loop", "built")
  /\ slot >= justified /\ justified' = slot
  /\ Become("loop", Idle) /\ packed' = {}
  /\ UNCHANGED <<pools, trackers, gone, clock, finalized, arrivals>>

----------------------------------------------------------------------------
(* Finalization.                                                           *)

\* An imported block moves the justified checkpoint.
Justify(slot) ==
  /\ slot > justified
  /\ justified' = slot
  /\ UNCHANGED <<pools, trackers, gone, clock, finalized, worker, packed, arrivals>>

\* Mutant: the pending aggregated payloads are kept.
PruneKeepsNew(stale) ==
  /\ data' = data \ stale
  /\ gossip' = {k \in gossip : k[2] \notin stale}
  /\ UNCHANGED fresh
  /\ known' = [k \in Keys |-> IF k[2] \in stale THEN << >> ELSE known[k]]

Prune(stale) ==
  /\ data' = data \ stale
  /\ gossip' = {k \in gossip : k[2] \notin stale}
  /\ fresh' = [k \in Keys |-> IF k[2] \in stale THEN << >> ELSE fresh[k]]
  /\ known' = [k \in Keys |-> IF k[2] \in stale THEN << >> ELSE known[k]]

\* A vote for a head that a rebase removes is dropped.
Surviving(d, removed) == IF d \in removed THEN NoData ELSE d

\* Finalization in onBlockFollowup: the rebase, then, without its lock,
\* pruneStaleAttestationData.
StartFinalization(t, slot, removed) ==
  /\ At(t, "idle")
  /\ slot > finalized /\ slot <= justified
  /\ trackers' = [v \in Validators |-> [known |-> Surviving(trackers[v].known, removed),
                                         new |-> Surviving(trackers[v].new, removed)]]
  /\ gone' = gone \cup removed
  /\ finalized' = slot
  /\ Become(t, [Idle EXCEPT !.pc = "prune", !.slot = slot])
  /\ UNCHANGED <<pools, clock, justified, packed, arrivals>>

pruneStaleAttestationData(t) ==
  /\ At(t, "prune")
  /\ Prune({d \in data : TargetSlot[d] <= worker[t].slot})
  /\ Become(t, Idle)
  /\ UNCHANGED <<trackers, chain, packed, arrivals>>

Next ==
  \/ \E t \in Threads, v \in Validators, d \in Data : onSignedAttestation(t, v, d)
  \/ \E t \in Threads, d \in Data, proof \in SUBSET Validators, origin \in Origins :
       StartAggregated(t, d, proof, origin)
  \/ \E t \in Threads, v \in Validators : TrackVote(t, v)
  \/ \E t \in Threads : storeAggregatedPayload(t)
  \/ \E hasProposal \in BOOLEAN : TickSlot(hasProposal)
  \/ aggregateCommitteeSignatures \/ acceptNewAttestations
  \/ getProposalHead \/ getProposalAttestations \/ computeAggregatedSignatures
  \/ \E slot \in Slots : BlockDone(slot) \/ Justify(slot)
  \/ \E t \in Threads, slot \in Slots, removed \in SUBSET Data :
       StartFinalization(t, slot, removed)
  \/ \E t \in Threads : pruneStaleAttestationData(t)

Spec == Init /\ [][Next]_vars

----------------------------------------------------------------------------
(* Properties.                                                             *)

Votes == Data \cup {NoData}
Proofs == SUBSET Validators \ {{}}
Handlers ==
  [pc : {"idle", "track", "choose", "pack", "built", "prune"}, data : Votes,
   proof : SUBSET Validators, left : SUBSET Validators, origin : Origins,
   slot : Nat, chosen : SUBSET Keys]

\* Type invariant of the maps of ForkChoice and of the local variables of the
\* handlers: a proof or aggregate always has participants.
TypeOK ==
  /\ data \subseteq Data /\ gossip \subseteq Keys
  /\ fresh \in [Keys -> Seq(Proofs)] /\ known \in [Keys -> Seq(Proofs)]
  /\ trackers \in [Validators -> [known : Votes, new : Votes]]
  /\ arrivals \in Nat
  /\ gone \subseteq Data /\ {clock, justified, finalized} \subseteq Nat
  /\ worker \in [Threads -> Handlers]
  /\ packed \subseteq [data : Data, bits : Proofs]

\* Whatever order signatures, payloads, promotions and prunings come in,
\* every signature and every payload has its attestation data in
\* attestation_data_by_root: aggregateCommitteeSignatures skips a signature
\* without it, and pruneStaleAttestationData would never find it again.
PoolsHaveData ==
  \A k \in Keys :
    k \in gossip \/ fresh[k] # << >> \/ known[k] # << >> => k[2] \in data

\* A vote the fork choice counts or will count, unless finalization has
\* overtaken its target, can still be put into a block: its signature or a
\* proof of it is in one of the maps, or the handler that tracked it is about
\* to store the proof.
BeingStored(v, d) ==
  \E t \in Threads : At(t, "track") /\ worker[t].data = d /\ v \in worker[t].proof

Backed(v, d) ==
  \/ d = NoData
  \/ TargetSlot[d] <= finalized
  \/ <<v, d>> \in gossip
  \/ fresh[<<v, d>>] # << >> \/ known[<<v, d>>] # << >>
  \/ BeingStored(v, d)

VotesBacked ==
  \A v \in Validators : Backed(v, trackers[v].known) /\ Backed(v, trackers[v].new)

\* The attestations produceBlock packs: every chosen vote with a signature or
\* a known proof is covered, and every set bit has one
\* (computeAggregatedSignatures).
BlockCoversChosen ==
  [][At("loop", "pack") /\ At("loop", "built")' =>
       LET available(k) == k \in gossip \/ known[k] # << >>
           covered(k)   == \E a \in packed' : a.data = k[2] /\ k[1] \in a.bits
       IN  /\ \A k \in worker["loop"].chosen : available(k) => covered(k)
           /\ \A k \in Keys : covered(k) => available(k)]_vars
=============================================================================
