------------------------ MODULE SignaturePoolsProofs ------------------------
(***************************************************************************)
(* Proofs about SignaturePools, for any number of validators and votes.    *)
(***************************************************************************)
EXTENDS SignaturePools, SequenceTheorems, TLAPS

\* The part of the type invariant the proofs need.
MapsType ==
  /\ data \subseteq Data /\ gossip \subseteq Keys
  /\ fresh \in [Keys -> Seq(SUBSET Validators)]
  /\ known \in [Keys -> Seq(SUBSET Validators)]
  /\ trackers \in [Validators -> [known : Votes, new : Votes]]
  /\ finalized \in Nat
  /\ worker \in [Threads -> Handlers]

\* What a handler of either thread remembers between its locked sections: the
\* votes left to track are participants of the proof it is going to store, and
\* it prunes up to a slot that has been finalized.
HandlersConsistent ==
  \A t \in Threads :
    /\ At(t, "track") => /\ worker[t].data \in Data
                         /\ worker[t].left \subseteq worker[t].proof
                         /\ worker[t].proof \subseteq Validators
    /\ At(t, "prune") => worker[t].slot \in Nat /\ worker[t].slot <= finalized

\* The inductive invariant.
IInv ==
  MapsType /\ HandlersConsistent /\ PoolsHaveData /\ VotesBacked

----------------------------------------------------------------------------
(* Facts about the operators.                                              *)

\* onAttestation leaves a validator's votes alone or sets them to the new one.
LEMMA TrackedProperties ==
  ASSUME NEW w \in [known : Votes, new : Votes], NEW d \in Data, NEW b \in Origins
  PROVE  /\ Tracked(w, d, b) \in [known : Votes, new : Votes]
         /\ Tracked(w, d, b).known \in {w.known, d}
         /\ Tracked(w, d, b).new \in {w.new, d}
  BY DEF Tracked, Votes

\* storeAggregatedPayload only adds to a map, and adds for all participants.
LEMMA WithProofProperties ==
  ASSUME NEW map \in [Keys -> Seq(SUBSET Validators)], NEW d \in Data,
         NEW proof \in SUBSET Validators
  PROVE  LET m == WithProof(map, d, proof)
         IN  /\ m \in [Keys -> Seq(SUBSET Validators)]
             /\ \A k \in Keys : map[k] # << >> => m[k] # << >>
             /\ \A k \in Keys : k[2] # d => m[k] = map[k]
             /\ \A v \in proof : m[<<v, d>>] # << >>
<1> DEFINE m == WithProof(map, d, proof)
<1>1. \A k \in Keys : m[k] = IF k \in KeysOf(d, proof) THEN Append(map[k], proof) ELSE map[k]
  BY DEF WithProof
<1>2. \A k \in Keys : Append(map[k], proof) \in Seq(SUBSET Validators)
                      /\ Append(map[k], proof) # << >>
  BY AppendProperties
<1>3. m \in [Keys -> Seq(SUBSET Validators)]
  BY <1>2 DEF WithProof
<1>4. \A k \in KeysOf(d, proof) : k[2] = d
  BY DEF KeysOf
<1>5. \A v \in proof : <<v, d>> \in Keys /\ <<v, d>> \in KeysOf(d, proof)
  BY DEF KeysOf, Keys
<1> HIDE DEF m
<1> QED
  BY <1>1, <1>2, <1>3, <1>4, <1>5 DEF m

\* acceptNewAttestations moves every new proof and keeps the known ones.
LEMMA MovedProperties ==
  ASSUME MapsType
  PROVE  /\ MovedPayloads \in [Keys -> Seq(SUBSET Validators)]
         /\ \A k \in Keys : MovedPayloads[k] # << >> <=> known[k] # << >> \/ fresh[k] # << >>
<1>1. \A k \in Keys : /\ known[k] \in Seq(SUBSET Validators)
                      /\ fresh[k] \in Seq(SUBSET Validators)
  BY DEF MapsType
<1>2. \A k \in Keys : /\ known[k] \o fresh[k] \in Seq(SUBSET Validators)
                      /\ known[k] \o fresh[k] # << >> <=> known[k] # << >> \/ fresh[k] # << >>
  BY <1>1, ConcatProperties, EmptySeq
<1> QED
  BY <1>2 DEF MovedPayloads

\* A thread that moves on leaves the other alone.
LEMMA BecomeProperties ==
  ASSUME MapsType, NEW t \in Threads, NEW w \in Handlers, Become(t, w)
  PROVE  /\ worker' \in [Threads -> Handlers]
         /\ worker'[t] = w
         /\ \A u \in Threads \ {t} : worker'[u] = worker[u]
  BY DEF MapsType, Become

----------------------------------------------------------------------------
(* The inductive invariant.                                                *)

\* The empty maps of ForkChoice.init satisfy the inductive invariant.
LEMMA InitIInv == Init => IInv
<1> SUFFICES ASSUME Init PROVE IInv
  OBVIOUS
<1>1. \A t \in Threads : worker[t] = Idle
  BY DEF Init
<1>2. Idle \in Handlers
  BY DEF Idle, Handlers, Votes, Origins
<1>3. MapsType
  BY <1>2, EmptySeq DEF Init, MapsType, Votes
<1>4. HandlersConsistent
  BY <1>1 DEF HandlersConsistent, At, Idle
<1>5. PoolsHaveData
  BY DEF Init, PoolsHaveData
<1>6. VotesBacked
  BY DEF Init, VotesBacked, Backed
<1> QED
  BY <1>3, <1>4, <1>5, <1>6 DEF IInv

\* A vote stays backed when the maps and the handlers keep what backs it.
LEMMA BackedKept ==
  ASSUME IInv, NEW v \in Validators, NEW d \in Votes, Backed(v, d),
         finalized' \in Nat, finalized <= finalized',
         <<v, d>> \in gossip => \/ <<v, d>> \in gossip'
                                \/ fresh'[<<v, d>>] # << >>
                                \/ d \in Data /\ TargetSlot[d] <= finalized',
         fresh[<<v, d>>] # << >> => \/ fresh'[<<v, d>>] # << >>
                                    \/ known'[<<v, d>>] # << >>
                                    \/ d \in Data /\ TargetSlot[d] <= finalized',
         known[<<v, d>>] # << >> => \/ known'[<<v, d>>] # << >>
                                    \/ d \in Data /\ TargetSlot[d] <= finalized',
         BeingStored(v, d) => \/ BeingStored(v, d)'
                              \/ fresh'[<<v, d>>] # << >>
                              \/ known'[<<v, d>>] # << >>
  PROVE  Backed(v, d)'
<1>1. d # NoData => d \in Data /\ TargetSlot[d] \in Nat
  BY PoolsAssumption DEF Votes
<1>2. TargetSlot[d] <= finalized /\ d # NoData => TargetSlot[d] <= finalized'
  BY <1>1 DEF IInv, MapsType
<1> QED
  BY <1>2 DEF Backed

\* VotesBacked, one vote at a time.
LEMMA VotesBackedStep ==
  ASSUME MapsType',
         \A v \in Validators : \A d \in Votes :
           d \in {trackers'[v].known, trackers'[v].new} => Backed(v, d)'
  PROVE  VotesBacked'
<1> SUFFICES ASSUME NEW v \in Validators
             PROVE  Backed(v, trackers[v].known)' /\ Backed(v, trackers[v].new)'
  BY DEF VotesBacked
<1>1. trackers'[v].known \in Votes /\ trackers'[v].new \in Votes
  BY DEF MapsType
<1>2. PICK d \in Votes : d = trackers'[v].known
  BY <1>1
<1>3. PICK e \in Votes : e = trackers'[v].new
  BY <1>1
<1>4. Backed(v, d)' /\ Backed(v, e)'
  BY <1>2, <1>3
<1>5. Backed(v, trackers[v].known)'
  BY <1>2, <1>4 DEF Backed, BeingStored, At
<1>6. Backed(v, trackers[v].new)'
  BY <1>3, <1>4 DEF Backed, BeingStored, At
<1> QED
  BY <1>5, <1>6

\* A vote received with its signature (onSignedAttestation).
LEMMA SignedStep ==
  ASSUME IInv, NEW t \in Threads, NEW w \in Validators, NEW e \in Data,
         onSignedAttestation(t, w, e)
  PROVE  IInv'
<1>0. IInv
  OBVIOUS
<1> USE DEF IInv
<1>1. /\ data' = data \cup {e} /\ gossip' = gossip \cup {<<w, e>>}
      /\ trackers' = [trackers EXCEPT ![w] = Tracked(trackers[w], e, "gossip")]
      /\ fresh' = fresh /\ known' = known /\ finalized' = finalized /\ worker' = worker
  BY DEF onSignedAttestation, chain
<1>2. Tracked(trackers[w], e, "gossip") \in [known : Votes, new : Votes]
  BY TrackedProperties DEF MapsType, Origins
<1>3. MapsType'
  BY <1>1, <1>2 DEF MapsType, Keys
<1>4. HandlersConsistent'
  BY <1>1 DEF HandlersConsistent, At
<1>5. PoolsHaveData'
  BY <1>1 DEF PoolsHaveData
<1>6. ASSUME NEW v \in Validators, NEW d \in Votes,
             d \in {trackers'[v].known, trackers'[v].new}
      PROVE  Backed(v, d)'
  <2>1. CASE v = w /\ d = e
    BY <1>1, <2>1 DEF Backed
  <2>2. CASE ~(v = w /\ d = e)
    <3>1. d \in {trackers[v].known, trackers[v].new}
      <4>1. CASE v = w
        <5>1. trackers'[v] = Tracked(trackers[v], e, "gossip")
          BY <1>1, <4>1 DEF MapsType
        <5>2. /\ Tracked(trackers[v], e, "gossip").known \in {trackers[v].known, e}
              /\ Tracked(trackers[v], e, "gossip").new \in {trackers[v].new, e}
          BY TrackedProperties DEF MapsType, Origins
        <5> QED
          BY <1>6, <2>2, <4>1, <5>1, <5>2
      <4>2. CASE v # w
        BY <1>1, <1>6, <4>2 DEF MapsType
      <4> QED
        BY <4>1, <4>2
    <3>2. Backed(v, d)
      BY <3>1 DEF VotesBacked
    <3>3. BeingStored(v, d) => BeingStored(v, d)'
      BY <1>1 DEF BeingStored, At
    <3>4. finalized' \in Nat /\ finalized <= finalized'
      BY <1>1 DEF MapsType
    <3> HIDE DEF IInv
    <3> QED
      BY <1>1, <1>0, <3>2, <3>3, <3>4, BackedKept
  <2> QED
    BY <2>1, <2>2
<1>7. VotesBacked'
  BY <1>3, <1>6, VotesBackedStep
<1> QED
  BY <1>3, <1>4, <1>5, <1>7


\* Steps that touch neither the maps nor the votes nor finality, and leave the
\* handlers consistent, keep the invariant if no proof being stored is lost.
LEMMA WorkerStep ==
  ASSUME IInv, UNCHANGED <<data, gossip, fresh, known, trackers, finalized>>,
         worker' \in [Threads -> Handlers], HandlersConsistent',
         \A v \in Validators : \A d \in Votes : BeingStored(v, d) => BeingStored(v, d)'
  PROVE  IInv'
<1>1. MapsType' /\ PoolsHaveData'
  BY DEF IInv, MapsType, PoolsHaveData
<1>2. finalized' \in Nat /\ finalized <= finalized'
  BY DEF IInv, MapsType
<1>3. ASSUME NEW v \in Validators, NEW d \in Votes,
             d \in {trackers'[v].known, trackers'[v].new}
      PROVE  Backed(v, d)'
  <2>1. Backed(v, d)
    BY <1>3 DEF IInv, VotesBacked
  <2> QED
    BY <1>2, <2>1, BackedKept
<1>4. VotesBacked'
  BY <1>1, <1>3, VotesBackedStep
<1> QED
  BY <1>1, <1>4 DEF IInv

\* A handler starts with an aggregate.
LEMMA StartStep ==
  ASSUME IInv, NEW t \in Threads, NEW e \in Data, NEW proof \in SUBSET Validators,
         NEW b \in Origins, StartAggregated(t, e, proof, b)
  PROVE  IInv'
<1> DEFINE w == [Idle EXCEPT !.pc = "track", !.data = e, !.proof = proof, !.left = proof,
                             !.origin = b]
<1>1. /\ At(t, "idle") /\ Become(t, w)
      /\ UNCHANGED <<data, gossip, fresh, known, trackers, finalized>>
  BY DEF StartAggregated, pools, chain
<1>2. /\ w \in Handlers /\ w.pc = "track" /\ w.data = e
      /\ w.proof = proof /\ w.left = proof
  BY DEF Idle, Handlers, Votes, Origins
<1> HIDE DEF w
<1>3. /\ worker' \in [Threads -> Handlers] /\ worker'[t] = w
      /\ \A u \in Threads \ {t} : worker'[u] = worker[u]
  BY <1>1, <1>2, BecomeProperties DEF IInv
<1>5. HandlersConsistent'
  BY <1>1, <1>2, <1>3 DEF IInv, HandlersConsistent, At
<1>6. \A v \in Validators : \A d \in Votes : BeingStored(v, d) => BeingStored(v, d)'
  BY <1>1, <1>3 DEF BeingStored, At
<1> QED
  BY <1>1, <1>3, <1>5, <1>6, WorkerStep

\* A participant's vote is tracked: the proof is still going to be stored.
LEMMA TrackStep ==
  ASSUME IInv, NEW t \in Threads, NEW w \in Validators, TrackVote(t, w)
  PROVE  IInv'
<1> DEFINE e == worker[t].data
           b == worker[t].origin
           x == Tracked(trackers[w], e, b)
<1>1. /\ At(t, "track") /\ w \in worker[t].left
      /\ trackers' = [trackers EXCEPT ![w] = x]
      /\ worker' = [worker EXCEPT ![t].left = @ \ {w}]
      /\ data' = data /\ gossip' = gossip /\ fresh' = fresh /\ known' = known
      /\ finalized' = finalized
  BY DEF TrackVote, pools, chain
<1>2. e \in Data /\ b \in Origins /\ w \in worker[t].proof
  BY <1>1 DEF IInv, HandlersConsistent, MapsType, Handlers
<1>3. /\ \A u \in Threads \ {t} : worker'[u] = worker[u]
      /\ worker'[t] = [worker[t] EXCEPT !.left = @ \ {w}]
  BY <1>1 DEF IInv, MapsType
<1>4. /\ worker[t] \in Handlers /\ worker'[t] \in Handlers
      /\ worker'[t].pc = worker[t].pc /\ worker'[t].data = worker[t].data
      /\ worker'[t].proof = worker[t].proof /\ worker'[t].slot = worker[t].slot
      /\ worker'[t].left \subseteq worker[t].left
  <2>1. worker[t] \in Handlers
    BY DEF IInv, MapsType
  <2> QED
    BY <1>3, <2>1 DEF Handlers
<1>5. worker' \in [Threads -> Handlers]
  BY <1>1, <1>3, <1>4 DEF IInv, MapsType
<1>6. HandlersConsistent'
  BY <1>1, <1>3, <1>4 DEF IInv, HandlersConsistent, At
<1>7. /\ x \in [known : Votes, new : Votes]
      /\ x.known \in {trackers[w].known, e} /\ x.new \in {trackers[w].new, e}
  BY <1>2, TrackedProperties DEF IInv, MapsType
<1> HIDE DEF x
<1>8. MapsType'
  BY <1>1, <1>5, <1>7 DEF IInv, MapsType
<1>9. PoolsHaveData'
  BY <1>1 DEF IInv, PoolsHaveData
<1>10. ASSUME NEW v \in Validators, NEW d \in Votes,
              d \in {trackers'[v].known, trackers'[v].new}
       PROVE  Backed(v, d)'
  <2>1. \A u \in Threads : /\ worker'[u].pc = worker[u].pc
                           /\ worker'[u].data = worker[u].data
                           /\ worker'[u].proof = worker[u].proof
    BY <1>3, <1>4
  <2>2. CASE v = w /\ d = e
    BY <1>1, <1>2, <2>1, <2>2 DEF Backed, BeingStored, At
  <2>3. CASE ~(v = w /\ d = e)
    <3>1. d \in {trackers[v].known, trackers[v].new}
      <4>1. CASE v = w
        BY <1>1, <1>7, <1>10, <2>3, <4>1 DEF IInv, MapsType
      <4>2. CASE v # w
        BY <1>1, <1>10, <4>2 DEF IInv, MapsType
      <4> QED
        BY <4>1, <4>2
    <3>2. Backed(v, d)
      BY <3>1 DEF IInv, VotesBacked
    <3>3. BeingStored(v, d) => BeingStored(v, d)'
      BY <2>1 DEF BeingStored, At
    <3>4. finalized' \in Nat /\ finalized <= finalized'
      BY <1>1 DEF IInv, MapsType
    <3> QED
      BY <1>1, <3>2, <3>3, <3>4, BackedKept
  <2> QED
    BY <2>2, <2>3
<1>11. VotesBacked'
  BY <1>8, <1>10, VotesBackedStep
<1> QED
  BY <1>6, <1>8, <1>9, <1>11 DEF IInv

\* The proof is stored for every participant, and the handler ends.
LEMMA StoreStep ==
  ASSUME IInv, NEW t \in Threads, storeAggregatedPayload(t)
  PROVE  IInv'
<1> DEFINE e == worker[t].data
           proof == worker[t].proof
<1>1. /\ At(t, "track") /\ Become(t, Idle)
      /\ data' = data \cup {e} /\ gossip' = gossip
      /\ trackers' = trackers /\ finalized' = finalized
      /\ \/ fresh' = fresh /\ known' = WithProof(known, e, proof)
         \/ fresh' = WithProof(fresh, e, proof) /\ known' = known
  BY DEF storeAggregatedPayload, chain
<1>2. e \in Data /\ proof \in SUBSET Validators
  BY <1>1 DEF IInv, HandlersConsistent
<1> HIDE DEF e, proof
<1>3. Idle \in Handlers /\ Idle.pc = "idle"
  BY DEF Idle, Handlers, Votes, Origins
<1>4. /\ worker' \in [Threads -> Handlers] /\ worker'[t] = Idle
      /\ \A u \in Threads \ {t} : worker'[u] = worker[u]
  BY <1>1, <1>3, BecomeProperties DEF IInv
<1>5. \A map \in [Keys -> Seq(SUBSET Validators)] :
        LET m == WithProof(map, e, proof)
        IN  /\ m \in [Keys -> Seq(SUBSET Validators)]
            /\ \A k \in Keys : map[k] # << >> => m[k] # << >>
            /\ \A k \in Keys : k[2] # e => m[k] = map[k]
            /\ \A v \in proof : m[<<v, e>>] # << >>
  BY <1>2, WithProofProperties
<1>6. /\ fresh \in [Keys -> Seq(SUBSET Validators)]
      /\ known \in [Keys -> Seq(SUBSET Validators)]
  BY DEF IInv, MapsType
<1>7. /\ fresh' \in [Keys -> Seq(SUBSET Validators)]
      /\ known' \in [Keys -> Seq(SUBSET Validators)]
      /\ \A k \in Keys : fresh[k] # << >> => fresh'[k] # << >>
      /\ \A k \in Keys : known[k] # << >> => known'[k] # << >>
      /\ \A k \in Keys : k[2] # e => fresh'[k] = fresh[k] /\ known'[k] = known[k]
      /\ \A v \in proof : fresh'[<<v, e>>] # << >> \/ known'[<<v, e>>] # << >>
  <2>1. CASE fresh' = fresh /\ known' = WithProof(known, e, proof)
    BY <1>5, <1>6, <2>1
  <2>2. CASE fresh' = WithProof(fresh, e, proof) /\ known' = known
    BY <1>5, <1>6, <2>2
  <2> QED
    BY <1>1, <2>1, <2>2
<1>8. MapsType'
  BY <1>1, <1>2, <1>4, <1>7 DEF IInv, MapsType
<1>9. HandlersConsistent'
  BY <1>1, <1>3, <1>4 DEF IInv, HandlersConsistent, At
<1>10. PoolsHaveData'
  BY <1>1, <1>7 DEF IInv, PoolsHaveData
<1>11. ASSUME NEW v \in Validators, NEW d \in Votes,
              d \in {trackers'[v].known, trackers'[v].new}
       PROVE  Backed(v, d)'
  <2>1. Backed(v, d)
    BY <1>1, <1>11 DEF IInv, VotesBacked
  <2>2. CASE d = NoData
    BY <2>2 DEF Backed
  <2>3. CASE d # NoData
    <3>1. <<v, d>> \in Keys
      BY <2>3 DEF Keys, Votes
    <3>2. BeingStored(v, d) => \/ BeingStored(v, d)'
                               \/ fresh'[<<v, d>>] # << >> \/ known'[<<v, d>>] # << >>
      BY <1>4, <1>7 DEF BeingStored, At, e, proof
    <3>3. finalized' \in Nat /\ finalized <= finalized'
      BY <1>1 DEF IInv, MapsType
    <3> QED
      BY <1>1, <1>7, <2>1, <3>1, <3>2, <3>3, BackedKept
  <2> QED
    BY <2>2, <2>3
<1>12. VotesBacked'
  BY <1>8, <1>11, VotesBackedStep
<1> QED
  BY <1>8, <1>9, <1>10, <1>12 DEF IInv

\* Signatures leave the gossip map only into a proof.
LEMMA AggregateStep ==
  ASSUME IInv, aggregateCommitteeSignatures
  PROVE  IInv'
<1> DEFINE voted(k) == k \in gossip /\ k[2] \in data
<1>1. /\ fresh' = [k \in Keys |-> IF voted(k) THEN Append(fresh[k], Signers(k[2])) ELSE fresh[k]]
      /\ gossip' = {k \in gossip : ~voted(k)}
      /\ data' = data /\ known' = known /\ trackers' = trackers
      /\ finalized' = finalized /\ worker' = worker
  BY DEF aggregateCommitteeSignatures, chain
<1>2. \A k \in Keys : /\ Append(fresh[k], Signers(k[2])) \in Seq(SUBSET Validators)
                      /\ Append(fresh[k], Signers(k[2])) # << >>
  <2>1. \A k \in Keys : fresh[k] \in Seq(SUBSET Validators)
    BY DEF IInv, MapsType
  <2>2. \A d : Signers(d) \in SUBSET Validators
    BY DEF Signers
  <2> QED
    BY <2>1, <2>2, AppendProperties
<1>3. /\ fresh' \in [Keys -> Seq(SUBSET Validators)]
      /\ \A k \in Keys : fresh[k] # << >> => fresh'[k] # << >>
      /\ \A k \in Keys : voted(k) => fresh'[k] # << >>
      /\ \A k \in Keys : fresh'[k] # << >> => fresh[k] # << >> \/ k[2] \in data
  BY <1>1, <1>2 DEF IInv, MapsType
<1>4. MapsType'
  BY <1>1, <1>3 DEF IInv, MapsType
<1>5. HandlersConsistent'
  BY <1>1 DEF IInv, HandlersConsistent, At
<1>6. PoolsHaveData'
  BY <1>1, <1>3 DEF IInv, PoolsHaveData
<1>7. ASSUME NEW v \in Validators, NEW d \in Votes,
             d \in {trackers'[v].known, trackers'[v].new}
      PROVE  Backed(v, d)'
  <2>1. Backed(v, d)
    BY <1>1, <1>7 DEF IInv, VotesBacked
  <2>2. CASE d = NoData
    BY <2>2 DEF Backed
  <2>3. CASE d # NoData
    <3>1. <<v, d>> \in Keys
      BY <2>3 DEF Keys, Votes
    <3>2. BeingStored(v, d) => BeingStored(v, d)'
      BY <1>1 DEF BeingStored, At
    <3>3. finalized' \in Nat /\ finalized <= finalized'
      BY <1>1 DEF IInv, MapsType
    <3>4. <<v, d>> \in gossip => <<v, d>> \in gossip' \/ fresh'[<<v, d>>] # << >>
      BY <1>1, <1>3, <3>1
    <3>5. fresh[<<v, d>>] # << >> => fresh'[<<v, d>>] # << >>
      BY <1>3, <3>1
    <3> QED
      BY <1>1, <2>1, <3>2, <3>3, <3>4, <3>5, BackedKept
  <2> QED
    BY <2>2, <2>3
<1>8. VotesBacked'
  BY <1>4, <1>7, VotesBackedStep
<1> QED
  BY <1>4, <1>5, <1>6, <1>8 DEF IInv

\* A thread without a proof to store, and not about to prune, loses nothing by
\* moving to another such state.
LEMMA FreeWorker ==
  ASSUME IInv, NEW t \in Threads, worker[t].pc # "track",
         NEW w \in Handlers, w.pc \notin {"track", "prune"}, Become(t, w),
         finalized' = finalized
  PROVE  /\ worker' \in [Threads -> Handlers] /\ HandlersConsistent'
         /\ \A v \in Validators : \A d \in Votes : BeingStored(v, d) => BeingStored(v, d)'
<1>1. /\ worker' \in [Threads -> Handlers] /\ worker'[t] = w
      /\ \A u \in Threads \ {t} : worker'[u] = worker[u]
  BY BecomeProperties DEF IInv
<1>2. HandlersConsistent'
  BY <1>1 DEF IInv, HandlersConsistent, At
<1>3. \A v \in Validators : \A d \in Votes : BeingStored(v, d) => BeingStored(v, d)'
  BY <1>1 DEF BeingStored, At
<1> QED
  BY <1>1, <1>2, <1>3

\* New votes and new proofs are promoted together.
LEMMA AcceptStep ==
  ASSUME IInv, Accept, finalized' = finalized,
         worker' \in [Threads -> Handlers], HandlersConsistent',
         \A v \in Validators : \A d \in Votes : BeingStored(v, d) => BeingStored(v, d)'
  PROVE  IInv'
<1>1. /\ known' = MovedPayloads /\ fresh' = [k \in Keys |-> << >>]
      /\ trackers' = [v \in Validators |-> [trackers[v] EXCEPT !.known = trackers[v].new]]
      /\ data' = data /\ gossip' = gossip
  BY DEF Accept
<1>2. /\ known' \in [Keys -> Seq(SUBSET Validators)]
      /\ \A k \in Keys : known'[k] # << >> <=> known[k] # << >> \/ fresh[k] # << >>
  BY <1>1, MovedProperties DEF IInv
<1>3. /\ fresh' \in [Keys -> Seq(SUBSET Validators)]
      /\ \A k \in Keys : fresh'[k] = << >>
  BY <1>1, EmptySeq
<1>4. /\ trackers' \in [Validators -> [known : Votes, new : Votes]]
      /\ \A v \in Validators : /\ trackers'[v].known = trackers[v].new
                               /\ trackers'[v].new = trackers[v].new
  BY <1>1 DEF IInv, MapsType
<1>5. MapsType'
  BY <1>1, <1>2, <1>3, <1>4 DEF IInv, MapsType
<1>6. PoolsHaveData'
  BY <1>1, <1>2, <1>3 DEF IInv, PoolsHaveData
<1>7. ASSUME NEW v \in Validators, NEW d \in Votes,
             d \in {trackers'[v].known, trackers'[v].new}
      PROVE  Backed(v, d)'
  <2>1. Backed(v, d)
    BY <1>4, <1>7 DEF IInv, VotesBacked
  <2>2. CASE d = NoData
    BY <2>2 DEF Backed
  <2>3. CASE d # NoData
    <3>1. <<v, d>> \in Keys
      BY <2>3 DEF Keys, Votes
    <3>2. finalized' \in Nat /\ finalized <= finalized'
      BY DEF IInv, MapsType
    <3>3. fresh[<<v, d>>] # << >> \/ known[<<v, d>>] # << >> => known'[<<v, d>>] # << >>
      BY <1>2, <3>1
    <3> QED
      BY <1>1, <2>1, <3>2, <3>3, BackedKept
  <2> QED
    BY <2>2, <2>3
<1>8. VotesBacked'
  BY <1>5, <1>7, VotesBackedStep
<1> QED
  BY <1>5, <1>6, <1>8 DEF IInv

\* A rebase only drops votes, and finality moves forward.
LEMMA FinalizationStep ==
  ASSUME IInv, NEW t \in Threads, NEW slot \in Slots, NEW removed \in SUBSET Data,
         StartFinalization(t, slot, removed)
  PROVE  IInv'
<1> DEFINE w == [Idle EXCEPT !.pc = "prune", !.slot = slot]
<1>1. /\ At(t, "idle") /\ slot > finalized /\ finalized' = slot /\ Become(t, w)
      /\ trackers' = [v \in Validators |-> [known |-> Surviving(trackers[v].known, removed),
                                            new |-> Surviving(trackers[v].new, removed)]]
      /\ data' = data /\ gossip' = gossip /\ fresh' = fresh /\ known' = known
  BY DEF StartFinalization, pools
<1>2. slot \in Nat
  BY PoolsAssumption
<1>3. w \in Handlers /\ w.pc = "prune" /\ w.slot = slot
  BY <1>2 DEF Idle, Handlers, Votes, Origins
<1> HIDE DEF w
<1>4. /\ worker' \in [Threads -> Handlers] /\ worker'[t] = w
      /\ \A u \in Threads \ {t} : worker'[u] = worker[u]
  BY <1>1, <1>3, BecomeProperties DEF IInv
<1>5. finalized \in Nat /\ finalized' \in Nat /\ finalized <= finalized'
  BY <1>1, <1>2 DEF IInv, MapsType
<1>6. HandlersConsistent'
  <2>1. ASSUME NEW u \in Threads \ {t}
        PROVE  At(u, "prune") => worker[u].slot \in Nat /\ worker[u].slot <= finalized'
    BY <1>5 DEF IInv, HandlersConsistent
  <2> QED
    BY <1>1, <1>2, <1>3, <1>4, <2>1, SMTT(20) DEF IInv, HandlersConsistent, At
<1>7. /\ trackers' \in [Validators -> [known : Votes, new : Votes]]
      /\ \A v \in Validators : /\ trackers'[v].known \in {trackers[v].known, NoData}
                               /\ trackers'[v].new \in {trackers[v].new, NoData}
  BY <1>1 DEF IInv, MapsType, Surviving, Votes
<1>8. MapsType'
  BY <1>1, <1>4, <1>5, <1>7 DEF IInv, MapsType
<1>9. PoolsHaveData'
  BY <1>1 DEF IInv, PoolsHaveData
<1>10. ASSUME NEW v \in Validators, NEW d \in Votes,
              d \in {trackers'[v].known, trackers'[v].new}
       PROVE  Backed(v, d)'
  <2>1. CASE d = NoData
    BY <2>1 DEF Backed
  <2>2. CASE d # NoData
    <3>1. Backed(v, d)
      BY <1>7, <1>10, <2>2, SMTT(20) DEF IInv, VotesBacked
    <3>2. BeingStored(v, d) => BeingStored(v, d)'
      BY <1>1, <1>4 DEF BeingStored, At
    <3> QED
      BY <1>1, <1>5, <3>1, <3>2, BackedKept
  <2> QED
    BY <2>1, <2>2
<1>11. VotesBacked'
  BY <1>8, <1>10, VotesBackedStep
<1> QED
  BY <1>6, <1>8, <1>9, <1>11 DEF IInv

\* What is pruned is only what finalization has overtaken.
LEMMA PruneStep ==
  ASSUME IInv, NEW t \in Threads, pruneStaleAttestationData(t)
  PROVE  IInv'
<1> DEFINE stale == {d \in data : TargetSlot[d] <= worker[t].slot}
<1>1. /\ At(t, "prune") /\ Become(t, Idle) /\ trackers' = trackers /\ finalized' = finalized
      /\ data' = data \ stale
      /\ gossip' = {k \in gossip : k[2] \notin stale}
      /\ fresh' = [k \in Keys |-> IF k[2] \in stale THEN << >> ELSE fresh[k]]
      /\ known' = [k \in Keys |-> IF k[2] \in stale THEN << >> ELSE known[k]]
  BY DEF pruneStaleAttestationData, Prune, chain
<1>2. Idle \in Handlers /\ Idle.pc = "idle"
  BY DEF Idle, Handlers, Votes, Origins
<1>3. /\ worker' \in [Threads -> Handlers] /\ HandlersConsistent'
      /\ \A v \in Validators : \A d \in Votes : BeingStored(v, d) => BeingStored(v, d)'
  BY <1>1, <1>2, FreeWorker DEF At
<1>4. \A d \in stale : d \in Data /\ TargetSlot[d] <= finalized
  <2>1. worker[t].slot \in Nat /\ worker[t].slot <= finalized /\ finalized \in Nat
    BY <1>1 DEF IInv, HandlersConsistent, MapsType
  <2>2. \A d \in stale : d \in Data /\ TargetSlot[d] \in Nat /\ TargetSlot[d] <= worker[t].slot
    BY PoolsAssumption DEF IInv, MapsType
  <2> QED
    BY <2>1, <2>2
<1> HIDE DEF stale
<1>5. MapsType'
  BY <1>1, <1>3, EmptySeq DEF IInv, MapsType
<1>6. PoolsHaveData'
  BY <1>1 DEF IInv, PoolsHaveData
<1>7. ASSUME NEW v \in Validators, NEW d \in Votes,
             d \in {trackers'[v].known, trackers'[v].new}
      PROVE  Backed(v, d)'
  <2>1. Backed(v, d)
    BY <1>1, <1>7 DEF IInv, VotesBacked
  <2>2. CASE d = NoData \/ d \in stale
    BY <1>1, <1>4, <2>2 DEF Backed
  <2>3. CASE d # NoData /\ d \notin stale
    <3>1. <<v, d>> \in Keys
      BY <2>3 DEF Keys, Votes
    <3>2. fresh'[<<v, d>>] = fresh[<<v, d>>] /\ known'[<<v, d>>] = known[<<v, d>>]
      BY <1>1, <2>3, <3>1
    <3>3. <<v, d>> \in gossip => <<v, d>> \in gossip'
      BY <1>1, <2>3
    <3>4. finalized' \in Nat /\ finalized <= finalized'
      BY <1>1 DEF IInv, MapsType
    <3> QED
      BY <1>3, <2>1, <3>2, <3>3, <3>4, BackedKept
  <2> QED
    BY <2>2, <2>3
<1>8. VotesBacked'
  BY <1>5, <1>7, VotesBackedStep
<1> QED
  BY <1>3, <1>5, <1>6, <1>8 DEF IInv

\* Every step of either thread keeps the invariant.
LEMMA NextIInv ==
  IInv /\ [Next]_vars => IInv'
<1> SUFFICES ASSUME IInv, [Next]_vars PROVE IInv'
  OBVIOUS
<1>0. /\ Idle \in Handlers /\ "loop" \in Threads
      /\ \A c \in SUBSET Keys : \A pc \in {"choose", "pack", "built"} :
           LET w == [Idle EXCEPT !.pc = pc, !.chosen = c]
           IN  w \in Handlers /\ w.pc = pc
  BY DEF Idle, Handlers, Votes, Origins, Threads
<1>1. CASE UNCHANGED vars
  BY <1>1 DEF vars, pools, chain, IInv, MapsType, HandlersConsistent, PoolsHaveData,
              VotesBacked, Backed, BeingStored, At
<1>2. ASSUME NEW t \in Threads, NEW v \in Validators, NEW d \in Data,
             onSignedAttestation(t, v, d)
      PROVE  IInv'
  BY <1>2, SignedStep
<1>3. ASSUME NEW t \in Threads, NEW d \in Data, NEW proof \in SUBSET Validators,
             NEW origin \in Origins, StartAggregated(t, d, proof, origin)
      PROVE  IInv'
  BY <1>3, StartStep
<1>4. ASSUME NEW t \in Threads, NEW v \in Validators, TrackVote(t, v)
      PROVE  IInv'
  BY <1>4, TrackStep
<1>5. ASSUME NEW t \in Threads, storeAggregatedPayload(t)
      PROVE  IInv'
  BY <1>5, StoreStep
<1>6. ASSUME worker' = worker, finalized' = finalized
      PROVE  /\ worker' \in [Threads -> Handlers] /\ HandlersConsistent'
             /\ \A v \in Validators : \A d \in Votes : BeingStored(v, d) => BeingStored(v, d)'
  BY <1>6 DEF IInv, MapsType, HandlersConsistent, BeingStored, At
<1>7. ASSUME NEW hasProposal \in BOOLEAN, TickSlot(hasProposal)
      PROVE  IInv'
  <2>1. worker' = worker /\ finalized' = finalized
    BY <1>7 DEF TickSlot
  <2>2. CASE Accept
    BY <1>6, <2>1, <2>2, AcceptStep
  <2>3. CASE UNCHANGED <<pools, trackers>>
    BY <1>6, <2>1, <2>3, WorkerStep DEF pools
  <2> QED
    BY <1>7, <2>2, <2>3 DEF TickSlot
<1>8. CASE aggregateCommitteeSignatures
  BY <1>8, AggregateStep
<1>9. CASE acceptNewAttestations
  <2>1. Accept /\ worker' = worker /\ finalized' = finalized
    BY <1>9 DEF acceptNewAttestations, chain
  <2> QED
    BY <1>6, <2>1, AcceptStep
<1>10. CASE getProposalHead
  <2>1. /\ Accept /\ finalized' = finalized /\ worker["loop"].pc # "track"
        /\ Become("loop", [Idle EXCEPT !.pc = "choose"])
    BY <1>10 DEF getProposalHead, chain, At
  <2>2. [Idle EXCEPT !.pc = "choose"] \in Handlers /\ [Idle EXCEPT !.pc = "choose"].pc = "choose"
    BY DEF Idle, Handlers, Votes, Origins
  <2> QED
    BY <1>0, <2>1, <2>2, FreeWorker, AcceptStep
<1>11. CASE getProposalAttestations
  <2> DEFINE votes == {<<v, trackers[v].known>> :
                         v \in {u \in Validators : trackers[u].known # NoData}}
             c == {k \in votes : Source[k[2]] = justified}
             w == [Idle EXCEPT !.pc = "pack", !.chosen = c]
  <2>1. /\ Become("loop", w) /\ worker["loop"].pc # "track"
        /\ finalized' = finalized /\ UNCHANGED <<pools, trackers>>
    BY <1>11 DEF getProposalAttestations, chain, At
  <2>2. \A v \in Validators : trackers[v].known # NoData => trackers[v].known \in Data
    BY DEF IInv, MapsType, Votes
  <2>3. c \in SUBSET Keys
    BY <2>2 DEF Keys
  <2> HIDE DEF c
  <2>4. w \in Handlers /\ w.pc = "pack"
    BY <1>0, <2>3
  <2> HIDE DEF w
  <2> QED
    BY <1>0, <2>1, <2>4, FreeWorker, WorkerStep DEF pools
<1>12. CASE computeAggregatedSignatures
  <2>1. /\ Become("loop", [Idle EXCEPT !.pc = "built"])
        /\ finalized' = finalized /\ worker["loop"].pc # "track"
        /\ UNCHANGED <<pools, trackers>>
    BY <1>12 DEF computeAggregatedSignatures, chain, At
  <2>2. [Idle EXCEPT !.pc = "built"] \in Handlers /\ [Idle EXCEPT !.pc = "built"].pc = "built"
    BY DEF Idle, Handlers, Votes, Origins
  <2> QED
    BY <1>0, <2>1, <2>2, FreeWorker, WorkerStep DEF pools
<1>13. ASSUME NEW slot \in Slots, BlockDone(slot)
       PROVE  IInv'
  <2>1. /\ Become("loop", Idle) /\ Idle.pc = "idle"
        /\ finalized' = finalized /\ worker["loop"].pc # "track"
        /\ UNCHANGED <<pools, trackers>>
    BY <1>13 DEF BlockDone, At, Idle
  <2> QED
    BY <1>0, <2>1, FreeWorker, WorkerStep DEF pools
<1>14. ASSUME NEW slot \in Slots, Justify(slot)
       PROVE  IInv'
  <2>1. worker' = worker /\ finalized' = finalized /\ UNCHANGED <<pools, trackers>>
    BY <1>14 DEF Justify
  <2> QED
    BY <1>6, <2>1, WorkerStep DEF pools
<1>15. ASSUME NEW t \in Threads, NEW slot \in Slots, NEW removed \in SUBSET Data,
              StartFinalization(t, slot, removed)
       PROVE  IInv'
  BY <1>15, FinalizationStep
<1>16. ASSUME NEW t \in Threads, pruneStaleAttestationData(t)
       PROVE  IInv'
  BY <1>16, PruneStep
<1> QED
  BY <1>1, <1>2, <1>3, <1>4, <1>5, <1>7, <1>8, <1>9, <1>10, <1>11, <1>12, <1>13,
     <1>14, <1>15, <1>16 DEF Next

\* The maps stay consistent whatever order the handlers of the two threads
\* come in: a signature or payload never loses its attestation data.
THEOREM PoolsConsistent == Spec => []PoolsHaveData
<1>1. IInv => PoolsHaveData
  BY DEF IInv
<1> QED
  BY InitIInv, NextIInv, <1>1, PTL DEF Spec

\* A vote the fork choice counts can always be put into a block, until
\* finalization overtakes its target.
THEOREM VotesStayBacked == Spec => []VotesBacked
<1>1. IInv => VotesBacked
  BY DEF IInv
<1> QED
  BY InitIInv, NextIInv, <1>1, PTL DEF Spec
=============================================================================
