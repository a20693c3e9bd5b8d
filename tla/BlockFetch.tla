----------------------------- MODULE BlockFetch -----------------------------
(***************************************************************************)
(* How a node obtains the blocks it does not have (BeamNode in             *)
(* pkgs/node/src/node.zig and Network in pkgs/node/src/network.zig): gossip *)
(* blocks without a parent, or from a future slot, are cached; missing     *)
(* parents and attestation heads are requested by root; a block that is    *)
(* imported releases its cached descendants; finalization prunes.          *)
(*                                                                         *)
(* A handler runs to its end before the next one starts (`work` holds what *)
(* is left of the current one). Importing a block is abstracted to its     *)
(* outcome; what a block finalizes and which attestation heads its body    *)
(* names are constants of the block.                                       *)
(***************************************************************************)
EXTENDS Integers, Sequences, FiniteSetsExt

CONSTANTS
  Roots,          \* roots of all blocks, a set of naturals; 1 is the anchor
  Parent, Slot,   \* functions on Roots; a parent is smaller than its child
  Finalizes,      \* the block that importing a block finalizes (1: nothing)
  Mentions,       \* heads of the attestations in a block's body
  Own,            \* blocks this node proposes; nothing builds on them
  Invalid,        \* blocks that signature checks or the state transition refuse
  MaxSlot, MaxPeers,
  MaxRequests,    \* outstanding requests; beyond it sending fails
  MAX_CACHED_BLOCKS, MAX_BLOCK_FETCH_DEPTH, MAX_FUTURE_SLOT_TOLERANCE

ASSUME FetchAssumption ==
  /\ Roots \subseteq Nat \ {0} /\ 1 \in Roots /\ IsFiniteSet(Roots)
  /\ Parent \in [Roots -> Roots \cup {0}] /\ Slot \in [Roots -> Nat]
  /\ \A r \in Roots : Parent[r] < r /\ (Parent[r] = 0 <=> r = 1)
  /\ \A r \in Roots \ {1} : Slot[Parent[r]] < Slot[r]
  /\ Finalizes \in [Roots -> Roots] /\ Mentions \in [Roots -> SUBSET Roots]
  /\ Invalid \subseteq Roots \ {1}
  /\ Own \subseteq Roots \ {1} /\ \A r \in Roots : Parent[r] \notin Own
  /\ {MaxSlot, MaxPeers, MaxRequests} \subseteq Nat
  /\ {MAX_CACHED_BLOCKS, MAX_BLOCK_FETCH_DEPTH, MAX_FUTURE_SLOT_TOLERANCE} \subseteq Nat

VARIABLES
  known,      \* blocks of the fork choice
  finalized,  \* root of fcStore.latest_finalized
  emitted,    \* root of last_emitted_finalized
  clock,      \* current slot of the fork choice clock
  queue,      \* BeamChain.pending_blocks
  peers,      \* number of connected peers
  net,        \* the maps of Network
  work        \* what the running handler still has to do, first item first

vars == <<known, finalized, emitted, clock, queue, peers, net, work>>

Ancestors[r \in Roots] == {r} \cup (IF Parent[r] \in Roots THEN Ancestors[Parent[r]] ELSE {})

Descendants(r) == {d \in Roots : r \in Ancestors[d]}

Init ==
  /\ known = {1} /\ finalized = 1 /\ emitted = 1
  /\ clock = Slot[1]
  /\ queue = {}
  /\ peers = 0
  /\ net = [fetched  |-> {},                            \* fetched_blocks
            children |-> {},                            \* pairs of fetched_block_children
            pending  |-> << >>,                         \* pending_block_roots: root -> depth
            requests |-> [i \in 1 .. MaxRequests |-> {}]] \* {}: no such request
  /\ work = << >>

----------------------------------------------------------------------------
(* Network                                                                 *)

Without(f, keys) == [k \in DOMAIN f \ keys |-> f[k]]

hasPendingBlockRoot(n, r) == r \in DOMAIN n.pending

removePendingBlockRoot(n, r) == [n EXCEPT !.pending = Without(@, {r})]

getChildrenOfBlock(n, parent) == {p[2] : p \in {q \in n.children : q[1] = parent}}

cacheFetchedBlock(n, r) ==
  [n EXCEPT !.fetched = @ \cup {r}, !.children = @ \cup {<<Parent[r], r>>}]

\* Mutant: the parent's child list keeps the removed block.
RemoveKeepsChild(n, roots) == [n EXCEPT !.fetched = @ \ roots]

\* removeFetchedBlock of every cached root of a set.
removeFetchedBlocks(n, roots) ==
  [n EXCEPT !.fetched = @ \ roots,
            !.children = {p \in @ : p[2] \notin roots \cap n.fetched}]

\* The cached ancestors of a cached block, up to the first gap.
CachedAncestors(n, r) ==
  LET up[b \in Roots] == IF Parent[b] \in n.fetched
                         THEN {Parent[b]} \cup up[Parent[b]] ELSE {}
  IN  IF r \in n.fetched THEN up[r] ELSE {}

\* What pruneCachedBlocks collects: the block, its cached ancestors and all
\* their cached descendants, except the block `keep` and what hangs below it.
Family(n, r, keep) ==
  LET top == {r} \cup CachedAncestors(n, r)
      down[b \in Roots] ==
        b \in top \/ (<<Parent[b], b>> \in n.children /\ b # keep /\ down[Parent[b]])
  IN  {b \in Roots : down[b]}

RemoveAll(n, roots) == [removeFetchedBlocks(n, roots) EXCEPT !.pending = Without(@, roots)]

\* pruneCachedBlocks(r, null)
pruneCachedBlocks(n, r) == RemoveAll(n, Family(n, r, 0))

\* Mutant: a cached block in the finalized slot is kept.
PruneBelowFinalized(n, cp) ==
  LET old == {r \in n.fetched : Slot[r] < Slot[cp] /\ r # cp}
  IN  RemoveAll(n, UNION {Family(n, r, cp) : r \in old})

\* Mutant: cached blocks without a parent in the fork choice go as well.
PruneUnconnected(n, cp) ==
  LET old == {r \in n.fetched : (Slot[r] <= Slot[cp] \/ Parent[r] \notin known) /\ r # cp}
  IN  RemoveAll(n, UNION {Family(n, r, cp) : r \in old})

\* pruneCachedBlocksCallback: the families of the cached blocks at or before
\* the finalized slot. The finalized block and its descendants stay.
pruneCachedBlocksCallback(n, cp) ==
  LET old == {r \in n.fetched : Slot[r] <= Slot[cp] /\ r # cp}
  IN  RemoveAll(n, UNION {Family(n, r, cp) : r \in old})

Outstanding(n) == {i \in DOMAIN n.requests : n.requests[i] # {}}

FreeRequests(n) == {i \in DOMAIN n.requests : n.requests[i] = {}}

\* sendBlocksByRootRequest: a root that is pending already keeps its depth.
sendBlocksByRootRequest(n, roots, depth) ==
  LET id == CHOOSE i \in FreeRequests(n) : \A j \in FreeRequests(n) : i <= j
  IN  [n EXCEPT !.requests[id] = roots,
                !.pending = [r \in DOMAIN @ \cup roots |->
                               IF r \in DOMAIN @ THEN @[r] ELSE depth]]

shouldRequestBlocksByRoot(n, roots) ==
  \E r \in roots : ~hasPendingBlockRoot(n, r) /\ r \notin n.fetched

\* Mutant: the roots of the request stay pending.
FinalizeKeepsPending(n, id) == [n EXCEPT !.requests[id] = {}]

finalizePendingRequest(n, id) ==
  [n EXCEPT !.requests[id] = {}, !.pending = Without(@, n.requests[id])]

----------------------------------------------------------------------------
(* BeamNode: helpers                                                       *)

\* fetchBlockByRoots. Without peers, or if sending fails, the error is logged
\* and nothing else happens.
fetchBlockByRoots(n, roots, depth) ==
  LET missing == roots \ known
  IN  IF shouldRequestBlocksByRoot(n, missing) /\ peers > 0 /\ FreeRequests(n) # {}
      THEN sendBlocksByRootRequest(n, missing, depth) ELSE n

\* The outcome of BeamChain.onBlock.
ImportError(r) ==
  IF Parent[r] \notin known THEN "MissingPreState"
  ELSE IF r \in Invalid THEN "Refused"
  ELSE IF Slot[r] > clock THEN "FutureSlot"
  ELSE IF Slot[r] < Slot[finalized] THEN "PreFinalizedSlot"
  ELSE IF finalized \notin Ancestors[r] THEN "Refused"
  ELSE "none"

NewFinalized(r) ==
  IF Slot[Finalizes[r]] > Slot[finalized] THEN Finalizes[r] ELSE finalized

\* A successful import without onBlockFollowup ...
Import(r) ==
  /\ known' = known \cup {r}
  /\ finalized' = NewFinalized(r)
  /\ UNCHANGED emitted

\* ... and with it: a finalization advance rebases the fork choice and prunes
\* the cache. n is the network before the followup.
FollowedImport(r, n) ==
  LET advances == Slot[NewFinalized(r)] > Slot[emitted]
  IN  /\ finalized' = NewFinalized(r)
      /\ emitted' = IF advances THEN NewFinalized(r) ELSE emitted
      /\ known' = IF advances THEN (known \cup {r}) \cap Descendants(NewFinalized(r))
                  ELSE known \cup {r}
      /\ net' = IF advances THEN pruneCachedBlocksCallback(n, NewFinalized(r)) ELSE n

CanCache(n, r) ==
  /\ r \notin n.fetched
  /\ Cardinality(n.fetched) < MAX_CACHED_BLOCKS

\* cacheBlockAndFetchParent, with the callers' reaction to PreFinalized.
cacheBlockAndFetchParent(n, r, depth) ==
  IF Slot[r] <= Slot[finalized] THEN pruneCachedBlocks(n, r)
  ELSE IF CanCache(n, r) THEN fetchBlockByRoots(cacheFetchedBlock(n, r), {Parent[r]}, depth)
  ELSE n

\* cacheFutureBlock, with the caller's reaction to PreFinalized.
cacheFutureBlock(n, r) ==
  IF Slot[r] <= Slot[finalized] THEN pruneCachedBlocks(n, r)
  ELSE IF CanCache(n, r) THEN cacheFetchedBlock(n, r)
  ELSE n

\* An item of work: blocks to try, then roots to fetch.
Item(kind, roots, fetch) == [kind |-> kind, roots |-> roots, fetch |-> fetch]

\* processCachedDescendants(r), after which the missing heads of r are fetched.
Children(n, r, heads) == Item("children", getChildrenOfBlock(n, r), heads)

\* The heads onBlock reports as missing.
MissingHeads(r) == Mentions[r] \ (known \cup {r})

UnchangedChain == UNCHANGED <<known, finalized, emitted>>

Idle == work = << >>

Arrivals == Roots \ Own

----------------------------------------------------------------------------
(* BeamNode: handlers                                                      *)

\* BeamChain.onGossip for a block whose parent is known, with the reaction of
\* BeamNode.onGossip to its errors. n has the block no longer pending.
ChainGossip(r, n) ==
  \/ /\ \/ r \in known                                   \* already present
        \/ /\ r \notin known /\ Slot[r] \in Slot[finalized] .. clock
           /\ ImportError(r) = "Refused"
     /\ net' = n
     /\ UnchangedChain /\ UNCHANGED <<queue, work>>
  \/ /\ r \notin known /\ Slot[r] > clock + MAX_FUTURE_SLOT_TOLERANCE
     /\ net' = cacheFutureBlock(n, r)
     /\ UnchangedChain /\ UNCHANGED <<queue, work>>
  \/ /\ r \notin known /\ Slot[r] < Slot[finalized]
     /\ net' = pruneCachedBlocks(n, r)
     /\ UnchangedChain /\ UNCHANGED <<queue, work>>
  \/ /\ r \notin known
     /\ Slot[r] \in (clock + 1) .. (clock + MAX_FUTURE_SLOT_TOLERANCE)
     /\ queue' = queue \cup {r}
     /\ net' = n
     /\ UnchangedChain /\ UNCHANGED work
  \/ /\ r \notin known /\ ImportError(r) = "none"
     /\ FollowedImport(r, n)
     /\ work' = <<Children(net', r, MissingHeads(r))>>
     /\ UNCHANGED queue

\* A gossip block comes from a connected peer.
onGossip(r) ==
  LET n == removePendingBlockRoot(net, r)
  IN  /\ Idle /\ peers > 0
      /\ IF Parent[r] \in known THEN ChainGossip(r, n)
         ELSE /\ net' = cacheBlockAndFetchParent(n, r, 0)
              /\ UnchangedChain /\ UNCHANGED <<queue, work>>
      /\ UNCHANGED <<clock, peers>>

\* Mutant: one level deeper than MAX_BLOCK_FETCH_DEPTH.
TooDeepOffByOne(depth) == depth > MAX_BLOCK_FETCH_DEPTH

TooDeep(depth) == depth >= MAX_BLOCK_FETCH_DEPTH

\* A chunk of an answer; it may hold a block that was not asked for.
processBlockByRootChunk(id, r) ==
  LET depth == IF hasPendingBlockRoot(net, r) THEN net.pending[r] ELSE 0
      n     == removePendingBlockRoot(net, r)
      error == ImportError(r)
  IN  /\ Idle /\ net.requests[id] # {}
      /\ \/ /\ r \in known
            /\ net' = n /\ work' = <<Children(n, r, {})>>
            /\ UnchangedChain
         \/ /\ r \notin known /\ error # "none"
            /\ net' = CASE error = "MissingPreState" /\ ~TooDeep(depth) ->
                             cacheBlockAndFetchParent(n, r, depth + 1)
                        [] error = "PreFinalizedSlot" -> pruneCachedBlocks(n, r)
                        [] OTHER -> n
            /\ UnchangedChain /\ UNCHANGED work
         \/ /\ r \notin known /\ error = "none"
            /\ FollowedImport(r, n)
            /\ work' = <<Children(net', r, MissingHeads(r))>>
      /\ UNCHANGED <<clock, queue, peers>>

\* The .completed and .failure events of handleReqRespResponse.
RequestEnds(id) ==
  /\ Idle /\ net.requests[id] # {}
  /\ net' = finalizePendingRequest(net, id)
  /\ UnchangedChain /\ UNCHANGED <<clock, queue, peers, work>>

\* A status response of a peer that is ahead starts the sync at the peer's head.
StatusResponse(head) ==
  /\ Idle /\ peers > 0
  /\ net' = fetchBlockByRoots(net, {head}, 0)
  /\ UnchangedChain /\ UNCHANGED <<clock, queue, peers, work>>

\* A gossip attestation or aggregation names a block that the fork choice does
\* not have: the vote is dropped and the block is fetched.
GossipVoteForUnknown(r) ==
  /\ Idle /\ peers > 0
  /\ r \notin known
  /\ net' = fetchBlockByRoots(net, {r}, 0)
  /\ UnchangedChain /\ UNCHANGED <<clock, queue, peers, work>>

onPeerConnected ==
  /\ Idle /\ peers < MaxPeers
  /\ peers' = peers + 1
  /\ UnchangedChain /\ UNCHANGED <<clock, queue, net, work>>

\* disconnectPeer finalizes the requests that the peer had: all of them when it
\* was the only peer.
onPeerDisconnected(ids) ==
  /\ Idle /\ peers > 0
  /\ peers = 1 => ids = Outstanding(net)
  /\ peers' = peers - 1
  /\ net' = FoldSet(LAMBDA id, n : finalizePendingRequest(n, id), net, ids)
  /\ UnchangedChain /\ UNCHANGED <<clock, queue, work>>

\* One interval of onInterval: the clock may enter a slot, then the queue is
\* replayed, timed-out requests are swept and ready cached blocks processed.
onInterval ==
  /\ Idle
  /\ \/ clock < MaxSlot /\ clock' = clock + 1
     \/ UNCHANGED clock
  /\ LET ready == {r \in queue : Slot[r] <= clock'}
     IN  /\ queue' = queue \ ready
         /\ work' = <<Item("replay", ready, {}), Item("sweep", {}, {}), Item("ready", {}, {})>>
  /\ UnchangedChain /\ UNCHANGED <<peers, net>>

\* publishBlock of a block this node's validator produced: the missing heads are
\* fetched before the followup. If publishing fails there is no followup.
publishBlock(r) ==
  LET n == fetchBlockByRoots(net, MissingHeads(r), 0)
  IN  /\ Idle
      /\ r \notin known /\ Slot[r] = clock /\ ImportError(r) = "none"
      /\ \/ FollowedImport(r, n)
         \/ Import(r) /\ net' = n
      /\ UNCHANGED <<clock, queue, peers, work>>

----------------------------------------------------------------------------
(* The rest of a running handler                                           *)

Doing(kind) == work # << >> /\ Head(work).kind = kind

\* The work left once r of the first item is dealt with, and f is to be fetched.
RestWithout(r, f) ==
  <<Item(Head(work).kind, Head(work).roots \ {r}, Head(work).fetch \cup f)>> \o Tail(work)

\* processPendingBlocks, one queued block.
ReplayQueued ==
  /\ Doing("replay")
  /\ \E r \in Head(work).roots :
       \/ /\ ImportError(r) # "none"
          /\ work' = RestWithout(r, {})
          /\ UnchangedChain /\ UNCHANGED net
       \/ /\ ImportError(r) = "none"
          /\ FollowedImport(r, net)
          /\ work' = RestWithout(r, IF r \in known THEN {} ELSE MissingHeads(r))
  /\ UNCHANGED <<clock, queue, peers>>

\* sweepTimedOutRequests for one request: its roots are asked for one by one.
Retry(n, id) ==
  LET depth(r) == IF hasPendingBlockRoot(n, r) THEN n.pending[r] ELSE 0
  IN  FoldSet(LAMBDA r, m : fetchBlockByRoots(m, {r}, depth(r)),
              finalizePendingRequest(n, id), n.requests[id])

sweepTimedOutRequests ==
  /\ Doing("sweep")
  /\ \E timedOut \in SUBSET Outstanding(net) :
       net' = FoldSet(LAMBDA id, n : Retry(n, id), net, timedOut)
  /\ work' = Tail(work)
  /\ UnchangedChain /\ UNCHANGED <<clock, queue, peers>>

\* Mutant: blocks of the current slot wait for the next one.
ReadyParentsLate ==
  {Parent[r] : r \in {q \in net.fetched : Slot[q] < clock}} \cap known

ReadyParents ==
  {Parent[r] : r \in {q \in net.fetched : Slot[q] <= clock}} \cap known

processReadyCachedBlocks ==
  /\ Doing("ready")
  /\ work' = <<Item("children",
                    UNION {getChildrenOfBlock(net, p) : p \in ReadyParents}, {})>>
             \o Tail(work)
  /\ UnchangedChain /\ UNCHANGED <<clock, queue, peers, net>>

\* processCachedDescendants, one cached child.
processCachedDescendant ==
  /\ Doing("children")
  /\ \E d \in Head(work).roots :
       LET rest    == RestWithout(d, {})
           removed == removeFetchedBlocks(net, {d})
           error   == ImportError(d)
       IN  \/ /\ d \notin net.fetched
              /\ work' = rest
              /\ UnchangedChain /\ UNCHANGED net
           \/ /\ d \in net.fetched /\ d \in known
              /\ net' = removed
              /\ work' = <<Children(removed, d, {})>> \o rest
              /\ UnchangedChain
           \/ /\ d \in net.fetched \ known /\ error # "none"
              /\ net' = CASE error = "PreFinalizedSlot" -> pruneCachedBlocks(net, d)
                          [] error = "Refused" -> removed
                          [] OTHER -> net
              /\ work' = rest
              /\ UnchangedChain
           \/ /\ d \in net.fetched \ known /\ error = "none"
              /\ Import(d)
              /\ net' = removed
              /\ work' = <<Children(removed, d, MissingHeads(d))>> \o rest
  /\ UNCHANGED <<clock, queue, peers>>

\* All blocks of an item are done: fetchBlockByRoots of the missing heads.
FinishItem ==
  /\ Doing("replay") \/ Doing("children")
  /\ Head(work).roots = {}
  /\ net' = fetchBlockByRoots(net, Head(work).fetch, 0)
  /\ work' = Tail(work)
  /\ UnchangedChain /\ UNCHANGED <<clock, queue, peers>>

HandlerStep ==
  \/ ReplayQueued
  \/ sweepTimedOutRequests
  \/ processReadyCachedBlocks
  \/ processCachedDescendant
  \/ FinishItem

Next ==
  \/ HandlerStep
  \/ onInterval
  \/ \E r \in Arrivals : onGossip(r)
  \/ \E r \in Arrivals, id \in DOMAIN net.requests : processBlockByRootChunk(id, r)
  \/ \E id \in DOMAIN net.requests : RequestEnds(id)
  \/ \E head \in Arrivals : StatusResponse(head)
  \/ \E r \in Arrivals : GossipVoteForUnknown(r)
  \/ onPeerConnected
  \/ \E ids \in SUBSET Outstanding(net) : onPeerDisconnected(ids)
  \/ \E r \in Own : publishBlock(r)

Spec == Init /\ [][Next]_vars

\* The interval timer keeps firing and a handler that has started finishes.
FairSpec == Spec /\ WF_vars(HandlerStep) /\ WF_vars(onInterval)

----------------------------------------------------------------------------
(* Properties                                                              *)

\* Whatever is cached, fetched for a vote, retried or answered, the cache never
\* exceeds its size and no root is asked for deeper than the fetch depth limit:
\* the callers of cacheFetchedBlock and fetchBlockByRoots check both.
LimitsRespected ==
  /\ Cardinality(net.fetched) <= MAX_CACHED_BLOCKS
  /\ \A r \in DOMAIN net.pending : net.pending[r] <= MAX_BLOCK_FETCH_DEPTH

\* fetched_block_children lists exactly the cached blocks under their parents:
\* the two maps that cacheFetchedBlock and removeFetchedBlock keep never drift
\* apart, so no cached block is missed when its parent is imported.
ChildIndexMatches == net.children = {<<Parent[r], r>> : r \in net.fetched}

\* A pending root is always covered by an outstanding request. A pending root
\* is never requested again, so one without a request would never be fetched.
PendingIsRequested ==
  \A r \in DOMAIN net.pending : \E id \in Outstanding(net) : r \in net.requests[id]

\* Once a finalization is followed up, only blocks after the finalized slot (or
\* the finalized block itself) are cached.
CacheAfterFinalized == \A r \in net.fetched : Slot[r] > Slot[emitted] \/ r = emitted

\* When finalization advances, a cached descendant of the finalized block stays
\* cached unless it was imported or refused: pruning drops other branches only.
FinalizedBranchKept ==
  [][emitted' # emitted =>
       \A r \in net.fetched : emitted' \in Ancestors[r] => r \in net'.fetched]_vars

\* A cached block whose parent is in the fork choice and whose slot has come
\* does not wait for ever: the interval handler imports or drops it, unless
\* finalization removes its parent first (such a block stays until its own slot
\* is finalized).
ReadyBlocksLeave ==
  \A r \in {q \in Arrivals \ {1} : Slot[q] <= MaxSlot} :
    (r \in net.fetched /\ Parent[r] \in known /\ Slot[r] <= clock)
      ~> (r \notin net.fetched \/ Parent[r] \notin known)
=============================================================================
