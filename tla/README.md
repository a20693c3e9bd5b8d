# Verification of zeam

zeam is a lean-consensus Ethereum client written in Zig with Rust bindings for
libp2p, XMSS signatures and proving. This directory holds TLA+ models of its
consensus-critical parts, its storage, its transport and its foreign-function
boundary, the TLC configurations that check them on small instances, and TLAPS
proofs.

## The system

| part | source | what it does |
|---|---|---|
| state transition | `pkgs/types/src/state.zig`, `pkgs/types/src/utils.zig`, `pkgs/state-transition/src/transition.zig` | slots, block header, attestations; 3SF-mini justification and finalization |
| chain | `pkgs/node/src/chain.zig` | imports blocks, keeps post states, the pending queue and the root-to-slot cache, follows finalization, produces blocks and votes |
| fork choice | `pkgs/node/src/forkchoice.zig` | proto array, vote trackers, head, safe target, rebase, signature pools |
| node and network | `pkgs/node/src/node.zig`, `pkgs/node/src/network.zig` | gossip, by-root requests, cache of blocks whose parent is missing |
| validator client, clock | `pkgs/node/src/validator_client.zig`, `pkgs/node/src/clock.zig` | duties by slot and interval |
| database | `pkgs/database/src/` | RocksDB namespaces for blocks, states and slot indices |
| start-up | `pkgs/cli/src/node.zig` | anchor state, key pairs, wiring of the parts |
| transport | `pkgs/network/src/`, `rust/libp2p-glue/src/` | connections, gossip and request/response over libp2p |
| keys and signatures | `pkgs/key-manager/src/`, `pkgs/xmss/src/`, `rust/hashsig-glue/src/`, `rust/multisig-glue/src/` | XMSS keys, signatures and aggregates behind raw pointers |
| API | `pkgs/cli/src/api_server.zig`, `pkgs/api/src/` | HTTP endpoints and the event stream |
| the rest | proving, metrics, logging, command line, tools | not modelled, see below |

Two threads matter. The event loop ticks the clock, replays queued blocks and
runs the validator's duties. The network bridge thread runs the gossip and
request/response callbacks to their end. The fork choice is the only shared
state with a lock: every public method holds it for its whole duration, and
nothing holds it between two methods. `BeamChain.states`, `pending_blocks`, the
public key cache and the maps of `Network` have no lock.

## Modules

| module | models | state and actions |
|---|---|---|
| `JustifiableSlot` | `IsJustifiableSlot` | an operator |
| `StateTransition` | the state transition function | operators on beam states; one attestation is one operator |
| `JustificationCodec` | `withJustifications`, `getJustification` | the flat form of the vote map |
| `BlockImport` | `BeamChain.onBlock` with its finalization followup | `states`, `cache`, `finalized`, `emitted`, the working state `post`; `StartImport`, `ImportAttestation`, `AbortImport`, `FinishImport`, `RefuseImport`, and the states `onInterval` drops (`PrunePeriodically`) |
| `ChainDb` | `BlockImport` with the database and `getFinalizedState` | `disk`, and `loaded`, the finalized state kept for the API; an import's two batches (`StoreImport`), a crash at any step (`Restart`) and between the batches (`RestartBetweenBatches`), the start from what is on disk (`StartFrom`), blocks imported again afterwards (`ImportAgain`), a request for the finalized state (`ServeFinalizedState`) |
| `ProtoArray` | `ProtoArray`, canonical view and analysis, rebase of the node list | operators on the node list |
| `ForkChoice` | `ForkChoice` | operators on the record of its locked fields, one per public method |
| `ImportThreads` | the two threads over the fork choice | one action per locked section of `onBlock`, `onBlockFollowup`, `processFinalizationAdvancement`, `onInterval` with its head update and periodic pruning, `produceBlock` |
| `BlockFetch` | `BeamNode` and `Network` | one action per handler; `work` is what the running handler still has to do |
| `SignaturePools` | the maps behind `signatures_mutex`, the vote trackers, the proposer's aggregates | `data`, `gossip`, `new`, `known`, the votes, and what each thread's handler still has to do; one action per locked section |
| `SignatureHandles` | ownership of the objects Rust boxes for the Zig side | `live` is the Rust heap, `keys` and `cache` the lasting owners, `replaced` the key pairs nobody owns any more, `task` the running operation; one action per foreign call |
| `ReqRespStreams` | request/response over the bridge: `sendRPCRequest`, the Rust event loop, `ReqRespConnectionHandler` on both sides, `onReqRespRequest` | one action per swarm event, per substream step and per call across the bridge |
| `RequestLifecycle` | what a request promises its caller | responses in order, one end, nothing after it; refined by `ReqRespStreams` |
| `FrameCodec` | length prefix, snappy chunk scan and the four codec functions | operators on a layout and a number of bytes |
| `FramedStream` | one direction of a substream: codec, byte stream, `Framed` reader | a sender, reads that stop anywhere, messages yielded, ends and errors |
| `Reconnection` | dials, connections, the reconnection queue shared by the networks of a process, the node's peers | one action per swarm event and per due reconnection |
| `BlockImportProofs`, `ChainDbProofs`, `SignaturePoolsProofs`, `ReconnectionProofs` | | theorems |

The MC modules give the constants their values. `PROJECT.json` maps every
definition to the lines it models.

Abstractions. Roots are numbers (hashes are injective). A payload that no
property tells apart is left out. In `ImportThreads` the state transition is
reduced to what `BlockImport` shows of its checkpoints, plus the safety of the
protocol with fewer than a third of equivocating validators (`PostJustified`,
`PostFinalized`). In `BlockFetch` an import is reduced to its outcome and each
block's effect on finality is a constant. In `FrameCodec` a stream is the list
of its chunks with their lengths, and what has arrived of it is a number of
bytes. In `SignatureHandles` a handle is an address, reused after it is freed,
and a foreign call is the set of results it may return. In `ChainDb` a batch is
atomic and durable, which is what a RocksDB write batch promises.

## Runs

| run | checks | bounds and why |
|---|---|---|
| `block_import` | stored states well formed, finality along branches, internal errors unreachable, vote encoding; recorded finality loads again, the finalized index is one chain, the API serves finalized states, a restart loses at most the finalization under way | 3 validators, 5 blocks, slots 1, 2, 3 and 5, votes of a quorum or of one validator: a block can finalize slot 1 while votes for slots 2 and 3 are pending, and forks, empty slots, prunings, restarts and repeated imports fit in |
| `cache_in_sync` | violated: finding 1 | 6 blocks, slots 1 to 4 |
| `fork_choice` | head and safe target against GHOST from scratch, weights against votes, the attestation target between the justified checkpoint and the head | 2 validators, 4 blocks: two siblings, one of which is finalized and the other pruned; votes for two of them; the bridge thread imports, the event loop ticks to a safe-target and an accept interval |
| `import_threads` | a rebase drops no final block before it is indexed and nothing below its target; periodic pruning spares the subtree it takes for settled | both threads import, 4 blocks, so that one finalization can overtake another; pruning interval 1 and a late tick, so that pruning is due; no gossip votes: the properties do not depend on them |
| `lost_vote`, `stale_view` | violated: findings 2 and 3 | 1 validator, 4 blocks |
| `block_fetch` | cache, child index and pending roots agree, limits, pruning keeps the finalized branch; ready blocks leave the cache | 8 blocks (a smaller tree does not bring a full cache, a missing vote target and a finalization together), 2 requests, a cache of 3, fetch depth 1: every limit is reached |
| `signature_pools` | maps agree with each other and with the counted votes; a block carries exactly the chosen votes it can prove | 3 validators, 2 votes, 2 arrivals: overlapping proofs make the greedy cover choose |
| `handles` | every Rust object has one owner and is freed once | 2 validators and an unknown index, 3 assignments of key pairs, so that a validator can get a second one |
| `req_resp` | refines `RequestLifecycle`; completed means every response arrived; channels and requests end, every substream gets its close queued | one request, 2 responses, one lost connection; requests share no state but the queues, whose order one request already exercises |
| `framing` | both ends agree where messages end, a complete message is not held back | layouts of up to 2 chunks around every comparison of the scan, 2 messages per stream, reads that stop in, at and after every boundary |
| `reconnection` | peers equal the swarm's, lost peers retried, no early give-up, every loss settles | 2 networks, 1 peer, 2 connections, 5 attempts as in the code |

Deadlock is checked except where the model may stop: `block_import`, `req_resp`
and `framing` are bounded in blocks, requests and messages, the
behaviours of `import_threads` can end in the panic of finding 3, `handles` ends when
the node stops, and the violated runs stop at their bounds. Symmetry over
validators is sound: no definition orders them.

Fairness. `block_fetch`: a handler that has started finishes (it runs to its end
on one thread) and the interval timer keeps firing (`Clock.run` re-arms it in an
endless loop). `req_resp`: the bridge thread keeps polling its event loop,
timers fire, and a request handler returns (it has no loop that waits).
`reconnection`: a dial ends, as libp2p bounds it by a timeout, and an event loop
takes a due entry of the queue. Nothing is assumed of the network or of peers: in
particular a write to a substream may stay pending for ever, since a peer may
stop reading and the code has no write timeout. `StreamsGetClose` therefore says
that a substream's close is queued, not that the substream ends.

## Findings

Three runs show that the program does not do what one of its own comments says;
`PROJECT.json` quotes the lines.

1. The root-to-slot cache is pruned while states still need the entries
   (`cache_in_sync`).
2. A rebase can leave a validator's known vote without a new one, and the next
   promotion erases it (`lost_vote`).
3. A block added between the canonicality analysis and the rebase breaks the
   rebase (`stale_view`).

Disagreements without a run of their own:

- `constructAttestationData` (`chain.zig:521`) reads head, target and source in
  three locked sections. An import on the other thread between them can move the
  justified checkpoint past the target, although `forkchoice.zig:965` keeps
  "source.slot <= target.slot". `TargetOnHeadBranch` shows the comment true of the
  section that chooses the target.
- `chain.zig:1182` subtracts the canonical ancestors from the slots since the last
  finalization and takes the former to be fewer. With two importing threads a
  second finalization can be analysed before the first has rebased; the count is
  then too large and the unsigned subtraction underflows. `Analyse` goes on, as a
  build without overflow checks does.
- `getFinalizedState` (`chain.zig:1559`, "Get the finalized checkpoint state") keeps
  the state it once loaded from the database. When the finalized block's own state
  is pruned later, it serves that older state. `ServedStateIsFinal` shows that it
  is a finalized one.
- `addKeypair` of `key-manager/src/lib.zig` adds "an owned keypair that will be
  freed on deinit". A second key pair for a validator replaces the first, which is
  never freed; `HandlesOwnedOnce` excepts these (`replaced`).
- A request whose end arrives before its callback is registered never tells the
  callback (`RequestsEnd` leaves it out), and a reconnection entry that another
  network of the process takes is lost to its own (`LostPeersRetried` excepts it).
- `configurations.rs:5` calls the message limit the compressed one; the codecs
  compare it with the uncompressed length.
- `xmss/src/lib.zig:27` says the public key cache is not thread-safe and asks for
  one per chain; both threads of one chain use it.

## Proofs

`BlockImportProofs` proves, for every number of validators, blocks and slots,
that `TypeOK`, `WindowInv`, `CheckpointsOnChain` and
`InternalErrorsUnreachable` are invariants of `BlockImport`. The assumptions
are the named ones of `StateTransition` and `BlockImport`. The inductive
invariant `IInv` says that every stored state and the working state satisfy
`GoodState`: type, window lengths, checkpoints on the state's own history, and
justified slot 0 before the first block. The last conjunct is what makes the
first block after genesis preserve the others. Lemmas show that each operator
(`process_block_header`, `RecordVotes`, `Justify`, `Finalize`) preserves
`GoodState`; the step theorem has one case per action.

`ChainDbProofs` proves, for every number of validators, blocks and slots and any
sequence of imports, prunings and restarts, that `RecordedFinalityLoads`,
`IndexIsFinalizedChain`, `ServedStateIsFinal`, `FinalityExtendsAncestors`
and `CheckpointsOnChain` are invariants of `ChainDb`, and the action property
`RestartKeepsFinality`. None is inductive alone. `DbInv` adds:

- `Tree`: slots grow along ancestors, and two ancestors of a block are on one
  branch. So a block has one ancestor per slot, and the index can be a function.
- `StatesInv`: a state belongs to its block (`StateOf`: its history names
  ancestors of the block, each at its slot), and memory agrees with the disk.
- `GrowthInv`: the ancestors of a stored block are stored, with no later
  finality.
- `MemoryInv`: the finalized block is stored, and it, every block in memory and
  the block whose state the API keeps are on one branch with the anchor, the block
  a restart would load. It does not say that the finalized block's state is in
  memory: periodic pruning may have taken it. That the next finalized block is
  stored follows from `GrowthInv` and from what the fork choice accepts
  (`UpdatedFinalizedStored`).
- `DiskInv`: the index is the chain of the latest finalized block, by slot.

Lemmas show what each batch does to the database and what a start finds in it;
the step lemma has one case per action, and pruning needs only that states go
(`DropStep`). TLC also confirms `DbInv` on the instance
of `block_import`.

`SignaturePoolsProofs` proves that `PoolsHaveData` and `VotesBacked` are
invariants of `SignaturePools` for any number of validators and votes, any slot
of each vote, and any interleaving of the two threads. A vote is tracked before
its proof is stored, so neither is inductive alone: `IInv` adds the types of the
maps and that a handler still holding a proof, or about to prune, is consistent
with the maps. There is one lemma per kind of locked section.

`ReconnectionProofs` proves `TypeOK`, `PeersMatchSwarm`, `LostPeersRetried` and
`NoEarlyGiveUp` for any number of networks, peers, connections and attempts.
The inductive invariant ties each entry of the queue and each dial to the
attempt count of its link: a peer is connected, given up, or has exactly one
attempt waiting or under way.

Only model-checked: liveness and refinement, everything about vote counts
(cardinalities), the vote encoding, the fork choice, the block cache, framing
and handles.

## Not modelled

- Cryptography, compression, SSZ and JSON encodings, zero-knowledge proving:
  pure computations of libraries.
- Metrics, logging, command-line handling, test generators, the mock network.
- The HTTP API and the event stream: read-only views over sockets.
- Gossip encoding and the publication of votes: data passed on unchanged.
- Data races on the unlocked maps: they have no defined outcomes to enumerate.
- Allocation failures of the Zig side, and failing database commits, which the
  code only logs.
- `IsJustifiableSlot` is modelled with integers; its f32 square roots give the
  same answers for every distance below 2^22 slots (enumerated), and larger
  distances are outside the model.
