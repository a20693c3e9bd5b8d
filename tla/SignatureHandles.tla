-------------------------- MODULE SignatureHandles --------------------------
(***************************************************************************)
(* Key and signature objects that live on the Rust side of the FFI         *)
(* (rust/hashsig-glue, rust/multisig-glue) and are owned by the Zig side   *)
(* through raw pointers: the key manager's key pairs, the chain's cache of *)
(* public keys, and what verifySignatures, signAttestation and             *)
(* computeAggregatedSignatures hold while they run.  Any foreign call may  *)
(* fail, and each failure takes its own way out.                           *)
(*                                                                         *)
(* A handle stands for an address, which is reused once it is freed.  The  *)
(* operations run one after the other; allocations of the Zig side (lists, *)
(* hash maps) succeed.  Bytes in and out of Rust are not modelled: a call  *)
(* is what it may return.                                                  *)
(***************************************************************************)
EXTENDS Naturals, FiniteSets, Sequences

CONSTANTS
  Validators,      \* validators of the state: 1..n
  Unknown,         \* an index that is not one of them
  MaxAssignments   \* bound on the node's validator_assignments

ASSUME ValidatorsAssumption == Unknown \notin Validators /\ MaxAssignments \in Nat

VARIABLES
  live,      \* handle -> what Rust has boxed there: a type and its validator
  keys,      \* KeyManager.keys, all owned
  replaced,  \* key pairs that a second assignment of a validator took out of keys
  cache,     \* PublicKeyCache
  task       \* the operation that runs, and its local variables

keyVars == <<keys, replaced>>
vars == <<live, keyVars, cache, task>>

Null == 0

Idle ==
  [op |-> "idle", todo |-> {},
   pks |-> << >>, sigs |-> << >>,   \* lists of handles that the operation frees
   index |-> << >>,                 \* vid_to_sigmap_idx
   args |-> << >>,                  \* public keys to pass on: validator -> handle
   held |-> Null, for |-> Unknown,  \* a signature not yet in its list, and its index
   agg |-> Null]                    \* the aggregate signature

Init ==
  /\ live = << >>
  /\ keys = << >> /\ replaced = {}
  /\ cache = << >>
  /\ task = [Idle EXCEPT !.op = "starting"]

----------------------------------------------------------------------------
(* The foreign functions.                                                  *)

\* Box::into_raw: an address that holds nothing else.
Fresh == CHOOSE h \in 1 .. Cardinality(DOMAIN live) + 1 : h \notin DOMAIN live

Put(f, k, value) == [x \in DOMAIN f \cup {k} |-> IF x = k THEN value ELSE f[x]]

Object(type, v) == [type |-> type, of |-> v]

\* The heap after a call that returned h, and after handles are freed (null
\* is ignored).
Boxed(h, type, v) == IF h = Null THEN live ELSE Put(live, h, Object(type, v))
Freed(hs) == [h \in DOMAIN live \ hs |-> live[h]]

\* What the calls may return: a null pointer on every error.
hashsig_keypair_from_ssz == {Null, Fresh}
hashsig_public_key_from_ssz == {Null, Fresh}
hashsig_signature_from_ssz == {Null, Fresh}
hashsig_sign(private_key) == IF private_key = Null THEN {Null} ELSE {Null, Fresh}
xmss_aggregate_signature_from_bytes == {Null, Fresh}
xmss_aggregate(public_keys, signatures) ==
  IF Cardinality(public_keys) # Cardinality(signatures) \/ Null \in public_keys \cup signatures
  THEN {Null} ELSE {Null, Fresh}

----------------------------------------------------------------------------
(* Start and end of the node.                                              *)

Range(f) == {f[x] : x \in DOMAIN f}

\* loadValidatorKeypairs: one key pair after the other. A second assignment of a
\* validator overwrites its pair, which nothing frees. A failure gives up the start
\* and the key manager frees what it has.
LoadKeypair(v) ==
  /\ task.op = "starting" /\ Cardinality(Range(keys) \cup replaced) < MaxAssignments
  /\ \E h \in hashsig_keypair_from_ssz :
       IF h = Null
       THEN /\ live' = Freed(Range(keys))
            /\ keys' = << >>
            /\ task' = [Idle EXCEPT !.op = "stopped"]
            /\ UNCHANGED replaced
       ELSE /\ live' = Boxed(h, "keypair", v)
            /\ keys' = Put(keys, v, h)
            /\ replaced' = IF v \in DOMAIN keys THEN replaced \cup {keys[v]} ELSE replaced
            /\ UNCHANGED task
  /\ UNCHANGED cache

Started ==
  /\ task.op = "starting" /\ DOMAIN keys # {}
  /\ task' = Idle
  /\ UNCHANGED <<live, keyVars, cache>>

\* Node.deinit: PublicKeyCache.deinit, then KeyManager.deinit.
Stop ==
  /\ task = Idle
  /\ live' = Freed(Range(cache) \cup Range(keys))
  /\ keys' = << >> /\ UNCHANGED replaced
  /\ cache' = << >>
  /\ task' = [Idle EXCEPT !.op = "stopped"]

----------------------------------------------------------------------------
(* Leaving an operation.                                                   *)

\* An operation returns, with or without an error: its deferred frees run.
Return ==
  /\ live' = Freed(Range(task.pks) \cup Range(task.sigs) \cup {task.agg})
  /\ task' = Idle

----------------------------------------------------------------------------
(* verifySignatures for one attestation, and verifyAggregatedAttestation.  *)

\* With the chain's cache, or without one.
StartVerify(op, indices) ==
  /\ task = Idle
  /\ op \in {"verify cached", "verify"}
  /\ task' = [Idle EXCEPT !.op = op, !.todo = indices]
  /\ UNCHANGED <<live, keyVars, cache>>

WithArg(v, h) == [task EXCEPT !.todo = @ \ {v}, !.args = Put(@, v, h)]

\* PublicKeyCache.getOrPut
getOrPut(v) ==
  IF v \in DOMAIN cache
  THEN task' = WithArg(v, cache[v]) /\ UNCHANGED <<live, cache>>
  ELSE \E h \in hashsig_public_key_from_ssz :
         IF h = Null THEN Return /\ UNCHANGED cache
         ELSE /\ live' = Boxed(h, "public key", v)
              /\ cache' = Put(cache, v, h)
              /\ task' = WithArg(v, h)

\* PublicKey.fromBytes into the list of wrappers.
WrapKey(v) ==
  \E h \in hashsig_public_key_from_ssz :
    IF h = Null THEN Return
    ELSE /\ live' = Boxed(h, "public key", v)
         /\ task' = [WithArg(v, h) EXCEPT !.pks = Append(@, h)]

CollectKey(v) ==
  /\ task.op \in {"verify cached", "verify"}
  /\ v \in task.todo
  /\ UNCHANGED keyVars
  /\ IF v = Unknown THEN Return /\ UNCHANGED cache
     ELSE IF task.op = "verify cached" THEN getOrPut(v)
     ELSE WrapKey(v) /\ UNCHANGED cache

\* verifyAggregatedPayload: the proof is decoded, ...
DecodeProof ==
  /\ task.op \in {"verify cached", "verify"}
  /\ task.todo = {} /\ task.agg = Null
  /\ \E h \in xmss_aggregate_signature_from_bytes :
       IF h = Null THEN Return
       ELSE live' = Boxed(h, "aggregate", Unknown) /\ task' = [task EXCEPT !.agg = h]
  /\ UNCHANGED <<keyVars, cache>>

\* ... checked, and freed whether it is valid or not.
xmss_verify_aggregated ==
  /\ task.op \in {"verify cached", "verify"}
  /\ task.agg # Null
  /\ Return
  /\ UNCHANGED <<keyVars, cache>>

----------------------------------------------------------------------------
(* signAttestation.                                                        *)

Sign(v) ==
  /\ task = Idle /\ v \in DOMAIN keys
  /\ \E h \in hashsig_sign(keys[v]) \ {Null} :
       /\ live' = Boxed(h, "signature", v)
       /\ task' = [Idle EXCEPT !.op = "sign", !.sigs = <<h>>]
  /\ UNCHANGED <<keyVars, cache>>

\* The bytes are copied out, or do not fit; the signature is freed.
hashsig_signature_to_bytes ==
  /\ task.op = "sign"
  /\ Return
  /\ UNCHANGED <<keyVars, cache>>

----------------------------------------------------------------------------
(* computeAggregatedSignatures for one group of attestations.              *)

StartAggregate(indices) ==
  /\ task = Idle
  /\ task' = [Idle EXCEPT !.op = "aggregate", !.todo = indices]
  /\ UNCHANGED <<live, keyVars, cache>>

\* A validator without a usable signature is left to the stored proofs.
SkipSignature(v) ==
  /\ task.op = "aggregate" /\ task.held = Null /\ v \in task.todo
  /\ task' = [task EXCEPT !.todo = @ \ {v}]
  /\ UNCHANGED <<live, keyVars, cache>>

\* Its signature is decoded, ...
DecodeSignature(v) ==
  /\ task.op = "aggregate" /\ task.held = Null /\ v \in task.todo
  /\ \E h \in hashsig_signature_from_ssz \ {Null} :
       /\ live' = Boxed(h, "signature", v)
       /\ task' = [task EXCEPT !.todo = @ \ {v}, !.held = h, !.for = v]
  /\ UNCHANGED <<keyVars, cache>>

Released == [task EXCEPT !.held = Null, !.for = Unknown]

\* Variant: the signature of a validator without a key is forgotten.
PairWithKeyOrForget ==
  /\ task.op = "aggregate" /\ task.held # Null
  /\ \E h \in IF task.for = Unknown THEN {Null} ELSE hashsig_public_key_from_ssz :
       IF h = Null
       THEN task' = Released /\ UNCHANGED live
       ELSE /\ live' = Boxed(h, "public key", task.for)
            /\ task' = [Released EXCEPT !.index = Put(@, task.for, Len(task.sigs) + 1),
                                       !.sigs = Append(@, task.held),
                                       !.pks = Append(@, h)]
  /\ UNCHANGED <<keyVars, cache>>

\* ... and goes into the lists with its validator's key, or is freed if there is
\* none.
PairWithKey ==
  /\ task.op = "aggregate" /\ task.held # Null
  /\ \E h \in IF task.for = Unknown THEN {Null} ELSE hashsig_public_key_from_ssz :
       IF h = Null
       THEN task' = Released /\ live' = Freed({task.held})
       ELSE /\ live' = Boxed(h, "public key", task.for)
            /\ task' = [Released EXCEPT !.index = Put(@, task.for, Len(task.sigs) + 1),
                                       !.sigs = Append(@, task.held),
                                       !.pks = Append(@, h)]
  /\ UNCHANGED <<keyVars, cache>>

\* Those not covered by stored proofs are aggregated, if there are any.
Aggregate(covered) ==
  LET usable == DOMAIN task.index \ covered
  IN  /\ task.op = "aggregate" /\ task.held = Null /\ task.todo = {} /\ task.agg = Null
      /\ IF usable = {} THEN Return
         ELSE \E h \in xmss_aggregate({task.pks[task.index[v]] : v \in usable},
                                      {task.sigs[task.index[v]] : v \in usable}) :
                IF h = Null THEN Return
                ELSE live' = Boxed(h, "aggregate", Unknown) /\ task' = [task EXCEPT !.agg = h]
      /\ UNCHANGED <<keyVars, cache>>

\* The proof is copied out, or does not fit; it is freed with the lists.
xmss_aggregate_signature_to_bytes ==
  /\ task.op = "aggregate" /\ task.agg # Null
  /\ Return
  /\ UNCHANGED <<keyVars, cache>>

----------------------------------------------------------------------------
Indices == SUBSET (Validators \cup {Unknown}) \ {{}}

Next ==
  \/ \E v \in Validators : LoadKeypair(v)
  \/ Started
  \/ Stop
  \/ \E op \in {"verify cached", "verify"}, indices \in Indices : StartVerify(op, indices)
  \/ \E v \in task.todo : CollectKey(v)
  \/ DecodeProof
  \/ xmss_verify_aggregated
  \/ \E v \in Validators : Sign(v)
  \/ hashsig_signature_to_bytes
  \/ \E indices \in Indices : StartAggregate(indices)
  \/ \E v \in task.todo : SkipSignature(v)
  \/ \E v \in task.todo : DecodeSignature(v)
  \/ PairWithKey
  \/ \E covered \in SUBSET Validators : Aggregate(covered)
  \/ xmss_aggregate_signature_to_bytes

Spec == Init /\ [][Next]_vars

----------------------------------------------------------------------------
(* Properties.                                                             *)

\* Every place that will free a handle: where it is, and the handle.
Owners ==
  {<<"keys", v, keys[v]>> : v \in DOMAIN keys}
    \cup {<<"cache", v, cache[v]>> : v \in DOMAIN cache}
    \cup {<<"pks", i, task.pks[i]>> : i \in DOMAIN task.pks}
    \cup {<<"sigs", i, task.sigs[i]>> : i \in DOMAIN task.sigs}
    \cup {o \in {<<"held", 1, task.held>>, <<"agg", 1, task.agg>>} : o[3] # Null}

\* Whichever call failed, every object Rust has boxed has exactly one place that
\* will free it (no leak, no double free), but for the key pairs that a second
\* assignment of their validator replaced, which have none; no place refers to a
\* freed one, and the keys and signatures to be passed on are those of the
\* validators they are passed on for (deinit, defer and errdefer of the Zig
\* wrappers).
HandlesOwnedOnce ==
  /\ \A h \in DOMAIN live :
       Cardinality({o \in Owners : o[3] = h}) = IF h \in replaced THEN 0 ELSE 1
  /\ \A o \in Owners : o[3] \in DOMAIN live
  /\ \A v \in DOMAIN task.args :
       task.args[v] \in DOMAIN live /\ live[task.args[v]] = Object("public key", v)
  /\ \A v \in DOMAIN task.index :
       /\ live[task.pks[task.index[v]]] = Object("public key", v)
       /\ live[task.sigs[task.index[v]]] = Object("signature", v)
=============================================================================
