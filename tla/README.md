# Verification of silver-consensus

TLA+ models of the consensus crate, the TLC runs that check them on small
instances, and TLAPS proofs of the results that matter most for instances of
any size. Line numbers refer to the files under `src/src/`. Every definition of
a model that stands for code is listed with its lines in `PROJECT.json` ("map").

Contents: 1 the system, 2 the modules, 3 the runs, 4 what the runs say against
the code, 5 the proofs, 6 what is not modelled, 7 what could come next.

## 1. The system

Transactions are meant to travel along one path. Clients call
`CascadeMempool::submit_transaction`; workers batch what is in the channel on
the tips of a **flow graph**; one broadcaster task inserts each batch and
sends it to the other validators, whose batches come back through
`handle_incoming_batch`. `BatchCertifier::add_signature` collects signatures
over a batch and sets its certificate in a graph. The creator task of the
**Mercury engine** traverses the certified batches every 480 ms, executes them,
and builds the next snapshot; `add_snapshot_signature` collects signatures over
it and finalizes it at more than two thirds of the stake. `SnapshotManager` is
a second, sequential implementation of the same life cycle with deadlines and
pruning.

The source does not join these parts to one path. `CascadeMempool::new`
(`cascade.rs:244`) and `MercuryProtocol::new` (`mercury.rs:300`) each take a
`FlowGraph` by value and keep it to themselves; only `BatchCertifier::new`
(`cascade.rs:632`) takes a graph that others may hold. So each part is modelled
with a graph of its own: the mempool's is never certified or pruned, the
certifier's changes in every way its other holders can change it, and of the
engine's only the certified batches it was given with matter.

Beside the path stand the validator set and the **services** around the engine:
staking, delegation, slashing, rewards, commissions, keys, upgrades. In the code
they share no state with the path or with one another, except that
`ValidatorOperations` owns a validator set, a staking manager and the rewards,
and that reconfiguration at the end of a cycle reads the staking and the
delegation manager.

| component (file) | state | operations | hard because | correct when |
|---|---|---|---|---|
| Flow graph (`flow_graph.rs`) | vertices, roots, tips | `add_batch`, `set_certificate`, `mark_finalized`, `prune_old_batches`, `clear`, three traversals | batches arrive in any order; pruning leaves links to what has gone; a DashMap iterates in any order | indexes agree with vertices; recorded edges are causal; traversals are causal and do not fail |
| Cascade mempool (`cascade.rs`) | transaction channel, `pending_transactions`, worker tasks, batch channel, broadcaster | `submit_transaction`, `worker_create_batch`, broadcaster, `handle_incoming_batch`, `stop` | several workers on one channel; tips are read before they are used; failing builds and broadcasts; shutdown | no submission twice or lost; no transaction in two batches (it is not so, see 4); limits hold; parents before children; queued submissions settle |
| Batch certifier (`cascade.rs`) | `pending_signatures`, `certified_batches` | `add_signature`, `clear_old_pending` | concurrent calls, two DashMaps and two RwLocks, membership changing between signatures | a certificate has a quorum of distinct validators, reaches the graph, and every call returns |
| Snapshot manager (`snapshot.rs`) | pending and finalized snapshots, `latest_sequence` | create, add signature, finalize, process timeouts, prune | calls in any order; late and repeated signatures; deadlines | finalized snapshots are an append-only log of quorate, linked entries |
| Mercury engine (`mercury.rs`) | height, pending and finalized maps, store, creator task | creator loop, `add_snapshot_signature`, membership, cycles, reports | the creator and any number of calls share maps and height without a common lock | the same log, by quorum, without gaps |
| Validator set (`validator.rs`) | validators, total stake, cycle, change history | add, remove, participation, new cycle, reconfigure, clear | signatures are weighed against a set whose total is kept by increments and replaced at reconfiguration | total is the sum of stakes, so two quorums intersect |
| Staking (`staking.rs`) | stakes, unbonding requests, tiers | deposit, request unstake, process unbonding, remove | overlapping requests, three totals kept separately | total = active + unbonding; recorded tier changes lead to the tier of today |
| Delegation (`delegation.rs`) | pools, delegations, status | delegate, undelegate, redelegate, rewards, claim | two pools per call, failing calls that leave a change behind, cut off fractions | pools add up; no value is created |
| Validator operations (`validator_ops.rs`) | a set, a staking manager, the rewards | register, fees, participation, end of cycle, unstake | three components changed one after the other, the second may refuse | nobody has stake without being a member |
| Slashing (`slashing.rs`) | records, last evidence, jails, history | slash, jail, unjail, purge | evidence handed in again, jails that end and are purged in between | one slash per jail; evidence not slashed again at once |
| Downtime (`downtime_tracker.rs`) | counters, recovery flags, events | record, check, recover, new period | counters across recoveries and periods | downtimes and recoveries take turns, each downtime with misses of its own |
| Rewards (`rewards.rs`) | fees of the cycle | collect, calculate, reset | fractions, saturating sums | no fee is paid twice |
| Commissions (`commission.rs`, `commission_manager.rs`) | rates, pending changes, history | announce, apply, cancel, earn | notice period; two implementations that differ | changes apply once, in order, after notice |
| Tiers (`validator_tiers.rs`) | tier table | lookups, promotion | boundaries | tier follows stake |
| Upgrades (`upgrade.rs`) | proposals, votes, approved, version and flags | submit, vote, finalize, activate | six async locks, one per field, taken one after the other | what is approved has a quorum of distinct voters |
| Upgrade activation (`activation.rs`) | schedule, active version, supported versions, removals | schedule, activate, remove support, statistics | two maps under different locks, one held while another is taken | active and replaced versions lose support only to a removal |
| Compatibility (`compatibility.rs`) | active version, supported versions, requirements | update, validate | a validation reads the active version again per feature, and its flags later still | accepted features were enabled by the flags of an active version |
| Validator activation (`validator_activation.rs`) | records, requests, events | request, vote, finalize, cool down, suspend, remove | a finalization that fails after its vote was counted | activations and deactivations are audited exactly; suspensions and removals are not audited (see 4) |
| Key rotation (`key_rotation.rs`) | keys, requests, transitions, events | register, request, vote, finalize, complete | several transitions complete in the order of a map | an active key that is accepted |
| Key store (`validator_keys.rs`) | keys in memory, key file, history file | load, save, rotate, save history | crash or failing write between two files | no history names keys that were never saved |
| Optimizations (`optimizations.rs`) | cache and its access order; batch queue | get, put, evict, clear | two structures under different locks | every entry can be evicted |
| Block creator (`block_creator.rs`) | last block | create, store | length of a hash | - |
| Monitoring (`validator_monitoring.rs`) | metrics, alerts | record, query | - | - |
| Persistence (`persistence/*`) | start-up flags, log records | start, stop, report | `recover_state` is a stub | - |

`PROJECT.json` lists every component with its status and every hazard at its line.

## 2. The modules

| module | models | state and code |
|---|---|---|
| `FlowGraph` | the mutators of the graph | `vertices`, `roots`, `tips` as in the code; `clock` counts insertions and stands for `added_at`; `prev` is the content (`previous_batches`) of every authored batch, in the graph or not |
| `FlowGraphOrder` | the traversals | `Kahn` is the loop of `topological_sort`, a recursive function; it returns the set of results over all iteration orders |
| `Cascade` | the mempool, on `Graph == INSTANCE FlowGraph` | a *submission* is one call of `submit_transaction` and the object it sends; the mempool compares no transactions, so two submissions may be of one; `checked` are calls between the capacity check and the send; `worker[w].pc` is `idle`, `collected` (batch taken, receiver released), `build` (tips read); `broadcaster`, `outbox`; `incoming` are handlers between the lookup and the insertion |
| `BatchCertifier` | concurrent `add_signature` calls, on the same graph | one action per critical section; which locks a call holds follows from `call[t].pc` (`ReadsValidatorSet`, `HoldsRef`) |
| `FinalizedLog` | the promise to readers of finalized snapshots | abstract: append the next entry, naming its predecessor while that is retained; forget from the front |
| `SnapshotManager` | every call of `SnapshotManager` | `latest`, `pending`, `finalized` as in the code; `sent` are the signatures in the network; `timedOut` is a passed deadline |
| `Mercury` | the creator task, `add_snapshot_signature`, membership changes | one action from one access of shared state to the next: `Traverse`, `Execute`, `Number` (reads the height), `ReadPrevious`, `BuildSnapshot` (signs, reads the own stake), `Decide` (reads the total), `Pend` or `FinalizeOwn`, `RaiseHeight`, `Store`; `Call`, `Count`, `Update` or `Finalize`, `RemovePending`, `SetHeight`, `StoreFinalized`; `offered` counts the snapshots of a number that became pending: each is signed anew |
| `ValidatorIds` | the validators that the services speak of | a constant of its own, so that services can be composed |
| `Staking`, `ValidatorSet`, `Rewards` | three managers behind `&mut self` | one action per call, without the frame of the others, so that they compose |
| `CycleEnd` | `reconfigure_at_cycle_end` with a staking manager | `Staking` and `ValidatorSet` side by side; the delegated stake is any reported value |
| `ValidatorOps` | `ValidatorOperations` | calls composed of the actions of the three managers, in the order of the code: `RegisterValidator` adds the member before the deposit may be refused, `EndCycle` pays, resets and unbonds in one call |
| `Delegation` | `DelegationManager` | a failing `redelegate` or `delegate` leaves behind what it changed before its last check; `total_delegated` wraps at `Modulus` |
| `Slashing`, `Downtime`, `Commission`, `CommissionManager`, `ValidatorActivation`, `KeyRotation` | the managers of the same names | one action per call; "time is over" is a step of its own for a jail, a notice, a cooldown; `misses` of `Downtime` counts what its counters clear |
| `KeyStore` | `ValidatorKeyManager` and its two files | writes that succeed, fail, or are torn; `Crash` and `Start`; `saved` remembers which keys ever reached the file |
| `Upgrade`, `VersionActivation`, `Compatibility` | three managers with a lock per field | one action per lock section; `calls`, `coordinations`, `checks` hold what a call read before; in `VersionActivation` the steps say which locks are held across a section, any version may be removed at any time (`exposed` are those whose removal was asked for), and an upgrade may lead back to an earlier version; in `Compatibility` a version is added with any flags, also again with others (`enabledDuring` collects what a validation could have seen); in `Upgrade` all votes of a voter declare one stake |
| `FlowGraphCache` | `FlowGraphCache` of `optimizations.rs` | one action per access of the map or the access order; `overtaken` marks what was put while a clear was between the two |
| `Services` | the fourteen services | `service` chooses, at the beginning of a behaviour, the one that moves |
| `MC*` | instances for TLC | values of the constants |
| `Unbonding` | the lists of requests that `Staking` and `Delegation` share | which are due, which go on |
| `Sums` | - | sums over finite sets and lists, for the proofs |
| `*Proofs` | theorems: graph, snapshot manager, engine, certifier, mempool, stake (with fees and delegation), the other services | see 5 |

**Granularity.** `FlowGraph` mutators take `&mut self` behind an async
`RwLock`, and `SnapshotManager` mutators take `&mut self`: one call is one
step. In `Cascade` a worker holds the receiver's mutex for its whole collection
loop, so a collection is one step, but the graph is locked only while the tips
are read. In `BatchCertifier` and `Mercury` the state is in DashMaps and atomics
without a common lock, so every access is a step. Of the services, those whose
mutators take `&mut self` move one call at a time; `Upgrade`,
`VersionActivation`, `Compatibility` and `FlowGraphCache` take `&self` and move
one lock section at a time, with several calls under way.

**One service per behaviour.** The services share no state and none calls
another, so steps of two of them commute and no property speaks of two. `Services`
therefore lets each behaviour exercise one of them, chosen at its beginning; this
checks the same as one run for each would. Where the code composes managers
(`CycleEnd`, `ValidatorOps`), the model does.

**Identities.** A batch identifier is a hash of the contents; it is an integer
because `get_consensus_order` compares identifiers. A snapshot's digest covers
its timestamp and is a fresh number. A batch of `Mercury` holds one transaction.

**Environment.** Other validators' behaviour, the network, `silver_core`'s
`Certificate::validate`, `TransactionBatch::new`, `Snapshot::has_quorum` and the
object store are not under `src/`; they are modelled from how the code uses them
and marked external. `store_snapshot` and broadcasts may fail at any time.

**The 32/64-byte constant of `Mercury`.** `compute_state_root` (154-178) copies
a 32-byte hash into a 64-byte digest with `copy_from_slice`, which panics and
ends the creator task. The lengths are the constants `HashBytes` and
`DigestBytes`. `MCMercuryPanics` uses the lengths of the code. All other runs of
`Mercury` use equal lengths: they say what the rest of the engine does once that
line is repaired, and nothing in them would be reachable otherwise.

**Mutants.** An operator under a comment "Mutant: ..." is a plausible bug. It is
not part of any specification; it stands before the definition it would replace,
and each property of a passing run is violated when its mutant replaces that
definition. `PROJECT.json` ("mutants") pairs them.

## 3. The runs

`tlc -config X.cfg M` in this directory; "runs" in `PROJECT.json` pairs them.
Deadlock is not checked: every bound (insertions, creations, deliveries) makes a
behaviour end, and the mempool can be stopped. Several properties are
conjunctions of named parts: `GraphConsistent` (types, indexes, edges),
`ManagerConsistent` (types, pending is next, quorate certificates, linked chain),
`CertificatesSound` (types, quorum, graph certificates backed), `BatchesSound`
(types, no submission twice, limits), `NumberingExact` (no gaps,
predecessors), `FinalizedSoundly` (types, quorum unless a signer is named twice),
`StoreAndHeightAgree` (stored as finalized, height newest).

| run | bounds | shows |
|---|---|---|
| `MCFlowGraph` | 3 batches, 2 parents each, 4 insertions | `GraphConsistent`: hand-kept indexes and edges are right through late arrival, pruning, return after pruning and clearing. `SortSound`: an Ok result is causal for every iteration order. `SortsIffLinked`: the sort fails exactly if some batch lacks a link. `UnlinkedForever`: nothing repairs one |
| `MCSnapshotManager` | 3 validators of which two (with the right one) are a quorum, an observer without stake, 3 creations | `ManagerConsistent`, `WeightIsSignersStake`, `FinalityStable`, and `ImplementsLog`: a refinement of `FinalizedLog` |
| `MCBatchCertifier` | 1 batch that may leave the graph and return, 3 threads, 3 validators joining and leaving, each signature delivered once | `CertificatesSound`, `CertificatesGrow` |
| `MCBatchCertifierSteady` | 2 batches in one shard, 2 threads, fixed validators | `CertificatesReachGraph`; liveness `QuorumCertifies` |
| `MCCascade` | 3 submissions of sizes 1, 2, 1 (the third may repeat the first), with batches of at most 2 transactions and 2 bytes, 2 workers, 2 batches, 2 broadcast attempts | `BatchesSound`, `OwnBatchesLinked`, `NoTxLost`; liveness `QueuedSettles`, `BroadcastEnds` |
| `MCMercury` | 2 snapshots, 2 concurrent calls, 3 validators joining and leaving, failing creations, each signature of each snapshot delivered up to twice | `NumberingExact`, `FinalizedSoundly` |
| `MCMercurySerial` | 3 snapshots, one call at a time next to the creator, 3 fixed validators of equal stake, each signature delivered up to twice | `StoreAndHeightAgree`, `FinalityStable`, and `ImplementsLog` |
| `MCServices` | the fourteen services, with 2 validators (each also a delegators' pool) and the bounds below | their properties, below |

| service | bounds | property |
|---|---|---|
| cycle end | deposits 2 and 3, withdrawals of 2, tiers from 2 and 4, 2 requests under way, 3 tier changes, delegated 0 or 1 | `StakeConserved`, `TiersExplained`, `QuorumsIntersect` |
| validator operations | the same, fees 1 and 3 up to 4, saturating at 3, all of a share lost below 90% | `OpsStakeBehindMembers`, `FeesPaidOnce` |
| delegation | 2 delegators, amounts 1 and 2, rewards 1 and 2, limit 2 per pool, 4 units of funds, 1 undelegation per pool | `PoolsAddUp`, `NoValueCreated` |
| slashing | 2 pieces of evidence, missed snapshots below and at the limit, 3 slashes | `SlashesJustified` |
| downtime | threshold 2, recovery 2, 3 snapshots per period, 5 misses, 3 events | `RecoveryAlternates` |
| activation | 66% of a stake of 2 required, which is cut off to 1, votes of weight 1, 3 events | `ActivationsAudited` |
| key rotation | 2 keys, 1 vote per request, 5 events | `AlwaysAValidKey` |
| key store | 2 addresses, 2 rotations, any number of crashes and failing writes | `RotationsSaved` |
| commission, commission manager | 3 rates each, two steps small enough and one too large, 2 changes | `RatesExplained`, `AppliedAsAnnounced` |
| upgrade | 2 proposals for one cycle, 2 voters who must both approve, 2 calls at a time, cycles to 2, a total stake of 2 (other totals, and their changes, in the theorem only) | `UpgradesApproved` |
| version activation | 2 upgrades, of which the second leads back to the first version, removals of either, transition of 2 cycles, boundaries to 4, 3 calls at a time | `SupportLostOnlyByRemoval` |
| compatibility | 2 versions with any flags of 2 features, replaced and withdrawn at any time, 1 validation, 1 removal and any update | `AcceptedFeaturesWereActive` |
| flow graph cache | 2 hashes, room for one, 3 calls at a time, access order up to 3 | `CachedIsEvictable` |

**Why the bounds are enough.** Three batches give a diamond's worth of orders: a
child before, between and after its two parents, each pruned or cleared and
inserted again (the fourth insertion). Sizes 1, 2, 1 make a transaction that
fits by count but not by size, so it is put back; the third may be a
resubmission of the first. Two batches let the second build on the first, on a
remote one, or on nothing. Two thirds of three
validators with stakes 2, 1, 1 need the first and one other, so a quorum is
neither unanimity nor a simple majority, and equality with two thirds occurs.
Two concurrent signature calls and the creator are the three parties whose
pairs touch the same map entries; with two snapshots one call can work on the
first while the second is built, pending or finalized by another. The two may have
the same number: the second then replaces the first, validators sign it anew, and
a clone of the first may be written back over it. The serial run
goes to three, where a previous digest can be one too old; numbering with
concurrent calls and more snapshots is the theorem `NumberingSound`. Stopping the
creator (`stop`) is the creator taking no more steps, which `Spec` allows.

Of the services, two validators and amounts around each limit reach every
refusal and its neighbour; three slashes, events or tier changes are one more
than what a single round needs, so the second round starts from what the first
left behind; two unbonding requests overlap. Two versions with any flags of two
features show a validation every update, replacement and withdrawal between its
reads. Three coordination calls are an upgrade, the removal it overtakes, and
statistics that hold a lock; the second upgrade leads back to the version that the
first replaced. In the cache three calls are an
insertion, the eviction it causes, and a clear or a hit between them. All
properties of the services, and all safety properties of the other passing runs,
are theorems for any size besides (section 5).

Symmetry is used only in runs without liveness properties, over validators of
equal stake, proposals and slots of calls. Services share values (proposals are
also the delegators, the features and the graph hashes), since only one of them
moves.

**Fairness.** `Cascade`: weak fairness of each worker's loop and of the
broadcaster. The tokio interval keeps ticking and a task that can go on is
polled. No fairness is assumed for clients, other validators, failures or
shutdown, and `QueuedSettles` says what may intervene (put back, failed build,
all workers stopped, bound reached). The broadcast settles under weak fairness
of "it succeeds or fails", because retries are counted. `BatchCertifier`: weak
fairness of each call's next section, which is not enabled while the lock it
needs is held. `Mercury`: weak fairness of the creator task. The services
have no liveness property: their calls are made by code outside the crate, and
nothing in it says that they are made.

## 4. Where the code and its words differ

Four runs check what a comment says and find a behaviour that contradicts it.

| run | line | behaviour |
|---|---|---|
| `MCConsensusOrderCausal` | `flow_graph.rs:358` | the topological order is sorted again by identifier; a certified child comes before its parent |
| `MCCertifierReturns` | `cascade.rs:712` | the call that certifies a batch removes a map entry while it holds a reference to it, and waits for itself |
| `MCMercuryPanics` | `mercury.rs:175` | 32 bytes copied into 64: the creator ends, no snapshot appears |
| `MCMercuryDuplicates` | `mercury.rs:769` | pending snapshots are found by number, and neither digest nor signer is compared: a validator that signs a snapshot and then the one that replaced it is weighed twice, and a snapshot is final without a quorum, each signature delivered once. A repeated delivery does the same, here and at `cascade.rs:673`; `FinalizedSoundly` says that nothing else does |

Other behaviour the models contain, met while they were written, without a run
of its own: a batch that arrives before its parent is never linked and makes
every traversal report a cycle (`flow_graph.rs:178`, `:341`; this is what
`SortsIffLinked` and `UnlinkedForever` describe); `finalize_snapshot` drops a
pending snapshot that has no quorum yet (`snapshot.rs:232`) and signatures are
found by sequence number only (`snapshot.rs:184`); the mempool's capacity check
counts a list nothing drains and ignores the channel (`cascade.rs:327`, `:421`),
and looks for no duplicate, so a transaction that is submitted again is batched
again (`cascade.rs:319`; the field "for deduplication" at `:118` is read by
nothing; `BatchesSound` speaks of submissions);
each tick replaces the pending snapshot and its signatures (`mercury.rs:645`);
with two concurrent calls a slow one sets the height back (`mercury.rs:792`),
which is why `StoreAndHeightAgree` is checked with one call at a time; nothing
marks batches as finalized, so each snapshot takes the same ones again
(`mercury.rs:625`).

The graph of the model has a set of parents. `topological_sort` takes the length of
a list (`flow_graph.rs:317`) while a child is recorded once, so a batch that names a
parent twice is never emitted; no property covers this.

In the services:

- `activation.rs`: `get_stats` takes the supported versions and then the active
  one, `activate_at_cycle` the other way around, and both may wait for ever
  (`VersionActivation` reaches the state); two schedulings of one cycle may
  overwrite one another between check and insertion; the background task that
  should remove support compares with cycle 0 and removes nothing.
  `remove_version_support` compares with the active version under one lock (261)
  and removes under another (273): if an upgrade leads back to the version in
  between, the active version loses its support. `SupportLostOnlyByRemoval` allows
  this, and only this, of the active version; `remove_supported_version` of
  `compatibility.rs` has the same gap.
- `validator_activation.rs`: `suspend` and `remove` (257-279) push no event, though
  the module promises a comprehensive audit trail (8) and has event types for both
  (337-340). `ActivationsAudited` says what is audited.
- `downtime_tracker.rs`: warnings about participation are pushed to the same list of
  events (281); the model leaves them out, `RecoveryAlternates` is about the others.
- `compatibility.rs`: a validation reads the active version again for every
  feature, so a transaction with two features may be accepted although no
  version enables both; hence `AcceptedFeaturesWereActive` speaks of one feature.
- `upgrade.rs`: a second submission of a proposal resets its votes; a proposal
  approved for the same cycle replaces the earlier one; a vote may come after the
  results were copied, and each vote declares its own stake (180; the model gives a
  voter one). What is approved is nevertheless approved by a quorum.
- `delegation.rs`: a failing `redelegate` loses the amount (`PoolsAddUp` and
  `NoValueCreated` allow loss, not gain); undelegated rewards are subtracted from
  `total_delegated`, to which they were never added.
- `slashing.rs`: of each validator only the last evidence is remembered, so
  evidence A, then B, then A again slashes A twice.
- `validator.rs`: reconfiguration reports staked validators that are no members
  as added, but never adds them; `has_quorum` (264-276) counts an identifier as often
  as its list has it, where the model passes a set. `validator_ops.rs`: a registration whose deposit
  is refused leaves a member without stake, and its retry is refused.
- `key_rotation.rs`: `max_keys` is never enforced, and old keys stay active.
  `validator_activation.rs`: a vote names no voter, so one may vote twice, and
  66% of the votes is computed with the fraction cut off.
- `optimizations.rs`: putting a hash twice leaves a second place in the access
  order, whose eviction then frees nothing, so the cache may exceed its limit; what
  is put while a clear is between its two accesses may never be evicted.

## 5. The proofs

`tlapm X.tla`. Each theorem is for every value of the constants that satisfies
the named assumptions of its module: stakes, amounts, rates and bounds are
naturals, identifiers are integers, validators and voters are finitely many (the
code keeps them in maps), tier floors are positive, and marks such as `NoRequest`
or `Idle` are none of the values they stand beside. TLC evaluates all of them on
the runs. What a theorem assumes beyond this stands in its statement.

**`Sums`.** No model uses a sum that TLAPS knows: `MapThenSumSet` and `FoldLeft`
take an operator and choose the elements in an order of their own. This module
defines `Total(g, S)` and `SeqTotal(g, list)` for functions `g` and proves, by
induction on finite sets, that the choice does not matter: the sum without an
element, with one put in or changed, over two parts, monotone, along a list
without repetitions. `SharesFit` is the fact behind every proportional division
of the code: whole-number shares `h[x] * sum =< whole * g[x]` are together at
most `whole`. The other modules state, as a lemma each, that a sum of theirs is one of these.

**`FlowGraphProofs`.** `GraphCorrect`: `GraphConsistent`, that is `TypeOK`,
`IndexesExact` and `EdgesSound`, holds always. Their conjunction `GraphInv` is
inductive: an insertion changes children only of parents that are present, which
is exactly what it removes from the tips; pruning removes a vertex and its two
index entries together; a child that is pruned stays in its parent's list, so
`EdgesSound` speaks of authored and not of present children. `NothingRelinks`:
`UnlinkedForever`, from the same invariant - the only link ever added is the one
to the batch inserted by the step. The lemmas about single steps are used again in
the two modules that hold a graph, through `GP == INSTANCE FlowGraphProofs`.

`SortsAreSound` (`SortSound`) and `SortsWhenLinked` (`SortsIffLinked`) say what the
loop of `topological_sort` computes, for any number of batches and whatever the
order of the map. `Kahn` is a recursive function on the states of the loop, and
three things are shown of it. It exists: the recursive equation is a monotone
operator on set-valued functions, so it has a least fixed point (`LeastFixpoint`,
`KahnStep`). Its loop invariant `LoopInv` holds at every iteration: a batch's degree
is the number of parents it still waits for (`Missing`: not popped, or without the
recorded edge), queue and result hold exactly the batches that wait for none, each
once, and parents stand before their children. And it ends (`LoopEnds`): each
iteration pops another batch for good, so among the sets of batches still to be
popped a minimal one for which the claim fails cannot be. What is left is
`Reached`: a batch is in the result exactly if it is linked to parents that all are.
An Ok result has as many entries as there are batches, hence all of them. If every
batch is linked, none can be missing from the result: the earliest inserted one of
them would wait for a parent inserted still earlier. That needs the invariant
`OrderInv`: recorded edges go from an earlier to a later insertion (`EdgesInTime`),
because only the insertion of the child records one.

**`SnapshotManagerProofs`.** `ManagerCorrect`: `ManagerConsistent`, that is
types, `PendingIsNext`, `CertificatesQuorate`, `ChainLinked`. The invariant
`ManagerInv` adds what a step needs: the quorum flag of a pending snapshot implies
the weight (`FlagMeansQuorum`), and a pending snapshot names the last finalized
one while that is retained (`PendingLinked`) - it could not be built on anything
else, because a pending snapshot is always the successor of the height. Pruning
needs that the lowest entries go (`OldestIsLowEnd`, an argument on cardinalities).
`FinalityIsStable` and `ManagerImplementsLog` use the same invariant; the
refinement maps finalization to `Append`, pruning to `Forget`, all else to a
stutter. `WeightsExact`: `WeightIsSignersStake`, however signatures are repeated
or late, because a certificate's signers never repeat.

**`MercuryProofs`.** Two theorems hold with any number of concurrent calls,
membership changes and failures. `NumberingSound`: `NumberingExact`, that is
types, `NoGaps` and `PredecessorNamed`. The height can fall, so it says nothing
about what is finalized. `EngineInv` instead says of every sequence number
anywhere - the creator's, a pending entry's, each call's - that it is 1 or follows
a finalized one (`Follows`); finalized numbers are never removed, so this is
stable, and finalizing such a number leaves no gap. Every snapshot on its way is
`Chained`: it has a predecessor's digest unless it is the first. `QuorumSound`:
`FinalizedSoundly`, however often signatures are delivered and snapshots replaced.
The invariant (`QuorumInv`) follows a list of signatures from the entry in the
pending map through the creator and the calls that copied it to the finalized map.
Each signer other than this node was counted for that number, and one named twice
was counted twice (`SignersCounted`); a weight is at most the stake of the distinct
signers if none is named twice; and what is finalized was compared with the total
of that moment. What the code does with a signer that is named twice is
`MCMercuryDuplicates` (section 4).

Three theorems hold for calls that come one at a time (`OneThread`) with the
validators fixed (`SteadySpec`), next to the creator task: `StoreAgrees`
(`StoreAndHeightAgree`), `EngineFinalityIsStable` (`FinalityStable`) and
`EngineImplementsLog` (`ImplementsLog`, the refinement of `FinalizedLog` with an
insertion as `Append`). The invariant `SerialInv` rests on a case distinction of
the constants: if this node alone is a quorum, the creator finalizes what it builds
and nothing is ever pending; otherwise only a call finalizes. Either way only one
party numbers and inserts, and the number is the next one, which is what fails when
two calls overtake each other.

**`BatchCertifierProofs`.** `CertificatesOnlyGrow`: `CertificatesGrow`, for any
number of calls, batches and shards, while validators join and leave and the graph
is cleared. The invariant says of a call between its tally and its store that the
list it is about to store is still the pending one - the map reference it holds
keeps every other call from adding a signature - and of a stored certificate that
its signers are a prefix of the pending list. So what a store replaces is a prefix
of what it stores. `CertifiedSoundly`: `CertificatesSound`, from that invariant and
the sums. Hypothesis `MaxDeliveries =< 1`: a signature is delivered once at most.
A batch is never replaced, so nobody signs it anew, but the code does not look for a
repetition (`cascade.rs:673`): without the hypothesis the property is false, with it
it is a promise that the caller has to keep.
`CertificatesReach`: `CertificatesReachGraph`, under `SteadySpec` (the graph only
grows; a certificate of a batch that was pruned has nowhere to go). The invariant
follows a certificate from the store to the graph through the call that stored it.

**`CascadeProofs`.** `OwnBatchesAreLinked`: `OwnBatchesLinked`, for any workers,
transactions and limits. The invariant follows a parent from the tips a worker
reads to the insertion: tips are in the graph, what a worker read stays there,
because nothing in the mempool removes a batch, and so a batch in the channel has
its parents present. Batches of others may arrive unlinked at any moment; they do
not touch it. `MempoolBatchesSoundly` (`BatchesSound`) and `MempoolLosesNothing`
(the action property `NoTxLost`) speak of submissions: a transaction may be in as
many batches as it was submitted. The invariant says of each place a submission can
be - checked, channel, put back, a worker's list, an authored batch - that it holds
it once, and of every two places that they hold different ones; every step moves
submissions from one place to the next.

**`StakeProofs`.** About the specification `Spec` of `Services`, that is of the
composition itself: the stake, the set and the fees keep their invariants through
the steps of `CycleEnd` and `ValidatorOps`, and all other services leave their
variables alone.

- `StakeIsConserved`, `TiersAreExplained`: a record is balanced (total = active +
  unbonding = active + what its requests will release) and of the tier of its
  active stake; the manager's total is the sum of the records; the recorded tier
  changes have no break. Paying out needs that a walk over the requests splits
  them (`RequestsSplit`): what is due and what goes on are together the list.
- `QuorumsAlwaysIntersect`: the total of the set is the sum of the votes, through
  every increment and through reconfiguration.
- `StakeStaysBehindMembers`: in `ValidatorOps` nobody has more at stake than the
  weight of its vote (`EachBehind`). In `CycleEnd` the staking manager and the set
  are called separately, so nothing of the kind can be said there.
- `FeesArePaidOnce`: `SharesFit` for the rewards, and a bound for the penalties.
- `PoolsAlwaysAddUp`, `ValueIsNotCreated`: about `DelegationSpec`, with one
  invariant for both: each pool's total is the sum of its shares, none of them
  empty, and within the limit, and the worth of all pools - shares, rewards and
  open requests - is at most the funds. A call changes one pool or two, so each
  is a lemma about what a share put in or taken out does to a pool's sums; the
  divisions are `DivisionBound` (what leaves a share is at most what it had) and
  `SharesFit` (what is granted is at most the rewards). A failing move shows as a
  pool whose worth falls while the funds stay.

**`ServiceProofs`.** The other services, one by one, each about its own initial
state and steps (`KeyStoreSpec`, `DowntimeSpec`, `ManagerSpec`, `CacheSpec`,
`CheckerSpec`, `CoordinatorSpec`, `RatesSpec`, `ActivationSpec`, `RotationSpec`,
`SlashSpec`, `UpgradeSpec`); a behaviour of `Services` is one of these with the
other variables unchanged.

- `KeysSaved`: `RotationsSaved`, for any number of addresses, rotations, failing
  writes and crashes. The invariant adds that the key file names only addresses
  that were saved (a restart makes it the current keys).
- `TurnsTaken`: `RecoveryAlternates`. The invariant adds that a validator without
  a record has no events, and counts misses: those recorded, and a threshold for
  every recovery that was left, which is where the code clears the counter.
- `AppliedInOrder`: `AppliedAsAnnounced`. The invariant adds that a pending request
  is the last announcement, so it is later than all that were applied.
- `CacheEvictable`: `CachedIsEvictable`. It is not inductive: once a clear has
  emptied the map, the access order is about to be emptied as well and keeps nothing
  within reach. The invariant therefore counts the order only while no clear is under
  way; a hash that is put meanwhile is `overtaken`.
- `AcceptedSoundly`: `AcceptedFeaturesWereActive`. The invariant follows a
  validation: the active version and the one read last are among those active since
  it began, the flags they have are among those collected, and so is every feature
  that is not left to check.
- `SupportKept`: `SupportLostOnlyByRemoval`. The invariant adds that at most one
  call is at a boundary and that a removal under way is of a version whose removal
  was asked for while it was not active (`exposed`). Of the callers it assumes only
  that boundaries are processed in order.
- `RatesAreExplained`: `RatesExplained`. The bound on earnings is kept for every
  rate that no rate exceeds, since the rate changes between two commissions.
- `ActivationsMatch`: `ActivationsAudited`, which is inductive but for types and
  for the last event being the end of the list.
- `KeyAlwaysValid`: `AlwaysAValidKey`. The transitions that end in one call end in
  the order of a map; whichever is last settles the key, and keys are finitely many.
- `SlashedJustly`: `SlashesJustified`. The invariant adds that the evidence which is
  remembered is that of the last slash for double signing.
- `UpgradesAreApproved`: `UpgradesApproved`. Results are copied from map to map, so
  the invariant says of every copy, wherever a call has it, that its approvals were
  cast; what is active or about to be has a quorum among all votes ever cast, which
  only grow. Version and flags differ only while the one call that activates is
  between its two writes.

**Only model-checked.** All liveness (`QuorumCertifies`, `QueuedSettles`,
`BroadcastEnds`). The disagreements of section 4 are counterexamples of TLC.

## 6. What is not modelled, and why

Metrics, logs, propagation times, wire formats and cryptography. Signatures are
identities: `add_snapshot_signature` verifies none. Keys are their addresses.

- `mercury.rs`: cycle changes and participation pass on to the validator set and
  are in `ValidatorSet`; the liveness, Byzantine and partition reports read
  counters and log. `clear_old_pending` of `cascade.rs` only drops empty signature
  lists, which never exist, so it is no action.
- `validator_tiers.rs`: the table is in `Staking`; `ValidatorTierManager`, a second
  record of the same tiers, has no user in the crate.
- `optimizations.rs`: every operation of the batch pipeline is one critical section
  on one queue, with nothing to interleave; the snapshot optimizer's helpers are
  pure, and `compute_merkle_tree_parallel` has the 32/64-byte copy of `mercury.rs`.
- `block_creator.rs` is a conversion and one store; `validator_monitoring.rs` and
  `persistence/logging.rs` are metrics and log records that nothing reads back.
- `persistence/consensus_integration.rs` keeps start-up flags and counters;
  `persistence/node_startup.rs` recovers nothing, since `recover_state` is a stub
  that returns empty results.
- Receipt tokens of the delegation, the list of single fees, floating point beyond
  2^53, and the `advance_cycle` calls that only stamp later events.

## 7. What could come next

A second definition of the tiers (`ValidatorTierManager`) against the one of
`Staking`; a run for the lock order of `activation.rs`; the theorems about single
services stated about `Services` itself, as those about stake, set and fees are.
