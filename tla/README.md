# Verification of logos-rln-modules

TLA+ models of the concurrent and durable core of the Logos RLN modules, the TLC
runs that check them on small instances, and TLAPS proofs of every safety property
and refinement those runs find to hold. Paths below are
relative to the repository; `R/` stands for
`logos-rln-module/rust-lib/src/` and `L/` for `logos-lez-rln-module/rust-lib/src/`.

To repeat a run: `tlc -config <cfg> <module>`; to check the proofs of a component:
`tlapm <Module>Proofs.tla`. `PROJECT.json` lists the runs, the source
lines of every definition, the seeded faults each property notices, the
hazards and the findings.

## 1. The system

A node proves that it may send a message without saying who it is. It holds a
*membership* (an identity whose commitment is a leaf of an on-chain tree) with a
budget of `rate_limit` messages per *epoch*. Each proof consumes a slot
`(membership, rln_identifier, epoch, message_id)`; two different messages signed
under one slot reveal the identity secret. Validators keep the nullifiers they
have accepted and recognise such a reuse.

| Component | State | Operations | Hard behaviours | What makes it correct |
|---|---|---|---|---|
| Slot allocation (`R/rate_limit.rs`, reserve path of `R/sealed_store/store.rs`, `generate_proof` in `R/lib.rs`) | per membership: rows `(app, epoch) -> used`, prune floor, epoch size; in memory and in `rln_allocations.json` | reserve_message_id, remaining_budget | clock that steps, parameters read a minute before use, failed or half-made writes, crash | no slot twice, durable before use, one size, a bounded floor |
| Worker supervisor (`R/worker.rs`) | lifecycle state, generation, count, three thread slots, stop flag | start, stop, ensure, exit epilogue | joins under a lock, detached stragglers, racing starts and stops | one loop of each kind, exact count, no deadlock, everyone exits |
| Membership lifecycle (`R/lifecycle.rs`, `R/poller.rs`, register and get_membership_state in `R/lib.rs`) | a record per membership, in-flight claims | register, submit callbacks, poller tick, merged read | answers applied late, lost callbacks, time window against a late landing | no double mint, usable only if registered, pending resolves, removal is noticed |
| Provisioning (`R/ensure.rs`) | a ticket (EPOCH); the pass: its place, what it waits for | one pass per start(): scan, wallet wait, registry check, price, funding, registration | hours of waiting between check and registration, a fee that moves, an outage | at most one pass, no second membership, paid on the right chain, every pass ends |
| Proof validation (`validate_proof` in `R/lib.rs`, `R/nullifier_log.rs`, `R/roots.rs`) | nullifier log, root windows, tracked registries, last nudge | validate_proof, root reads, adopt, nudge, start()'s overrides | overlapping calls that prune and record, slow reads, registries of different epoch length | no false accusation, reuse is always recognised while fresh, roots are recent |
| Sealed store (`R/sealed_store/`) | sealed credentials, cache, allocations, session, published snapshot | open, unlock, lock, insert, reserve, update_cache | crash between its three files, writes that fail on either side of the rename, damaged or foreign files | nothing acknowledged is lost, counters do not roll back, doubt quarantines and only doubt does |
| Keychain (`R/keychain.rs`) | the secret file, the OS item | the auto-unlock walk, remember_keystore_password | two walks and a manual unlock of a fresh store, a store re-opened under a walk | never keyed to a secret that is then forgotten |
| Provider and dispatch (`R/provider.rs`) | network gate, one pending record per request | reads and submission over the wire, use_network | reply, timeout and error of one request, in any order with the dispatch's own return | exactly one outcome per submission, a gate that is still true |
| Registry module: wallet (`L/wallet.rs`, `L/networks.rs`, `L/fee_state.rs`) | the home on disk (config, marker, storage, payer), selection, readiness | planning and provisioning a home, use_network, bring-up, wallet_status, sends | first use decides the network; two files per home; an outage while opening; a payer cut short | a home is never pointed elsewhere, one payer, an outage only delays |
| Registry module: API (`L/lib.rs`, `L/rln_core.rs`) | in-flight registrations | register_member and its watcher, get_membership, check_registry, tree reads | unknown outcome of a submission, reads that fail, a transaction that settles between two reads | one submission at a time, a revert is judged once it is settled |
| Path cache (`R/path_cache.rs`) | path per membership | fill, hit, drop | leaf index that changes | no path of another leaf |
| Selection (`R/select.rs`) | a cursor per scope | pick | | the strategy's order |
| Wallet home (`R/wallet_home.rs`) | a claim file in a directory | provision_wallet_home | two modules, one directory; a crash that leaves the claim | one owner |
| Ids, views, proof engine (`R/registry_id.rs`, `R/views.rs`, `R/proof.rs`) | none | parsing, shaping replies, proving through zerokit | | |
| Membership UI (`logos-rln-membership-ui/`) | screens | onboarding | | |

Interaction: `generate_proof` and `validate_proof` run on any host thread. The
store is one mutex; workers and calls share it, the nullifier log, the root
windows and the path cache. The poller and the refresher are the only threads
that read the registry on their own. `start()` configures sizes and gaps,
starts the workers and a warm pass that ends in provisioning; provisioning and
applications both go through `register_scoped`, whose submission answers through
a callback. The registry module owns the wallet and the network.

## 2. Modules

### SlotLedger, SlotAllocation

`SlotLedger` is the promise: every slot is issued at most once, and never after
a higher one of its `(app, epoch)`. It has no store, clock or disk.

`SlotAllocation` is the code. `mem` and `disk` are `Inner.sections` and the file;
`BeginProof` is `generate_proof` up to the Merkle path fetch and fixes epoch,
retain candidate, size and rate in `reqs`; `Reserve` is `reserve_message_id`
(size guard, row cap, `reserve_slot`, durable write, return), and
`ReserveUnpersisted` the same with a failed write that left either file.
`Unlock`, `Lock`, `Reopen` (a host context that arrives again closes the adopted
store), `Restart` and `Start` come at any moment. There is no clock variable:
each call reads any time, which covers every drift and step. Saturating u64
arithmetic is kept, with `MaxTime` in the place of `u64::MAX`. A row with
`used = 0` never exists in the code, so 0 stands for "no row". `issued`, `sizes`
and `spent` are history variables.

### WorkerSupervisor

One record per thread, with its place in the code: in its wait, before a phase,
before a read, reading, in the three steps of the exit epilogue. `SUP` is held
between two steps only while threads are joined, so a section is one action and
the joins are a state of the host thread (`start_join`, `stop_join`). Tick bodies
are sequences of phases (`Following`), with the points where each looks at the
stop flag (`Gated`, `ChecksEachItem`); what they read is the subject of the other
modules. `late` counts the reads a worker began since `stop()`. Ids of exited
threads are reused.

### MembershipLifecycle

`rec` is the identity block and the cache row of a membership. `chain` is the
registry's truth and `submit` the state of the transaction: both external, and
nondeterministic within what the code relies on (a refusal means nothing was
sent, any other reply leaves the landing open). Registry reads are two actions,
a fetch that fixes the answer and an update that applies it to whatever the row
has become. `calls` are register calls and provisioning passes, with the claim
held from scan to submission (`RegisterClaim`). `Restart` loses calls, claims,
callbacks and ticks; with `CacheLoss` it may also find the cache file gone.
A successful `Write` is taken for granted: `update_cache`'s failed write is in
`SealedStore`.

### ProofValidation

A call is three steps: gate (`Begin`: clock, configuration, freshness, retention
floor), root window (`CheckRoots`), verification and log (`Judge`, under the
log's lock); a miss ends in the nudge, whose load and compare-and-exchange are
two steps. A root read fixes its answer at `BeginRead` and installs it, stamped
with the time of installation, at `EndRead`; reads of a refresher and of a prover
(`adopt`) may overtake each other. `Start` may give each registry its own epoch
size and gap. What verifies (`MayVerify`) is external: proofs exist only of
messages that were signed, and any proof may be damaged. `RootsRecent` bounds
the length of a read by `ReadLimit`, which the timeout of provider calls is.
The clock does not step back here and the process does not restart: both limits
are documented in the code, since nothing of this state is persisted.

### Custody, SealedStore

`Custody` is the promise of the keystore about what it has committed: memberships
are only added, the password that opens them changes only while there is none, and
only damage from outside loses one.

`SealedStore` is the code. `disk` holds the four files (sealed credentials,
allocations, cache, auto-unlock secret), `inner` the memory of an open store
(`Inner`), `shown` the published snapshot, `item` the OS keychain. A ciphertext is
the password whose key made it, a section's MAC likewise or `None`, and the root MAC
its key and the sections it covers: that is all the keyed verification of `unlock`
looks at. Every operation holds the store's mutex and is one action, except `insert`,
whose three writes (`InsertSection`, `InsertRow`, `InsertCredential`) are separated so
that `Crash` may come between them. A durable write ends in one of three ways, done,
failed before its rename, failed after it; the code cannot tell the last two apart.
`WalkBegin` to `WalkUnlock` are the steps of `auto_unlock_core`, which holds the walk
lock and not the store's: each read of a secret (`WalkRead`, `WalkItem`) is apart from
the unlock that uses it, and `Reopen` may close the store under a walk.
`remember_keystore_password` takes neither lock and is two steps as well, the session's
password (`RememberRead`) and the write of the item (`RememberWrite`), which the backend
may refuse. `replaced` is a history variable: the keychain items that were overwritten
while the store was keyed to them or a walk was about to use them. `Damage...`
happens while the process is down. The slot arithmetic of a section is the subject of
`SlotAllocation`; here a section is one counter. The refinement maps `kept` to the
credentials of the sealed file and `password` to the one its verifier accepts.

### RegisterSubmission

A registration from `dispatch_recorded` to the chain. `reqs` is the `Pending` record of
a dispatch with the number of outcomes its owner was told; `Completion` and `Returned`
are the two sides that race for it. `calls` is a `register_member` call at its place:
the reads before the claim (`NoContext`, `Found`, `Preflight`), the slot of
`REG_IN_FLIGHT` (`Claim`), the send and the record. `watch` is `register_watch`, one
action per read, so that a transaction may be decided between any two. `txs` and
`chain` are external: a transaction the sequencer has taken applies, reverts or is
dropped (`Decide`). A failed read of a membership counts as an absent one where the
code uses `fetch_shard_quiet` (`Landed`), and is kept apart where it does not
(`Fetch`, `AnswerOf` in get_membership). Time is a `Tick` that ages slots, watchers
and transactions, and it may come at any point of a call or a round. The one timing
assumed is of the sequencer: it decides a transaction it keeps within `Settle`, which is
less than `REG_IN_FLIGHT_TTL`. A watcher tests its deadline (`Test`) before it sleeps, and
the deadline is set when its thread begins (`Begin`), after the slot was stamped: so
its last round always runs on a slot that has expired, and any send or round may take
that long. `overrun` is a history variable: the memberships whose slot expired while a
caller or a watcher still worked for it, until all is quiet again.

### NetworkBinding, Provisioning

`NetworkBinding` is which chain a node talks to. On disk: `config` (with who wrote it,
a history field), `marker`, `storage`, `payerFile`. `sel` is `SELECTION`, with the two
writes of `provision_home` as states of their own (`WriteMarker`, `WriteConfig`), as a
crash may come between them. `PlanHome` is `plan_home`; `UseNetwork` is
`select_network` under its lock; `Ask`, `AskLost` and `Remember` are `ensure_network`
with a reply that may be lost, and `gate` is what it remembers. `thread` is the
bring-up: open with retry (`OpenFails` for an outage or any other cause), resolve the
payer, save, record, sync. A read of `payer.json` may fail, which the code takes for an
absent file (`ResolvePayer`, `Derive`); `published`, the payer that was named to be
funded, is then forgotten, as PayerStays is about starts that can read it. An operator,
or the `provision_wallet_home` of another module, may stage a config in a home that has
none (`Stage`), at any moment: one that comes between the look for a config and the
rename is marked `late`, and `WriteConfig` replaces it. The sequencer goes down and
comes back.

`Provisioning` EXTENDS it and composes it with the pass of `ensure.rs`: the pass waits
for the readiness the bring-up sets, and its reads go through the same gate. Prices
are a `quote` that may fall while the pass waits for funds. Only consumers asking for
networks of the built-in table are modelled, and `LEZ_RLN_PAYER` is taken as unset.

### MC modules

One per specification that is run. They add symmetry where only safety is checked, and
the configurations, environments and assignments that a cfg cannot write.

### Proof modules

One per specification that is run, named after it and extending it
(`SlotAllocationProofs`, `WorkerSupervisorProofs`, `MembershipLifecycleProofs`,
`ProofValidationProofs`, `SealedStoreProofs`, `RegisterSubmissionProofs`,
`ProvisioningProofs`; the last is about `NetworkBinding` too). Each begins with its
inductive invariant, goes on with lemmas about the operators and about what a step
leaves alone, and ends every part in a theorem.

Definitions named `Wrong...` are seeded faults. Each stands before the definition
it would replace; `PROJECT.json` names the property that notices each.

## 3. Runs

Runs that hold:

| Run | Properties | Instance, and why it is enough |
|---|---|---|
| `slots` | TypeOK, NoReissue, OneEpochSize, FloorHasTwoWitnesses, DurableBeforeUse, QuotaMirrorsReserveBelowCap, ImplementsLedger | one membership, one application, two callers, epoch sizes 1 and 2, times 0..3, three reservations: two callers carry stale parameters past each other, the floor advances twice, sizes conflict, the row cap (2) is met, saturation is reached. Sections are independent of each other, and the theorems remove the bounds |
| `workers` | RunningExact, NoDuplicateLoop, LoopsRun, QuietAfterStop | two host threads, both loops, four threads alive at once, two generations, two starts: a straggler beside a new run, a start racing a stop |
| `refresher` | RefresherStopsReading, CallsReturn, StragglersExit | one loop with up to two reads per phase, and the warm pass; liveness without symmetry |
| `registrations` | NoDoubleMint, ClaimsMatchCalls | two callers (applications and provisioning), one scope and the registry-wide one, two identities, restarts that may lose the cache |
| `records` | UsableWasRegistered, ErasedWasRegistered, OnlyPollerFailsConfirmed, PendingResolves, RemovalNoticed | one record with every writer of it at once: callback, tick, merged read, restart; liveness without symmetry. Writers touch one record at a time |
| `verdicts` | NoFalseAccusation, ExactWhileFresh | two calls at once, three in all, an honest and a cheating nullifier, epochs that age out of the window |
| `root_window` | RootsRecent | a rotation, a refresher's and a prover's read of length up to 1, windows that go stale, two calls that miss |
| `sealed_store` | NoFalseQuarantine, CountersNeverRollBack, AckedSurvive, CredentialsOpenable, ImplementsCustody | two memberships (the restamping of one's section with the other's write, the root over both), a typed password and two generated ones, one walk and one remember call at once (two walks racing for AUTO_UNLOCK are left to the theorem `NeverLockedOut`, which holds for any Walkers), two openings, and one fault: a write that fails on either side of its rename, or a damaged file. A violation needs one fault and the restart that reveals it; the exempted race of a walk with a remember call is reached (without `replaced` the invariant fails here) |
| `submission` | SoleSubmission, RevertIsSettled, OneOutcome, NoFalseErasure, SlotFreed | one membership (slots of different memberships are independent), a caller that asks again whenever it was answered, two sends of which one may be a re-send, a slot life of three ticks and a settling time of two, one read that fails as absent: a slot that expires under its owner, and a watcher's last round beside the next submission, are reached. Calls that overlap each other are left to the theorems, which hold for any number of callers: what they share is the slot, taken in one step. Deadlock is checked |
| `provisioning` | GateIsCurrent, PayerStays, PaysOnItsChain, HomeNeverRepointed, OutageHeals, PassEnds | two networks, a chain and a reference the table does not know, five environments, two starts of which the second may find another environment, one outage, a caller beside the pass, a requirement that is one unit too high when the pass begins |

Runs whose property a comment of the repository states and the code does not
keep (the findings; `PROJECT.json` quotes the lines):

| Run | Property | What TLC shows |
|---|---|---|
| `provision_second` | ProvisionAddsNoSecond | An application registers while provisioning waits for funds; provisioning then registers a second, registry-wide membership, as its own scan matches only records with an empty identifier |
| `overrides` | ExactWhileFresh | The nullifier log is keyed by epoch index and shared by registries with different epoch sizes: validating for one prunes buckets of the other that are still fresh, and a reused nullifier is answered valid |

`verdicts` checks the same ExactWhileFresh as `overrides` with one epoch size for
all registries, where it holds.

Other places where the models follow the code and a comment says more than it does.
They have no run of their own; most are hazards in `PROJECT.json`:

- A poller detached by `stop()` goes on to read once per record of its tick
  (`R/lib.rs:1238-1240` promises at most the read in flight). The refresher keeps it:
  RefresherStopsReading.
- The provisioning ticket is taken after the warm-up reads, so a slow pass of an
  earlier `start()` supersedes that of a later one (`R/ensure.rs:64-66`).
- A tick that read before the registration landed writes `failed` over an `active`
  another read wrote meanwhile (`R/poller.rs:7-8`); OnlyPollerFailsConfirmed says that
  nothing else does.
- A failed membership read counts as absent in register_member and its watcher, and an
  applied registration may be sent again (`L/lib.rs:641-643`). RevertIsSettled and
  SoleSubmission hold with such reads.
- A watcher's last round runs when its slot has expired: it may re-send a registration
  while the sequencer holds the next caller's (`L/lib.rs:643-646` says such a one is left
  alone). SoleSubmission and RevertIsSettled are stated until a slot expired under its
  owner (`overrun`).
- A config that is staged between the look for one and the rename is overwritten
  (`L/wallet.rs:72-73` and `668-669` say never). It is the one exemption of
  HomeNeverRepointed.
- A read of `payer.json` that fails is taken for an absent file, and another payer is
  derived and written over the recorded one (`L/wallet.rs:90-91`, `1075-1076`). PayerStays
  is about starts that can read it.
- A walk that found the store fresh unlocks it with its generated secret although a
  person has provisioned it meanwhile, which rekeys it while it is empty
  (`rust-lib/liblogos_rln_module.lidl:376-380`: "it never invents a secret over one").
- `remember_keystore_password` may overwrite the keychain item an overlapping
  auto-unlock has read or used; the store is then keyed to a secret that is stored
  nowhere (`R/keychain.rs:261-264` names this outcome as what the walk lock excludes).
  It is the one exemption of CredentialsOpenable.
- An outage between the wallet wait and the price ends a pass for good, although
  `R/ensure.rs:275-283` waits out outages; PassEnds counts it as an end.
- A marker whose config was never written names the network of a config an operator
  stages later. PaysOnItsChain is about homes the module configured.
- A reference outside the table that is refused while a home waits stays refused after
  an operator staged a home that would accept it (`R/provider.rs:195-198`). GateIsCurrent
  is about references of the table.

Bounds are constants named in the modules (`MaxReservations`, `MaxTime`, `RowCap`,
`MaxWorkers`, `MaxGen`, `MaxStarts`, `MaxItems`, `MaxHead`, `MaxCalls`, `MaxTx`,
`MaxLostReads`, `MaxFaults`, `MaxOpens`, `MaxUuids`, `MaxSlots`,
`MaxOutages`, `MaxFunds`, `MaxQuote`). A
deadlock is not an error where the system may rest (everything stopped, every
bound used up): every configuration but those of `slots` and `submission` says so.

### Fairness

- `WorkerSupervisor`: weak fairness of each worker's next step and of each host
  thread's next step in a `start()` or `stop()` that has begun. Threads are
  scheduled, every provider call has a timeout, and the mutexes are granted.
  Nobody has to call `start()` or `stop()`, and a provisioning pass may wait for
  ever, as it may for funds.
- `MembershipLifecycle`: weak fairness of a tick's beginning and end and of the
  window's elapsing; strong fairness of each record's read, of its update and of
  the refresh on every fourth tick. Reads may fail again and again, and processes
  may restart, but not for ever without one success between. Landing, callbacks
  and host calls are not fair.
- `RegisterSubmission`: weak fairness of the sequencer's decisions and of `Tick`. No
  caller, watcher or request has to go on, nor a transaction to apply: a slot is freed
  although its owner stopped anywhere.
- `Provisioning`: weak fairness of the bring-up thread, of the writes of a home, of the
  pass and of the context's arrival, which the host guarantees; a caller keeps asking
  (the refresher does, for every registry it tracks) and, strongly, gets an answer in
  the end although single requests are lost; an outage ends, and a home that does not
  open for another cause opens in the end (one that never does is retried for ever, and
  no property is claimed of it); the payer is funded and
  the quote falls in the end, without which the code promises nothing. Restarts are
  not fair.
- `SlotAllocation`, `ProofValidation` and `SealedStore` state safety only.

## 4. Proofs

The theorems hold for all constants that satisfy the named assumptions of the
modules; the bounds of the runs (calls, restarts, failures, threads, sends) are any
naturals in them, and sets of members, callers, registries or networks are any sets.
The assumptions say that times, counts and rates are naturals and epoch sizes and gaps
positive, that a few distinguished values differ (`NoneAssumption` in each module,
`WideAssumption`, `NamesAssumption`, `ReadersAssumption`), what start() and the
environment may configure (`ValidationConstants`, `EnvsAssumption`), and, in
`RegisterSubmission`, that the sequencer decides what it keeps sooner than a slot
expires (`Settle < TTL`). Nothing is assumed of how long a send, a sleep or a round
takes. Every run evaluates those of its modules. No theorem uses
fairness.

| Component | Theorem | States |
|---|---|---|
| `SlotAllocation` | TypeCorrect | `TypeOK` |
| | SlotsNeverReissued | `NoReissue` |
| | SlotsDurable | `DurableBeforeUse` |
| | SizesNeverMix | `OneEpochSize` |
| | FloorWitnesses | `FloorHasTwoWitnesses` |
| | QuotaIsHonest | `QuotaMirrorsReserveBelowCap` |
| | AllocationImplementsLedger | `ImplementsLedger`: a refinement |
| `WorkerSupervisor` | TypeCorrect | `TypeOK` |
| | CountIsExact | `RunningExact` |
| | LoopsAreUnique | `NoDuplicateLoop` |
| | LoopsKeepRunning | `LoopsRun` |
| | StopIsQuiet | `QuietAfterStop` |
| | RefresherStops | `RefresherStopsReading` |
| `MembershipLifecycle` | TypeCorrect | `TypeOK` |
| | ClaimsExact | `ClaimsMatchCalls` |
| | OneMintAtATime | `NoDoubleMint` |
| | UsableIsRegistered | `UsableWasRegistered` |
| | ErasedIsRemoved | `ErasedWasRegistered`, assuming `~CacheLoss` |
| | OnlyPollerFails | `OnlyPollerFailsConfirmed`: an action property |
| `ProofValidation` | TypeCorrect | `TypeOK` |
| | AccusesCheatsOnly | `NoFalseAccusation` |
| | RootsAreRecent | `RootsRecent`: an action property |
| | ExactUnderOneConfig | `ExactWhileFresh`: an action property, assuming `OneConfig` |
| `SealedStore` | TypeCorrect | `TypeOK` |
| | AcknowledgedStay | `AckedSurvive` |
| | FilesImplementCustody | `ImplementsCustody`: a refinement |
| | NeverLockedOut | `CredentialsOpenable` |
| | TrustsItsOwnWrites | `NoFalseQuarantine` |
| | CountersKept | `CountersNeverRollBack` |
| `RegisterSubmission` | TypeCorrect | `TypeOK` |
| | ToldOnce | `OneOutcome` |
| | NeverFalselyErased | `NoFalseErasure`: an action property |
| | SendsAlone | `SoleSubmission` |
| | JudgedAfterDecision | `RevertIsSettled` |
| `NetworkBinding` and `Provisioning` | TypeCorrect | `TypeOK` |
| | HomeStays | `HomeNeverRepointed`: an action property |
| | PayerIsStable | `PayerStays` |
| | GateCurrent | `GateIsCurrent` |
| | PaysWhereItMeans | `PaysOnItsChain` |

Two theorems have a hypothesis of their own, and each is needed:

- `ErasedIsRemoved` assumes that the cache file is never lost (`~CacheLoss`). Without
  it a row is `unknown`, and a refresh takes it for one that was registered.
- `ExactUnderOneConfig` assumes that every configuration of start() has one epoch size
  and one gap for every registry (`OneConfig`). The `overrides` run shows what happens
  without it.

Five more are about properties that exempt a case by name, in the property itself:
`SendsAlone` and `JudgedAfterDecision` (memberships in `overrun`), `HomeStays` (a late
config), `PayerIsStable` (a failed read of `payer.json`) and `NeverLockedOut` (items in
`replaced`). Each exemption is needed: without it the property fails in the instance of
its run, along the lines listed in section 3.

### The arguments

None of the invariants is inductive as the runs state it. What was added, and why
(each strengthening was checked by TLC on the run's instance before it was proved):

- **SlotAllocation.** A state in which a slot has been issued and no counter
  remembers it satisfies NoReissue, and the next reservation breaks it. `IInv` adds
  `Recorded(mem)` and `Recorded(disk)`: in each copy, every issued slot is below its
  row's counter or its epoch below the floor; the section carries the size all slots
  were issued under; every slot below a counter was reserved at some time; a positive
  floor has two witnesses. Both copies are needed because `Restart` and `Reopen` put
  `disk` in the place of `mem`, and `ReserveUnpersisted` lets the two differ. That
  `Max` returns the largest element of a bounded set is a lemma proved by well-founded
  induction on the naturals. QuotaIsHonest needs types only: the budget and the
  reservation compare the same row with the same floor.
- **WorkerSupervisor.** `SupervisorInv` ties together what the code keeps apart. One
  `start()` or `stop()` is between two of its steps at a time, in the state it set
  (`LifeInv`, which stands for `SUP`); a slot holds a worker of its kind and
  generation, or one that is gone, and a loop's is alive until `stop()` (`SlotInv`);
  what `start()` has ensured and what `stop()` has cleared so far (`CallInv`); for each
  thread, that a loop leaves only when it was stopped or superseded, and what it has
  read since (`ThreadInv`). RunningExact counts `Current`, so each action is shown to
  add one worker to it, remove one, or leave it alone. `TicketInv` counts the tickets,
  the warm passes that have yet to take one and the `start()` under way against the
  starts: it is what keeps `EPOCH` within its bound.
- **MembershipLifecycle.** `Refer` (in `TypeInv`): whatever is on its way to a record
  finds one. `ClaimInv`: two calls in flight hold claims of two scopes, and a call that
  has yet to insert knows of every record of its scope, as the claim keeps others from
  adding one. `RegistryInv`: what a row, a fetched answer or a merged read says of the
  registry was once true; the answer on its way matters, as it may be applied to a row
  that has moved on. `StampInv` says the same of the stamp `seen`, of the list of a
  refresh and of a read's snapshot. `SubmitInv`: nothing lands before it was submitted.
- **ProofValidation.** `LogInv`: an honest nullifier's entry holds no share but its
  own. `RootInv`: a root in an answer under way had not left the list when the registry
  was read, at most `ReadLimit` ago, and a window's was at most that old when it was
  stamped. `FreshInv`: the floor of a call under way is not above the present floor
  (`CallsBelow`), and a nullifier that was answered valid is in the log or its epoch is
  below that floor (`ValidLogged`). With one configuration floors only rise with the clock, so a
  slow call prunes nothing a later one needs.
- **SealedStore.** `SealInv` relates memory to the sealed file: memory may be ahead of
  the file by credentials a failed write left behind, never short of it, and a session
  is the file's password. It gives AcknowledgedStay and the refinement. `WalkInv`: one
  walk is past its lock and knows what the secret file holds, and what it has read of
  the keychain is still there or in `replaced`; with it, `OpenableInv`: the password of a
  file with credentials, and an open session, is typed by someone, stored somewhere or
  in `replaced`. `LedgerInv`: unless there was damage, each copy of the ledger
  carries sections and a root that the file's password verifies, for the credentials
  of the file and for the one an insert is about to commit: the order of the three
  writes of `insert` is what makes it hold. `CounterInv`: a section whose MAC verifies
  counts every slot issued, whichever file it is found in, and memory counts at least
  what it read.
- **RegisterSubmission.** `RequestInv`: a request's callback is held exactly until it
  is both dispatched and replied to, and an early outcome waits in `sync`. `SlotInv`:
  the slot of a membership has one owner, a caller between claim and record or a
  watcher, and is held as long as it is owned (`Owned`); while the
  sequencer holds a transaction the slot is held too, no older than the transaction but
  for the moment between a send and its record, and its owner follows that transaction
  (`Guarded`): the decision comes before the slot expires, which is where
  `Settle < TTL` is used. All of this holds of a membership that is not in `overrun`: a
  tick that lets a slot expire under its owner puts it there, and it leaves when no
  caller, watcher or queued transaction of it is left. `KnownInv`: what was answered as registered is on the chain.
- **NetworkBinding, Provisioning.** `HomeInv`: while a home is between its two writes
  it has no config but a late one, and a home of the table has a marker that names its config's
  chain. `GateInv`: no answer that is kept is given before the home is bound or given
  up, and one on its way is what would be answered now. `PayerInv`: a payer that was
  named is in `payer.json`, and a thread that derives one found none or could not read it, after which nothing is
  named. `PassInv`: a pass
  that pays was told its network is the home's. For TypeCorrect,
  `OneAccountPerStart` counts the accounts in storage against the starts.

### Only model-checked

- Liveness: CallsReturn, StragglersExit, PendingResolves, RemovalNoticed, SlotFreed,
  OutageHeals, PassEnds. They rest on fairness and ENABLED, which the prover does not
  reach.
- That `slots` and `submission` have no deadlock, for the same reason.
- The two findings, which are counterexamples.

## 5. What is left out, and why

- The store's ciphers, MACs and key derivation: `SealedStore` models them by which
  password's key made a value. The keychain backends are left out, and so are a foreign
  keychain item and an unreadable secret file, which only end a walk.
- The wallet's ffi, account decoding, the Merkle tree and its roots (`L/rln_core.rs`,
  `L/base58.rs`): functions of what was read, covered by their tests. `SEND_LOCK` makes
  a send one step.
- Events the module emits, and the client handle and reply decoding of `R/provider.rs`.
- The cached path and its leaf guard (`R/path_cache.rs`): one comparison under a mutex.
  Its fill is a reader of the roots in `ProofValidation`.
- Membership selection (`R/select.rs`): a choice from a sorted list and a cursor under
  a mutex. `R/wallet_home.rs`: one call, one file, one claim; a claim that a crash
  leaves behind is a hazard without a property.
- Fee arithmetic (`L/fee_state.rs`, the sums of `R/ensure.rs`): a number that falls.
- `remaining_budget` does not look at the row cap that refuses a reservation for
  good; QuotaMirrorsReserveBelowCap is stated below the cap and the difference is
  kept as a hazard.
- A lost cache file turns records into `unknown`, which a refresh may call erased
  although they never landed; ErasedWasRegistered is checked, and proved, with the file intact.
- The damages of `SealedStore` are a ledger that is lost, corrupt, foreign or edited and a
  sealed file that is corrupt. A whole earlier ledger put back, whose MACs verify, is not
  among them: the store cannot tell it from its own.
- A failed durable write in `insert` is in `SealedStore`; the `Insert` of
  `MembershipLifecycle` is one that succeeded.
- `exists()` and the reads of the marker are taken to answer what is on disk: a stat that
  fails, which reads as absent, is not modelled.
- `validate_proof` reads clock and configuration in one step of the model; both
  are in memory and adjacent in the code.
- Cryptography, hashing, wire encodings, JSON views, identifier parsing, base58
  and account decoding have no interleaving and no state. Zerokit and the chain
  are external.
- The QML user interface.

## 6. Plan

Every safety property and refinement of a passing run is proved. What is left:

1. A detached poller: how many reads it may begin after `stop()`, as an invariant of
   `WorkerSupervisor` and then from `ThreadInv` (the hazard at `R/poller.rs:209`).
2. `leaf_index` in `MembershipLifecycle`: a late callback against the poller's
   read-back (the hazard at `R/lib.rs:533`).
3. Abstract specifications for the supervisor (one run at a time, started and stopped)
   and for the registration (unsent, sent, decided), refined by the models there are.
4. `R/wallet_home.rs` with a crash between its claim and its config.
