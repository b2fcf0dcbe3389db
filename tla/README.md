# The sealed reserve of the Mobius Civic AI Terminal, in TLA+

This directory holds TLA+ modules of the terminal's *sealed reserve* (Vault v2), the TLC
configurations that model-check them, and machine-checked proofs about the core and its
store accesses, about the lanes and concurrent writers on stored seals, about the repair of the
chain and about the tiers of the store.
Paths are relative to the repository root (`src/` in `PROJECT.json`).

## 1. The system

The terminal is a Next.js application on Vercel. It has no resident process: every behaviour is a
request handler or a cron run (`vercel.json`), and all durable state is in an Upstash Redis store
("KV"). Handlers keep nothing between requests, read and write KV keys one at a time, and, with
the exception of two Lua scripts in the repair code, never use a transaction.

| Component | State it keeps | Operations | Models |
|---|---|---|---|
| Vault v2 core (`lib/vault-v2/{seal,deposit,store}.ts`, `api/vault/seal/**`, `api/cron/vault-attestation`) | in-progress balance and deposit hashes, the candidate, seals by name, attested and audit index, latest pointer | accrue a deposit, form a candidate, cast a vote, the attestation cron | `SealQuorum`, `SealedReserve`, `VaultSteps` |
| Vault v2 historical lanes (`back-attest.ts`, `substrate-attestation.ts`, `api/vault/block/*`, `api/cron/reattest-seals`, `api/vault/seal/quorum`) | votes and pointers of stored seals, substrate retry queue | back-attest, sweep, drain the queue, reattest, force a quorum with bootstrap | `HistoricalReserve`, `HistoricalVotes` |
| Vault v1 deposits (`lib/vault/vault.ts`) | global balance, deposit list | write a deposit, then accrue it to v2 | the balance in `SealedReserve`, its steps in `VaultSteps`, its tiers in `VaultTiers` |
| KV watchdog, integrity gate (`lib/watchdog/sealIntegrityGate.ts`, ...) | last report, critical alert | list, load the lineage, report, record or clear the alert | `SealIntegrity` (in `SealedReserve` a free switch) |
| Collision repair (`lib/watchdog/collisionRepair*.ts`, `latestSealPointerRepair.ts`) | canonical seal per block, quarantine list, latest pointer, mutation journal | prepare, compare-and-set commit, journal | `CanonicalLineage`, `CollisionRepair` |
| Track R batch repair (`lib/watchdog/batchRepair`) | packets, receipts, one-shot guard, versions of the lineage | prepare evidence, stage, activate | the activation, in `SealIntegrity` |
| Historical vote sidecars (`historical-attestation.ts`, `lib/agents/dedupe.ts`) | one vote record per seal and sentinel, consumed dedupe keys | submit, merge into the seal, consume the key | `HistoricalVotes` |
| KV store and backup (`lib/kv`) | primary, asynchronous mirror | get with fallback, set, mirror, bridge | `VaultTiers` |
| MIC quorum, sustain, replay pressure (`lib/mic`) | per-cycle quorum record, two scores | register, advance, decay | not modelled |
| GI chain, circuit breaker, tripwires (`lib/gi`, `lib/tripwire`) | readings and alerts | decide whether a route may write | not modelled |
| EPICON promotion and shards, legacy seal lane, v1 migration | own stores | promote, finalize, migrate | not modelled |
| Agents, ingestion, journals, UI | content | fetch, score, show | not modelled |

How they interact. A journal entry becomes a v1 deposit, and in the same call a v2 accrual. Once
50 units are in progress, a candidate is formed on top of the seal the latest pointer names. The
five sentinels vote through `POST /api/vault/seal/attest`; the attestation cron (every 30
minutes) casts the missing votes, decides, stores the seal, forms the next candidate from queued
reserve, and back-attests quarantined seals. An attested seal is written to the civic substrate;
if that fails it is queued, and two more crons (`attest-sweep`, six-hourly, and `reattest-seals`,
on the same half hours as the attestation cron) retry. The watchdog reads the indexes and closes
a gate when two attested seals share a number; a closed gate stops formation and passing votes in
the automatic lanes, not in the operator's.

What is hard. (a) Formation, voting and finalization are separate requests, and what a candidate
read at formation must still be true when it becomes a seal. (b) A seal name is cycle plus
number, so names can recur. (c) Seven lanes change stored seals, each with its own idea of what
is stuck. (d) The substrate may fail between any two steps. (e) Every read-modify-write races
with every other. (f) Reads that fail look like absent values. `PROJECT.json` lists the hazards
line by line, with the property that covers each or the reason why none does.

## 2. The modules

| Module | Contents |
|---|---|
| `SealQuorum` | votes, the two quorum rules, the votes code casts for silent sentinels |
| `SealedReserve` | the lanes that run without an operator; the properties and the refinement |
| `SealChain` | what the reserve promises: parcels taken from a pool, an append-only linked log |
| `HistoricalReserve` | extends `SealedReserve` with every lane on stored seals |
| `VaultSteps` | the handlers of `SealedReserve` split at their store accesses, overlapping and killed; refines `SealedReserve` |
| `CanonicalLineage` | which of several seals of one number is canonical: operators, no state |
| `CollisionRepair` | repair scripts beside the growth of the chain |
| `SealIntegrity` | extends `CollisionRepair` with the watchdog, the gate and the activation of a lineage |
| `VaultTiers` | a v1 deposit over primary, backup and bridge |
| `HistoricalVotes` | the concurrent writers of one stored seal: submissions with their sidecars, operators, the reattestation cron |
| `SealedReserve_proofs`, `HistoricalReserve_proofs`, `VaultSteps_proofs`, `CollisionRepair_proofs`, `SealIntegrity_proofs`, `VaultTiers_proofs`, `HistoricalVotes_proofs` | theorems about the module named, for all values of its constants |
| `VaultRefinement_proofs` | the proof that `VaultSteps` refines `SealedReserve` |
| `MCSealedReserve`, `MCHistoricalReserve`, `MCVaultSteps`, `MCCollisionRepair`, `MCSealIntegrity`, `MCVaultTiers`, `MCHistoricalVotes` | instances for TLC |

### State

Each variable of `SealedReserve` is one KV key.

| Variable | Key |
|---|---|
| `v1Balance` | `mobius:vault:global:balance` |
| `balance`, `hashes` | `vault:in_progress_balance`, `vault:in_progress_hashes` |
| `candidate` | `vault:seal:candidate` (`None` when absent) |
| `seals` | `vault:seal:<id>`, a function from names |
| `chain`, `audit` | `vault:seals:index:attested` (with its legacy copy), `vault:seals:index:all` |
| `latest` | `vault:seal:latest` |
| `retry` | the substrate retry queue |
| `gate`, `cycle` | the integrity gate as handlers read it; the operator cycle |
| `formed` | not stored: how many candidates were ever formed, which also numbers the hashes |

`VaultSteps` adds one record per handler in flight: the place it has reached and the copies of keys
it will use. A parcel's closed window, and counts of kills and meetings, complete it; variables
marked *history* there only observe. `HistoricalReserve` adds two variables that only observe:
`expired`, the seals that were queued when the retry queue expired, and `overwritten`, the seals
whose name another parcel was given. In `CollisionRepair` and `SealIntegrity` a seal is known by its
name, cycle and number, and `chain` gives each name the `sealed_at` of the attested seal stored
under it; the hash covers that time, which so stands for the hash as well:

| Variable | Key |
|---|---|
| `chain`, `latest`, `candidate` | the attested seals by name, `vault:seal:latest`, the name of the candidate |
| `clock`, `reused` | not stored: the last `sealed_at`; the names a second seal was stored under |
| `canonical`, `quarantined` | `watchdog:canonical:block:<n>`, `watchdog:canonical:quarantined` |
| `receipts`, `journal` | approved receipts, `watchdog:collision:mutation-journal` |
| `script`, `watch` | what a running script or watchdog run has read so far |
| `lineage` | the version `watchdog:lineage:active_version` names |
| `report`, `alert` | `watchdog:kv:last-report`, `watchdog:kv:critical-alert` |

In `VaultTiers`, `primary`, `backup` and `bridge` are what each tier holds for the balance and the
meta row; `mirrors` and `copies` are the writes that were started and not awaited.

In `HistoricalVotes`, `seal` is the body of one seal (its votes, status and whether it has a
substrate pointer), `indexed` whether the attested index names it, `sidecar` the votes under
`vault:historical_attestation:<id>:<agent>`, `claimed` the keys under `agent:dedupe:`, and `run` the
handlers, each with the copy of the seal it will write back. A dedupe key contains the name of its
agent (`buildDedupeKey`), so a key is consumed for one sentinel.

### Actions

| Action | Handler |
|---|---|
| `Deposit` | `writeVaultDeposit` and the `accrueDepositV2` it calls |
| `RequestFormation` | `POST /api/vault/seal` |
| `SubmitAttestation` | `POST /api/vault/seal/attest` |
| `CloseWindow` | `timeout_at` passes |
| `VaultAttestation` | `GET /api/cron/vault-attestation`, its three steps in order |
| `SwitchGate`, `RollCycle` | a watchdog report; a new operator cycle |
| `BackAttest` | `POST /api/vault/block/attest` |
| `AttestSweep` | `GET /api/vault/block/attest-sweep`, sweep then queue drain |
| `ReattestSeals` | `GET /api/cron/reattest-seals`: give up, sweep, stuck seals, stale pointers |
| `CallQuorum` | `POST /api/vault/seal/quorum`, with and without bootstrap |
| `QueueExpires` | the key of the retry queue expires, seven days after its last write |

`VaultSteps`: `StartDeposit` to `WriteNext` are `writeVaultDeposit` and `accrueDepositV2`,
`ReadBalance` to `WriteCarried` a formation, `StartVote` to `WriteRecord` the attest route and
`recordAttestation`, `Trigger` to `Sweep` the attestation cron; `Kill` ends any handler between two
accesses, `WindowCloses` is `timeout_at` passing.

`CollisionRepair`: `FormCandidate`, `AttestSeal`, `RejectSeal` are the vault, reduced to names and
the pointer: the name is the number after the pointer's in the current cycle, taken or not, and the
seal overwrites what the name holds; `ApproveReceipt` an audit and its approvals; `ListSeals` to `ReadOthers` are
`validateReceiptForRepair` and `prepareCollisionRepair`, one action per read; `Commit` and
`CommitNothing` the Lua transaction; `ReadJournal`, `WriteJournal` the journal; `KillScript` an
interrupted script.

`SealIntegrity`: `WatchListSeals`, `WatchReadLineage`, `WatchReadPointer`, `WriteReport`, `Escalate`
are one run of `GET /api/cron/kv-watchdog`; `WatchListNothing` and `WatchSkipSeals` its runs over an
unreadable index and a suspended store, in which `ReportWriteFails` and `AlertDeleteFails`;
`ReportExpires` the report's day; `ActivateLineage` a
Track R batch; `RepairOrGrowth` every action of `CollisionRepair`, formation behind the gate.

`VaultTiers`: one action per access of a deposit, and one per outcome of a mirror or a copy.

`HistoricalVotes`: `Submit` to `ClaimKey` are `submitHistoricalBlockAttestation`, with
`ReadForMerge`, `ReadSidecar` and `WriteMerge` the merge it calls twice; `OperatorVote` and
`CronVote` read the seal in `backAttestSeal`, `WriteBody` and `WriteKey` are `writeSeal` and
`appendSealToChain`; `ListSeal` and `Repair` the reattestation cron, from its listing to
`retrySubstratePointer`; `Kill` ends any handler between two accesses.

### Abstractions

- **Handlers run to their end** in `SealedReserve` and `HistoricalReserve`. For the former `VaultSteps`
  shows it sound while handlers do not overlap (`ImplementsReserve`), and says what survives when
  they do. In `VaultSteps` reads issued together are one step and writes issued together land in any
  order; the sweep at the end of a cron run is one step; kills and overlaps are explored one or the
  other, not both in one behaviour; and whatever met the runs of one cron trigger has ended by the
  next, at least four minutes later (a function rarely lives that long).
- **Store errors** exist in `VaultTiers` (an outage of the primary or the backup), `SealIntegrity`
  (an index that reads as empty, a suspended store) and `HistoricalVotes` (writes that fail) only. Substrate writes may fail: one outcome
  holds for all the writes of one run; in `VaultSteps` they succeed. A failed write is queued for
  retry in the step that attests the seal; the code does not await the queueing.
- **Data.** Reserve is counted in multiples of the 6-decimal unit the code rounds to. A hash
  covers the formation time, so it is the number of the formation. Signatures, rationales, GI,
  posture, fountain status and timestamps decide nothing here and are left out. The deposit
  hashes a bootstrap collects are one signature.
- **Votes of the cron.** The cron fills every missing vote before it evaluates, so in a run that
  nothing overlaps its waiting and its timeout branches (`route.ts:303-348`) are not reached.
- **Counters of `reattest-seals`.** Which seals are inside a backoff window, and which have used
  up their attempts, is a free choice of each run. The one-time C-314 migration and burst are
  left out.
- **The gate and the cycle** are fixed in `VaultSteps`, open and 1. `ImplementsReserve` so says nothing
  of how handlers run while the gate is closed or the cycle rolls; those branches of `SealedReserve`
  are checked and proved as whole handlers only. `ReadCronVote` may come back to a sentinel the loop
  has passed over, if a stale write took its vote away meanwhile, which adds behaviours.
- **The cycle of a candidate** formed by a deposit is the operator's. The code takes the cycle of the
  journal entry (`entry.cycle ?? 'C-?'`, `vault.ts:379`), which may lag behind or be `C-?`. No
  property of `SealedReserve` but `QuarantineKept` depends on which cycle a candidate is named by.
- **Chains with collisions.** `CollisionRepair` starts from any chain in `Histories`, each number at
  most its place in time, with the pointer on any of its seals: the collisions and the misplaced head
  other lanes leave behind. Promotions that come late are in that start only and are no actions of
  the module; a seal in flight may carry any cycle, the last one or another. Two seals of one number have
  different hashes. A seal whose name was given again has another hash, and the receipt's snapshot
  check (`AsAudited`) refuses it. `ReadOthers` is one step for several awaited reads of indexes;
  only those of colliding blocks matter to the plan. Growth in
  `SealIntegrity` is gated at formation only; the code also withholds passes, which only removes
  behaviours.
- **A lineage** is activated in one step: version keys are written once and read through one
  pointer, compare-and-set.
- **The findings of a watchdog run** other than the collision finding are left out: none moves the
  gate. Another critical finding writes the alert too, and the same run deletes it.
- **Reads of the tiers.** `kvGet` asks its up to three tiers in one step of `VaultTiers`, and falls back
  to the bridge after every failure, while the code does so after a miss, a capacity or a transport
  error only. A read of the bridge slot does not fail there; where it does, `kvSetVaultViaBridgeOnly`
  stores null for the other row (`store.ts:360-362`). The cached health of the backup is one for
  all; the code keeps one per instance.
- **One seal** stands for all in `HistoricalVotes`: what a handler does to one seal depends on
  another only through the head of the chain, which is a free choice of `Repair`. Each handler
  starts once per behaviour. Writes to the store and to the substrate fail at will; reads do not.
- **Legacy stores.** New code never stores a quarantined seal with votes missing, but older
  deployments did; the sweeps exist for them. `HInit` therefore starts empty, or with one such
  seal and any votes that do not decide it.

## 3. What is checked

Property names are those of the modules, where each is stated in words.

| Run | Specification | What it shows |
|---|---|---|
| `council` | `FairSpec`, 3 sentinels, 2 passes, parcels of 2 units, 5 units, 2 cycles | The chain stays hash-linked with consecutive numbers (`ChainLinked`), a candidate never goes stale (`CandidateOnTip`), status, votes and index agree (`StatusIsDecided`), reserve and provenance are kept (`ReserveConserved`, `ReserveHasSources`), attested seals never change (`AttestedIsFinal`), votes count as cast (`CastVotesCount`), candidates are decided and queued reserve is formed (`CandidateDecided`, `QueuedReserveFormed`), and all of it implements `SealChain`. |
| `historical` | `HSpec`, 2 sentinels, 1 pass, 4 units, failing substrate, fresh and legacy store | The indexes are complete and free of duplicates in every lane (`IndexesComplete`), nothing undecided is attested (`AttestedWasDecided`), every unit is in progress or went into a parcel, bootstrap included, and every parcel is in flight, stored, or lost its name to another (`NoReserveLost`), the crons keep a ZEUS veto (`VetoLiftedByZeusOnly`). |
| `anchoring` | `HFairSpec`, votes that pass | Each attested seal gets its substrate pointer, unless votes are missing and the retry queue expired with it (`PointerEventuallyWritten`). |
| `steps` | `SSpec`, 2 sentinels, deposits of less and of more than a parcel, a cron that may fire twice at once, one kill or one overlap | A vote confirmed to a lone sentinel is in every later copy of the candidate and in the seal (`ConfirmedVoteCounts`). A killed handler leaves a chain that the next run completes (`KillsLeaveChainLinked`), costs at most its own deposit or puts one threshold both in a parcel and in the balance (`KillCostBounded`), and loses no provenance (`KillsKeepSources`). Every parcel is decided, overlaps and kills included (`ParcelDecided`). Undisturbed steps amount to `SealedReserve` (`ImplementsReserve`). |
| `repair` | `RSpec`, 3 scripts, 2 cycles, up to 4 seals attested, 2 receipts, 1 kill | No script overwrites another's quarantine (`RuledOutStaysOut`), the pointer names a quarantined seal only where a second seal took the name (`PointerNotQuarantined`), a settled block keeps its seal (`SettledBlockKeepsSeal`), a commit leaves nothing unresolved (`RepairResolves`), and repairs are on record (`RepairsOnRecord`). |
| `gate` | `WSpec`, 1 script, 2 cycles, up to 3 seals, 1 lineage, 1 fault, 1 kill | A check that nothing has overtaken closes the gate exactly when the chain is unsafe (`GateMeansChain`); the alert agrees with the report (`AlertFollowsReport`); the gate ends up where the chain is (`GateFollowsChain`). |
| `tiers` | `VSpec`, 2 deposits, 1 outage, 1 lost mirror | No tier counts what nobody deposited (`NothingInvented`); deposits alone and without an outage are counted (`LoneDepositsCounted`); undisturbed mirrors catch up (`MirrorsCatchUp`). |
| `votes` | `HVSpec`, 2 sentinels who must both pass, 2 submissions, 1 operator, 1 cron run, failing writes, kills | No dedupe key is consumed without a sidecar that keeps its vote (`ConsumedKeyHasVote`). First merges may overwrite each other and last merges; a vote its sentinel was told of is on the seal, or a last merge is to come (`ConfirmedVotesShow`). Handlers that hold no copies together take back no vote, promotion or pointer (`NothingTakenBack`), and the index agrees with the status (`AttestedIffIndexed`). |
| `quarantine_kept`, `attested_has_quorum`, `rejected_is_final`, `sequence_unique` | as named in the cfg | One sentence each of `docs/protocols/vault-v2-sealed-reserve.md` the code departs from; see section 5. |

Bounds. `MaxReserve` stops deposits, `MaxCycle` cycles, `MaxFormed` bootstraps. Five units of
parcels of two give a formation by deposit, one from queued reserve behind a candidate, and an
overflow that stays; two cycles give names that recur and names that differ. Two of three passes
let a quorum fail by a count, by a reject and by the veto. In `HistoricalReserve` one pass of two
sentinels lets a quorum be met with a vote still missing, the case in which the lanes differ. One
signature and unit deposits are enough for the properties checked, because none of them tells
two deposits apart; amounts, signatures and councils of any size are covered by the proofs.
In `council` the substrate always answers: no property of that run reads the pointer or the retry
queue, and `historical` varies the outcome. In `steps` two handlers overlap once: every pair of
kinds occurs, two cron runs included, but for two deposits, which `tiers` pairs; and each window
between two accesses is entered. In `repair`
three scripts let two act on one collision while a third settles another; a fourth seal joins
three inherited ones, under a free name or one that is taken, quarantined or not, so that a
collision grows beside the repair, goes away, or changes hands, and a script plans from a list that
is too short. Both histories hold one collision: in one the block of the other seal can collide
next, in the other the colliding names can be given again. `gate` starts also from numbers 1, 2, 1 in order of time, where the colliding
seal is newer than its successor, so that the newest canonical seal is not the one of the highest
number. In `tiers` two
deposits and one outage of either store cover a lost update, a stale fallback and a mirror out of
order. In `votes` two submissions, of one sentinel or of two, share one dedupe key name, so keys
collide or do not; they differ by name only, so the run takes them as symmetric. A quorum of two
passes makes a seal wait for the second, and the seal starts with no vote, with one that is not
enough, or with a flag, which leaves it fully voted and without a quorum. A second operator or cron
run, or a third submission, is covered by the proofs, which fix no number. Deadlock is not an error
in `steps`, `repair`, `tiers` and `votes`, where scripts, deposits and requests end, nor in the runs
of the reserve: with no candidate and all bounds reached a store may be left as it is.

Fairness. `CronFairness` is weak fairness of the attestation cron: the platform runs it every 30
minutes whatever the state, and its guard against double triggers lasts four. `HFairness` is
strong fairness of a sweep, and of a reattestation run with nothing in backoff, that the
substrate answers: both crons are scheduled for ever, backoff is at most two hours, and a
substrate that never answers again would leave seals unanchored. Nothing is assumed of
sentinels, depositors, operators or the watchdog there. `SFairness` lets a handler in flight go on
until it ends or is killed, and the cron trigger recur; the trigger's fairness is strong because
something may be in flight whenever it is due. `WSpec` assumes that a watchdog run starts again and
again (every 10 minutes) and, once started, goes on; its faults are bounded. `VFairness` carries
out a started request and what it started; nothing says that an outage ends.

A boundary worth knowing: with a retry queue of two entries instead of three,
`PointerEventuallyWritten` fails. A seal that attested on an early quorum, with a vote missing, is
passed over by `reattest-seals` (`needsSubstratePointerRepair` asks for all votes), so the queue
is its only way to a pointer, and the queue drops its oldest entry at 50. The queue also expires
seven days after its last write, queueing a name it already has writes nothing, and neither does a
retry the substrate does not answer: an outage of a week loses every name in it. `QueueExpires` may
happen at any time, and the property excepts exactly the seals with votes missing that were queued
then; a seal with all votes is found by `reattest-seals` without the queue.

## 4. What is proved

`SealedReserve_proofs` proves, from the assumptions `CouncilAssumption`, `ReserveAssumption` and
`NoneAssumption` only, for every council, threshold, set of amounts and signatures, and every
value of the bounds:

| Theorem | Property |
|---|---|
| `TypeCorrect` | `TypeOK` |
| `ChainStaysLinked`, `CandidateStaysOnTip`, `StatusStaysDecided` | `ChainLinked`, `CandidateOnTip`, `StatusIsDecided` |
| `ReserveStaysConserved`, `ReserveKeepsSources` | `ReserveConserved`, `ReserveHasSources` |
| `AttestedStaysFinal`, `CastVotesAlwaysCount` | `AttestedIsFinal`, `CastVotesCount` |
| `ReserveImplementsChain` | `ImplementsChain`, the refinement of `SealChain` |
| `QuorumRulesAgree` | the two quorum rules on complete votes |

The inductive invariant is

    IInv == TypeOK /\ ChainLinked /\ CandidateOnTip /\ StatusIsDecided /\ HashesFresh

None of the middle three is inductive alone. A seal appended to the chain has the right number
and predecessor only because its candidate was on the tip; the candidate stays on the tip only
because nothing else moves the head, and the sweep moves it for quarantined seals with votes
missing, of which `StatusIsDecided` says there are none; and writing a seal overwrites no
attested one (`NextNameIsFree`) because an attested seal is in the chain at the place of its
number, and the new number is one past the end. `HashesFresh` says stored hashes come from
earlier formations, which gives the refinement its distinct hashes and `CastVotesCount` its
seal. The proofs go action by action: `FormNextEffect`, `Finalized`, `DepositEffect` and
`AttestationEffect` state once what an operation does to the store, and each property cites them.
The refinement maps `balance` to the pool, `candidate` to the parcel in flight and the attested
index to the log; a cron run is a `Mint` or a `Hold`, a vote is a stutter.

`HistoricalReserve_proofs` proves, from the same three assumptions, for the store with every
operator and cron lane on it:

| Theorem | Property |
|---|---|
| `HistoricalTypeCorrect` | `HTypeOK` |
| `IndexesStayComplete` | `IndexesComplete` |
| `AttestedStaysDecided` | `AttestedWasDecided` |
| `ReserveNeverLost` | `NoReserveLost` |
| `VetoLiftsByZeusOnly` | `VetoLiftedByZeusOnly` |

These lanes break `ChainLinked` and `StatusIsDecided`, so the invariant is another one:

    HInv == LedgerTyped /\ HashesOrdered /\ UnitsAccounted /\ StoreKept(Store)

and `ParcelsAccounted`, the second half of `NoReserveLost`, is inductive beside it. Each action comes
with `ParcelsMove`: no name of a stored seal disappears, the candidate stays or becomes a seal, and
a new parcel is the candidate or a seal. What a name held before is recorded by `Replacing`, so
`ParcelsStayAccounted` follows once for all actions. The theorem does not say that no parcel is
lost. It says that a name given twice is the only way: `QuarantineKept` shows that this happens.

`StoreKept` is a predicate on a store record, not on the state: well-formed seals that are
attested only on a quorum or on all votes, indexes complete, free of duplicates and holding the
head. Each lane is a composition of operations on such records (`GivenUp`, `Swept`, `Drained`,
`Repaired`, `Stored`), so each operation gets one lemma that it keeps `StoreKept` and takes no seal out of
`rejected` (`Spared`), and an action chains them. `HashesOrdered` puts a candidate's hash above
every stored one, so a parcel that overwrites a name is told apart from a vote that changes a
verdict: without it `VetoLiftedByZeusOnly` would blame the attestation cron for storing a new
parcel under a rejected one's name. The recursive functions `Kept` and `EnqueuedAll` are reasoned
about by induction on a set of numbers (`SetInduction`, from the well-foundedness of the order).

`CollisionRepair_proofs` proves, from `BoundsAssumption` and `HistoriesAssumption`, for every
inherited chain, set of scripts and bound:

| Theorem | Property |
|---|---|
| `RepairTypeCorrect` | `RTypeOK` |
| `RuledOutForGood`, `PointerStaysUsable` | `RuledOutStaysOut`, `PointerNotQuarantined` |
| `SettledBlocksStaySettled` | `SettledBlockKeepsSeal` |
| `CommitsResolve` | `RepairResolves` |
| `RepairsStayOnRecord` | `RepairsOnRecord` |

The invariant is

    RInv == TInv /\ ReceiptsMatch /\ KeysFollowRepairs /\ PlansFollowRepairs /\ PointerNotQuarantined

where `TInv` types the state and what each script has read, `KeysFollowRepairs` says that the
index and the quarantine list hold what committed receipts put there and nothing else, and
`PlansFollowRepairs` that a script's copies were once in the keys. A name given twice is where each of
them has an exception: a quarantined name may then be the pointer's (`QuarantinedStored` says it was
stored before, so the new seal makes it one of `reused`), and a chosen seal may be gone. The point of interest is
`CommitsResolve`. The compare-and-set covers three keys, the index it was planned from is wider,
so the index a plan was made from may differ from the one at commit. Then both entries of a block
would be choices no committed receipt rules out; but of two receipts for a block one rules out
the other's seal, or both do. `NewestExists`, `NewestIsUsable` and `NewestOfCollisions` say what
the pointer of a plan is. The journal has an invariant of its own, `JInv`, which needs no
property of the keys.

`SealIntegrity_proofs` proves, adding `FaultsAssumption`:

| Theorem | Property |
|---|---|
| `WatchdogTypeCorrect` | `WTypeOK` |
| `GateSpeaksForChain` | `GateMeansChain` |
| `AlertSpeaksForReport` | `AlertFollowsReport` |

The invariant `CheckInv` follows one watchdog run: its finding is the verdict on the seals it listed,
the lineage and the pointer it read (`FindingIsVerdict`), and a report with nothing moved since is
the verdict on the chain as it is (`ReportIsVerdict`), because at the write all three still were
what the run had read. No history of the chain is needed, which matters since a name can be given
again and the chain does not only grow.

`VaultTiers_proofs` proves, from `TiersAssumption` (finitely many deposits, natural bounds):

| Theorem | Property |
|---|---|
| `TiersTypeCorrect` | `VTypeOK` |
| `NothingEverInvented` | `NothingInvented` |
| `LoneDepositsAlwaysCounted` | `LoneDepositsCounted` |

Two invariants carry them. `TInv` bounds every value anywhere, in a tier, in a mirror, in a copy
and in a deposit's hands, by the number of deposits that have read that row (`Bound`): a deposit
adds one to what it read, and all else only moves values, so it does not matter in which order
mirrors and copies land. `LInv` is stronger and conditional: while no deposit met another one or
an outage, the primary counts exactly what was written to it and bounds everything beside it. That
second half is what makes the first inductive, because a primary without the row (zero in the
model; a written row counts at least one) sends the read to the other tiers (`kvGet`): while the
primary has none, nothing beside it has one either, so the fallback finds none.

`VaultSteps_proofs` and `VaultRefinement_proofs` prove, from the assumptions of `SealedReserve`
and `StepsAssumption` (the kinds of handlers are disjoint, there are finitely many, the voters are
sentinels, the bounds are natural, the substrate may answer, `None` is no seal), for any handlers
and any bounds on how many overlap, meet and die:

| Theorem | Property |
|---|---|
| `StepsTypeCorrect` | `STypeOK` |
| `ConfirmedVotesStay` | `ConfirmedVoteCounts` |
| `ChainSurvivesKills` | `KillsLeaveChainLinked` |
| `KillsCostBounded`, `SourcesSurviveKills` | `KillCostBounded`, `KillsKeepSources` |
| `StepsImplementReserve` | `ImplementsReserve`, the refinement of `SealedReserve` |

Four invariants carry them, each for a different amount of overlap.

- `FlightTyped` holds always: each handler is at a place of its own kind, with copies of the
  right types.
- `AcksHeld` holds always: the key and every copy a handler will still write back have the
  confirmed votes of the parcel, seals made from one too, and no handler is past the check that
  finds no candidate. It is true when a vote is confirmed because nothing else is in flight then,
  and stays true because later copies are taken from the key.
- `Undisturbed` holds while no handler met another, kills allowed. `LoneSound` says how far the one
  handler has got and how its copies relate to the keys: by how much the v1 balance is ahead of the
  reserve at each place (`Ahead`), and which of the four keys of a seal are written. `StoreSound`
  is what a kill leaves, and must hold between any two accesses: the chain is a linked base
  (`ExtendsBase`), followed at most by the name of the parcel still in `candidate`. The base is
  what makes a kill repairable. The name on the end of the chain is that of the candidate, whose
  votes are complete by then, so that the next run reaches the same decision and writes the same
  seal again.
- `Followed` holds while nothing met and nothing was killed. It relates the keys to `before`, the
  store as the handler in flight found it: `Tracks` gives, place by place, the balance, hashes,
  candidate and store that the accesses so far have made of it, so that at the last access they are
  what the whole-handler action makes. `SealFollows` shows that the votes the cron casts one by one
  end at the votes `SealedReserve` fills in at once. `Numbered` says that a window which has closed
  is that of a parcel already formed: without it a new parcel might start with its window closed,
  which no action of `SealedReserve` does.

The refinement maps each access but the last of a handler to a stutter, the last write of a deposit
to `Deposit`, of a vote to `SubmitAttestation`, the end of a cron run to `VaultAttestation(TRUE)`.
With `ReserveImplementsChain` it connects single store accesses to the append-only chain, as far as
handlers do not meet.

`HistoricalVotes_proofs` proves, from `CouncilAssumption` and `WritersAssumption` (the kinds of
handlers are disjoint, verdicts and outcomes are such), for any handlers, council and seal:

| Theorem | Property |
|---|---|
| `VotesTypeCorrect` | `HVTypeOK` |
| `KeysHaveVotes` | `ConsumedKeyHasVote` |
| `ConfirmedVotesStayShown` | `ConfirmedVotesShow` |
| `IndexFollowsStatus` | `AttestedIffIndexed` |
| `WritersTakeNothingBack` | `NothingTakenBack` |

The invariant is

    HVInv == HVTypeOK /\ Aside /\ Healed /\ Serial

`Aside` holds whatever overlaps: a submission past its first write has its vote in a sidecar, and a
merge has read that sidecar or is still to read it. `Healed` is what makes `ConfirmedVotesShow`
inductive. A first merge may take a confirmed vote off the seal, and then must be followed by a
last merge: so either every confirmed vote is on the seal and on each copy a lane will write, or
such a submission is on its way, and while its last merge runs alone it has the confirmed votes
among the sidecars it has read or will read (they are there by `Aside`). The antecedent says
exactly when that argument breaks: last merges that meet, a lane beside one, or a submission that
merged and ends without a last merge. `Serial` is conditional on no copies having been held
together: the one holder's copy is the seal as it is, or what the holder made of it, so writing it
back takes nothing away; with `LaneCopy` it follows an append write by write, and the index with
it. `WritersTakeNothingBack` is then a property of each step from `Serial`.

Only model-checked: liveness (`CandidateDecided`, `QueuedReserveFormed`,
`PointerEventuallyWritten`, `ParcelDecided`, `GateFollowsChain`, `MirrorsCatchUp`), which is outside
the prover. The type invariants `HTypeOK`, `WTypeOK` and `HVTypeOK` are proved and not among the
properties of a run. Every invariant, action property and refinement of a passing run is a theorem. What
a recursive function computes for every input is not proved beyond what the lemmas on `Kept` and
`EnqueuedAll` say.

## 5. Where the code departs from its documents

The first four, about `docs/protocols/vault-v2-sealed-reserve.md`, are runs TLC finds violated. The
others can be read off an action of the models and have no run.

- Section 6, quarantined seals wait for review: the next candidate reuses the number and, in the
  same cycle, the name, and overwrites the seal (`quarantine_kept`).
- Section 6, attested if and only if the rule holds: `reattest-seals` attests a fully voted
  quarantined seal because the substrate write succeeded (`attested_has_quorum`).
- Section 5, a ZEUS reject cannot be overridden: the back-attestation endpoint replaces it
  (`rejected_is_final`).
- Section 11.3, the chain advances sequentially: a late promotion, in the trace of a seal ZEUS
  rejected, gives two seals of one number (`sequence_unique`). The watchdog's collision check exists for its results.
- Section 6 of the same document, a silent sentinel is a flag: the cron casts a pass for every
  sentinel without a vote, so `injectTimeouts` finds none missing (`CronVotes` of `SealedReserve`).
- `docs/pr-bundles/C-293-phase7-historical-block-attestation.md`, the dedupe key is consumed, then
  the vote is attached: it is attached first, and stays when the key is refused (`WriteMerge`,
  `ClaimKey`). The code's order is the safer one against kills: `ConsumedKeyHasVote` depends on it.
- `historical-attestation.ts:164`, historical attestation does not rewrite live history: a merge
  writes back the status it read, over a promotion made meanwhile (`WriteMerge`).

## 6. What overlaps and failures lose

None of this contradicts a sentence of the documents; the models show it, in the sense that the
properties of section 3 hold only with the antecedents stated there, which exclude exactly these
cases.

- **Votes.** `recordAttestation` reads the candidate, adds a vote and writes all of it back. Two
  votes at once lose one that was confirmed. It compares names only: a slow vote brings a
  finalized candidate back, or lands on a later parcel of the same name (`ConfirmedVoteCounts`
  speaks of a sentinel that votes alone).
- **Names.** `finalizeSeal` writes under `seal-<cycle>-<number>` without looking. In a cycle the parcel of
  a quarantined or rejected seal gives its name to the next one, and its units are in no candidate
  and no seal from then on (`overwritten` in `NoReserveLost`). With the operator lanes even an attested
  seal can lose its name: one promoted late, while the candidate of the same name is in flight, is
  overwritten when that candidate is decided. After a repair has moved the pointer back, the next
  candidate may take a name the repair quarantined, and attested it is a latest seal that is
  quarantined (`reused` in `PointerNotQuarantined`); a chosen canonical seal may be overwritten too.
- **Seals.** A kill inside `appendSealToChain` can leave a seal in the attested index whose body
  was not written as attested; after a replaced vote the next run stores the same name rejected.
  Two cron runs of one trigger can attest with votes missing, and `clearCandidate` of the slower
  one deletes the candidate the faster one formed.
- **Substrate pointers.** A retry queue that expires, or drops its oldest name, leaves a seal attested
  with votes missing without a pointer for good.
- **Reserve.** A deposit beside a formation writes back a balance it read before it: a parcel is
  counted twice or a deposit is lost. A kill between writing a candidate and the balance counts one
  threshold twice; that is the most one kill costs (`KillCostBounded`).
- **Historical votes.** Two last merges that cross, or one that crosses a back-attestation, may
  take a confirmed vote off the seal until some later submission merges again; the sidecar keeps
  it. A submission that merged and was then refused or killed leaves its verdict in the sidecar,
  where it replaces one confirmed before from the same sentinel. Sidecars also win over votes cast
  live: a merge puts an old historical verdict over a newer vote on the seal (`{ ...attestations,
  ...sidecars }`).
- **Promotions.** A merge, a vote that decides nothing, and `retrySubstratePointer` write a whole
  seal read awaits earlier: a promotion in between is undone in the body while the index keeps the
  name, and a pointer may go with it.
- **Repair.** A seal attested between a script's listing and its read of the pointer is lost from
  the pointer at commit, and the next number collides. A plan from an old list may restore an
  index entry that was ruled out meanwhile, unless receipts agree, hence the antecedent of
  `RepairResolves`. Two unresolved blocks refuse each other's receipts; opposite receipts
  quarantine every seal of a block. Two scripts in the journal at once lose an entry. Since the
  newest canonical seal is chosen by time, the number after it may be taken (1, 2, 1).
- **Gate.** A skipped or unreadable check opens it and deletes the alert, until the next run; in a
  suspended store the report or the delete may fail and the old one stand. The
  flat index a repair writes is not the lineage the watchdog reads: a repair alone never opens the
  gate, the activation of a lineage does.
- **Tiers.** `kvGet` prefers a stale backup to the bridge, so successive deposits in an outage
  overwrite one another and none reaches the primary; a stale read rolls the balance back; the
  `false` of `kvSet` is not looked at.

## 7. Not modelled, and why

- **Expiry** (other than that of the retry queue and the watchdog's report) of vote sidecars (a year) and dedupe keys (thirty days), and failed reads of either.
- **MIC quorum, sustain and replay pressure**: a record per cycle under a read-modify-write, and
  two scores computed from inputs outside the repository.
- **GI chain, circuit breaker, tripwires**: pure decisions over readings; their only effect on the
  reserve is a route that refuses, which every action may do by not being taken.
- **EPICON promotion and shards**: writers of content, each to its own keys.
- **Legacy seal lane, v1 migration**: run once, on stores that no longer exist; `InitLegacy` keeps
  the one trace of them the sweeps still act on.
- **Track R** packets, receipts and the one-shot guard: an offline dry-run pipeline of scripts; its
  activation, which the gate reads, is in `SealIntegrity`.
- **Rollback of a repair**: no code calls it. **Pointer repair on its own**, and dry runs: the same
  rule a commit applies, with the operator present.
- **Agents, ingestion, journals, UI**: content without state that these components read, and by
  far the larger part of the repository's lines.

## 8. Plan

1. `reattest-seals` and `vault-attestation`, its certain companion on every half hour, over several
   seals and the retry queue; `HistoricalVotes` has one seal of it.
2. Failing reads in the vault, which look like absent values.
3. `SentinelQuorum`: the MIC quorum record under concurrent registration.
4. Proofs about the modules of 1 to 3; they declare no recursive operator.

## 9. Running

    tlc -workers 2 -config council.cfg MCSealedReserve
    tlapm SealedReserve_proofs.tla

`historical` and `anchoring` run on `MCHistoricalReserve`, `steps` on `MCVaultSteps`, `repair` on
`MCCollisionRepair`, `gate` on `MCSealIntegrity`, `tiers` on `MCVaultTiers`, `votes` on
`MCHistoricalVotes`; `PROJECT.json` names the module of every run. The longest runs, `repair` and `anchoring`,
take two to three minutes each; the proof modules of section 4
take under half an hour together. Operators named `<Definition>_<Fault>` are faulty variants of
the definition that follows them; `PROJECT.json` pairs each property with one that breaks it.
