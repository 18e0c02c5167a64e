# Formal models of beignet's Lightning node

beignet (`src/`) is a Bitcoin and Lightning wallet in TypeScript. This directory
holds TLA+ models of the parts where several actors, crashes and late messages
meet, the TLC configurations that check them on small instances, and proofs that
TLAPS checks. `PROJECT.json` lists components, runs, mutants, the map from
definitions to source lines, findings, hazards and theorems.

Source paths below are relative to `src/src/lightning/`.

## 1. The system

| Part | State | Operations | What makes it hard |
|---|---|---|---|
| commitment exchange (`channel/channel.ts`, `commitment-builder.ts`, `channel-manager.ts`) | one record per channel: balances, HTLC entries with their flags, staged fee, commitment numbers, queued updates, the last signature sent and received | add, fulfil, fail, fee update, commitment_signed, revoke_and_ack, disconnect, restore, reestablish | both sides build the same transaction from records that are out of step; lost messages; a crash between two saves |
| restore from old files (`channel/`) | the same record, of an earlier day | channel_reestablish, data loss detection | the peer holds the secret of what is on disk |
| guardian (`recovery/guardian.ts`) | lease, log, certificates signed | PUT_STATE, SYNC_RECORD, ACQUIRE_EPOCH, SYNC_EPOCH | compare-and-swap against a writer that still appends |
| writer and restore driver (`recovery/guardian-replication.ts`, `restore-driver.ts`) | journal, lease, watermark; pending acquisition | replicate, count receipts; read, repair, acquire, install | late grants, partial grants, resumed attempts, two devices |
| durability barrier, held queues, startup gate (`recovery/durability-barrier.ts`, `startup-gate.ts`, `channel/channel-manager.ts`) | waiters, watermark, pump, queues of held batches, fenced flags | hold, release, time out, purge, confirm, recheck, freeze | a timeout races a late receipt; a queue is replaced under its loop |
| guardian rotation (`recovery/guardian-rotation.ts`) | intent, backfill mark, owed retirement | register, backfill, switch, retire | commits go on, crashes between the stages |
| journal, capsule (`recovery/`) | frames, snapshots | append, compact | a refused write |
| forwarding (`node/lightning-node.ts`) | linkages in memory and on disk, held, deferred and parked work, preimages | dispatch, settle upstream, redispatch, per-block scans | one inbound and one outgoing channel that drop, quiesce, restart and close independently |
| opening, splicing, quiescence (`channel/`, `interactive-tx/`, `node/composite-splice-engine.ts`) | negotiation state, pending fundings | stfu, tx_* messages, tx_signatures, splice_locked | simultaneous initiators, restarts in the middle |
| chain (`chain/`) | monitored outputs, close in progress | confirm, reorganise, sweep, claim | reorganisations replace a commitment |
| ledgers, held forwards, swaps, JIT (`storage/durable-ledger.ts`, `async-payments/`, `swaps/`, `liquidity/`) | rows moved by compare-and-swap | hold, release, fail; pay, claim, refund | a crash between the row and the action |
| transport, gossip, onion, invoices, storage, wallet, CLI | | | encoding, cryptography, I/O |

The channel manager drives the channels on messages from the transport and hands
irrevocable HTLCs to the node, which forwards them and settles them upstream. Each save of a channel may also append a journal
frame, which the writer replicates to the guardians; the barrier holds the wire
messages of that save until enough guardians have it. A restore takes the lease
away from whoever held it and installs the certified journal.

## 2. The modules

| Module | Models |
|---|---|
| `CommitmentBuilder` | the views of a commitment that each side builds from its own record |
| `Channel` | the handlers of one channel, as functions from record to record |
| `ChannelPair` | two managers, a connection, disks, crashes, reconnections |
| `ChannelRestore` | `ChannelPair` and an operator who starts a node on an old copy |
| `ChannelLemmas`, `ChannelPairProofs` | what each handler does to the commitment numbers, and the theorems about `ChannelPair` and `ChannelRestore` |
| `Guardian` | the verbs of one guardian, as functions from row to row |
| `RestoreDriver` | what the driver concludes from the heads it has read |
| `Takeover` | devices and guardians together: replication, restores, late requests |
| `MCTakeover` | symmetry sets for TLC |
| `TakeoverProofs` | the theorem about `Takeover` |
| `WireRelease` | abstract: what the barrier promises the peers, with none of its machinery |
| `DurabilityBarrier` | barrier, pump, held queues, connections, startup gate and guardians as the writer sees them; implements `WireRelease` |
| `BarrierLemmas`, `BarrierProofs` | the inductive invariant of `DurabilityBarrier`, a lemma per action, and the theorems |
| `GuardianRotation` | `DurabilityBarrier` and a move to the next guardian set |
| `RotationProofs` | the theorems about `GuardianRotation` |
| `Forwarding` | a node that forwards the parts of one payment |
| `ForwardingLemmas`, `ForwardingProofs` | the inductive invariant of `Forwarding`, a lemma per handler, and the theorems |

**Channel.** A record keeps the names of the code (`needsCommitment`,
`remoteRevocationNumber`, `pendingLocalUpdates`, ...). An HTLC entry keeps the
flags that say which commitment already reflects it; a flag that the program
leaves undefined reads as done, and is TRUE. A transaction is abstracted to a
view (number, point, fee rate, what each side is paid, HTLC outputs), and a
signature verifies exactly when the two views are equal. Balances mean what is
above the reserve. `ch` is the record in memory and `disk` the one last saved; a
handler saves before it sends, as `processActions` does. The manager signs in a
second batch with its own save, and `signing` marks a node between the two. A
refused save has the outcome of a crash before the save.

**Recovery.** A record's hash covers its predecessors, so a head is a log. A
guardian state is lease and log, and is what receipts and certificates are signed
over. `acquires` holds every ACQUIRE_EPOCH ever sent: a client stops waiting after
`timeoutMs` (`guardian-client.ts:472`), and the guardian still handles what it
received, so any of them may be handled later (`AnswersUnheard`). The pending
acquisition is the only thing a restore has on disk. `maxCasAttempts` is not
counted: any round may be the last (`Stops`). A lost receipt is a lower watermark
at `EndsPass`. SYNC requests outside a round may arrive with any gathered
certificates, which includes more than the code sends; the repairs of one round
are applied in one step.

**Barrier and rotation.** A batch of wire messages is its journal frame and
whether it is gated. A queue has one release loop: parked on the barrier, or
resumed with "durable" or "refused". `pump` is the replication pass in flight with
the tip it started from and the coalesced kick. Guardians are reduced to the number
of frames a quorum of each set holds (`stored`), the sets another device has taken
(`taken`) and the sets that hold a retirement (`retired`). Purging a queue leaves
its waiter behind (`orphans`). One channel per peer stands for the peer's
connection; "closing" is a connection whose disconnection waits in `setImmediate`.
`GuardianRotation` adds the persisted intent, the mark of the incoming set and the
owed retirement, and lets a restart forget everything else between any two stages.
A retirement is not one step: an attempt reads the debt (`RetirementBegins`,
`RetriesRetirement`), members take the request while it is in flight
(`MemberRetires`), and when the answers are in the debt on disk is deleted
(`RetirementAccepted`) or left (`RetirementUnanswered`). `retiring` holds the attempt
of the rotation and that of the retry timer, which nothing keeps apart.

**Forwarding.** Parts share one payment hash, arrive on channels of their own and
leave on one shared channel. Everything is one record `node`; a handler of the code
is a function of it (`SettledUpstream`, `OwedPass`, `BlockWork`, ...), and an
action applies it. The commitment exchange is reduced to the points where an add or
a removal becomes irrevocable, which `ChannelPair` models in full
(ForwardsOnlyIrrevocable is the hand-over). `link` is `forwardedHtlcs` in memory and
`row` the same on disk; `held` are fails waiting for an irrevocable removal,
`deferred` fails waiting in the manager for quiescence to end, `parked` dispatches
waiting for it in the node, `turns` callbacks not run yet. A restart inside a
handler is an action of its own for each pair of writes it can fall between
(`KilledBeforeDispatch`, `KilledAfterRefusal`, `KilledAfterPreimage`,
`KilledWhileClaiming`). Relay policy is the free choice of which parts an order
forwards.

## 3. What the runs check

| Run | Properties | Shows |
|---|---|---|
| `channel_batches` | NeverFailsTheChannel, ForceCloseRebuildsWhatThePeerSigned, BooksAgreeWhenQuiet, EverySignatureCoversAnUpdate | three HTLCs against a limit of two, two drops |
| `channel_reconnect` | the above except the last, and TypeOK, ForwardsOnlyIrrevocable, SavedStateIsNeverRevoked, OneUnrevokedCommitment, OwedSignatureIsBeingSent, ComesToRest | HTLCs both ways and a fee update, two drops, with fairness |
| `channel_restore` | StaleCommitmentIsNeverBroadcast | one start on an old copy |
| `takeover_records` | TypeOK, DurableRecordSurvives, GuardiansKeepDurableRecords | two records, so appends land between the grants of one takeover, or one record and an attempt that is given up for another |
| `takeover_race` | OneWriterPerEpoch | two devices restore at once |
| `barrier` | TypeOK, ReleasedIsHeld, WaitersAreAboveTheMark, FencedIsSilent, ImplementsWireRelease, HeldBatchesLeave, CommitsAreOffered | two channels behind one barrier, one restart, one takeover by another device, with fairness |
| `rotation` | RotationTypeOK, ReleasedIsHeld, NeverFencedByItself, LeftSetIsRetiredOrOwed, ImplementsWireRelease | one rotation under traffic, one restart, one takeover of either set |
| `forwarding` | TypeOK, NeverRefundsWhatItPaid, OneLegPerPart, PaidIsRemembered, NextBlockCollects, NextBlockRefunds | two parts, two faults (drops, restarts, quiescence), closes and deadlines at any point |

Four further runs are expected to find a violation; see section 5.

**Bounds.** Two peers and two drops let a reconnection be interrupted by another
one. Three adds against `MaxAcceptedHtlcs` 2 fill the limit and go past it. One
fee update meets HTLCs of both sides. Three guardians with two required is the
smallest set where quorums differ; two records let an append land between two
grants, and two keys let an attempt be abandoned. Amounts and fee rates are single
values because the code only adds and compares them. The passing channel runs use
loose balances (6 each, HTLCs of 1): with tight ones the second finding fails the
channel, so NeverFailsTheChannel is shown only where neither side is near its
reserve. `channel_batches` has no fee updates: one that is rolled back leads to the
first finding, and EverySignatureCoversAnUpdate would fail.
`ChannelRestore` has no fee updates or other drops. `MaxWork`
bounds the records of a journal and the keys of a device together: two records with
one attempt, or one record with two. The barrier needs two channels, because one pump and
one watermark serve both, and two frames, so that one is committed during the pass
of the other; the rotation needs a second batch in the queue instead. Two parts let
one preimage settle several inbound HTLCs, and a third outgoing id lets an id be
refused and reused; two faults let a restart interrupt what a drop or a quiescence
session left behind.

**Refinement.** ImplementsWireRelease is `WireRelease!Spec` under the mapping
`durable <- stored[generation]`, `pending <- queue`,
`broken <- (link is not "up")`: batches of a channel leave in order, a gated one
only when a quorum of the configured set holds its frame, and what waits is given
up only together with the connection. The two runs check it without and with
rotations. Between `_discardHeld` and the disconnection it schedules, the code may
still send an ungated batch; `WireRelease` allows that while the connection is
broken.

**Deadlock** is not checked: a channel whose bounded HTLCs are settled is at rest,
and so are a fully replicated writer, a fenced device and a node whose parts are
all settled or on chain. ComesToRest checks that the channel stops only there.

**Fairness** (`FairSpec`): each node's event loop gets to a queued message or to
its second batch; a lost connection is dialled again, which the peer manager does
when `autoReconnect` is on (the default of a node with networking,
`node/config.ts:218`; without it the assumption is the operator's); and the node
settles what it was handed. No fairness is
assumed of sends, fee updates, drops or crashes. The last assumption is about the
payment layer.

`DurabilityBarrier!FairSpec` assumes of the event loop that a pass ends (each of
its requests has a timeout) and is retried after its delay, and that a release
loop's timer fires and its continuation runs. Nothing is assumed of guardians: a
pass may end without a receipt for ever, and HeldBatchesLeave still holds. Nor is
anything assumed of the startup gate, so CommitsAreOffered ends with the process: a
restarted node is quarantined until an ownership answer comes, and offers then.

`Forwarding` has no fairness. "What is owed is settled" is stated as the invariants
NextBlockCollects and NextBlockRefunds instead: in every state in which a debt
exists and the inbound channel is usable, the work of the next block settles it.
That is stronger than an eventual settlement under fair blocks, and it can be
proved.

**Symmetry** is used in the takeover runs, over guardians and over devices that
only restore, and in `forwarding`, over the parts. None of them checks liveness;
GuardiansKeepDurableRecords is an action property.

## 4. What is proved

Each theorem holds for every value of the constants that satisfies the named
assumption of its module. In every case the property is not inductive; the invariant
that is gets one lemma or case per action, and most were checked with TLC first.

`ChannelPairProofs` proves, for any number of HTLCs, amounts, fee updates, drops and
crashes, from the single assumption that the two peers differ:

* `OneUnrevokedCommitmentAlways`: at most one commitment is signed and unrevoked;
* `SavedStateIsNeverRevokedAlways`: the peer never holds the secret of the
  commitment on a node's disk;
* `OwedSignatureIsBeingSentAlways`: an owed and allowed signature is being sent;
* `StaleCommitmentIsNeverBroadcastAlways`, of `ChannelRestore`: a node started on a
  copy of any age, any number of times, does not broadcast a commitment whose secret
  the peer holds once it has heard channel_reestablish.

For the first three `IInv` adds what they rest on: memory and disk
agree on the three commitment numbers (updates kept only in memory change none);
the messages under way to a peer give away only secrets below the sender's
commitment number; the queue kept for retransmission holds no secret; `signing`
is set exactly when a signature is owed and allowed; and a record of a
disconnected node is not NORMAL. The proof has a lemma per handler (what it does to
the numbers, in `ChannelLemmas`), `NodeStep` for the step of one connected node, and
one case per action in `NextIInv`. With restores the acceptor may be ahead of the
opener, so the pair shares `Core` only; `RestoreInv` keeps what is left: the opener
and its copy are never ahead, the copy of a failed channel is that failure, and a
record that no longer awaits channel_reestablish knows where its peer stands
(`Informed`).

`TakeoverProofs` proves `OneWriterPerEpochAlways`: no two devices ever install the
lease of one epoch, for any number of devices, records, epochs, keys and concurrent
restores, and any guardian set in which two quorums intersect (`QuorumsIntersect`:
a finite set, `2 * Required > Cardinality(Guardian)`), with the bounds of
`TakeoverConstants`. The argument is quorum intersection over time. `TInv` has three
parts: a guardian signs an epoch for one key only, and keeps the certificates it
signed (`GuardiansOK`); what a device has read is a subset of what the guardians
signed (`PoolsOK`); and a device that counts a reply, rechecks, has won or holds a
lease has behind it the signatures of those guardians, or of a quorum, for a key of
its own (`DriversOK`). The second part is needed because a device may finish from
certificates it has only read (`FinishesSplitGrant`), the third because the quorum
is counted several steps before the lease is installed, while guardians move on.

`ForwardingProofs` proves all six properties of the `forwarding` run, for any set of
parts (finite or not), any number of outgoing HTLCs and any number of faults, from
`ForwardingConstants` alone. The invariant `FInv` says what the properties leave
unsaid: an outgoing id names one part and memory lists no linkage the disk does not
(`LegsGood`, `RowsGood`); while a forwarded part is not settled its linkage is on
disk, and in memory too unless the leg is dead and the fail is deferred or the
channel closed (`DebtsGood`); a part is failed upstream only when its leg is dead;
and a part waits in at most one of the places that would dispatch it (`WaitsGood`).
"Dead" (the removal is irrevocable, or the timeout is buried) is the notion the
proof turns on: `TerminalIsDead` shows that `isOutgoingLegTerminallyFailed` implies
it, and `Dead` is stable, which a mere FAILED entry is not. Because a handler is a
function of the record, `ForwardingLemmas` proves each of them once (`Good` in,
`Good` out), and the scans of a block are the composition of their lemmas; the same
lemmas prove the two NextBlock properties.

`BarrierProofs` proves the safety properties of the `barrier` run, for any set of
channels and any number of frames, held batches, restarts and takeovers
(`BarrierConstants`): TypeOK, ReleasedIsHeld, WaitersAreAboveTheMark, FencedIsSilent,
and that the barrier implements `WireRelease` step by step. `BInv` says what holds
between the steps: a queue is ordered by frame and starts at or above what
was last sent; a loop resumed with "durable" has a first batch below the watermark,
and the watermark is below what the configured set holds (`WireGood`, `BooksGood`);
a pass of a set that is no longer configured offers nothing above the watermark
(`PumpGood`), which is what makes a late receipt harmless; and a fenced or stopped
writer has no connection (`SilentGood`).

`RotationProofs` proves the properties of the `rotation` run for any number of
rotations, and FencedIsSilent. `RInv` adds to `BInv` that the incoming set holds what
it receipted, that only sets below the configured one are retired, owed or being
retired, and NeverFencedByItself, which is inductive only together with them.
LeftSetIsRetiredOrOwed is false from the second rotation on (section 5), so
`PatientRotationsForgetNoSet` proves it from `WaitsForRetirement`: the writer
switches only when no retirement is owed or in flight. The code does not enforce
this; it is what an operator has to respect. A first rotation respects it by itself.
The invariant `DebtGood` adds that the debt on disk is the one in flight, so that the
attempt that deletes it has paid it. Only the switch can break that
(`StepIsFrameOrSwitch`).

Only model-checked: TypeOK of `ChannelPair` and `Takeover`; BooksAgreeWhenQuiet,
ForceCloseRebuildsWhatThePeerSigned and ForwardsOnlyIrrevocable, which compare the
whole records of both sides; NeverFailsTheChannel and EverySignatureCoversAnUpdate,
which the first two findings refute for other constants; DurableRecordSurvives and
GuardiansKeepDurableRecords, which are false for two restoring devices; and the
liveness properties ComesToRest, HeldBatchesLeave and CommitsAreOffered, which are
out of the prover's reach.

## 5. Findings

Each is a run that ends in a violation. All four are disagreements between the code
and a comment or document of the repository.

1. `channel_empty_signature`: a fee update that is rolled back unsigned leaves
   `needsCommitment` set, and the reconnection signs a commitment without an update.
2. `channel_tight_balance`: an acceptor that spends what it was just paid is
   refused, with a failed channel, because the opener credits it a round later.
3. `takeover_two_quorums`: moving the guard of an acquisition twice, while earlier
   requests are still on the way, leaves two quorums that fix different heads.
4. `takeover_lost_key`: an acquisition is cleared from disk while its request is
   still on the way, and a guardian is then bound to a key nobody holds.

**Limit of the durability results.** DurableRecordSurvives and
GuardiansKeepDurableRecords are shown for ONE restoring device. They do not extend
to two: with `Device = {a, b, c}`, `MaxLog = 1`, `MaxEpoch = 3`, `MaxKeys = 1` and
`MaxRestoring = 1`, TLC violates GuardiansKeepDurableRecords after 37 steps. One
device moves its guard because a guardian has gone to a later epoch, and completes
a split grant; the second device's takeover, over the lower head, then drops the
record. It is a consequence of the third finding. The search takes about nine
minutes, so it is not one of the runs.

**Limits seen in the models**, none of which contradicts a promise of the
repository strongly enough to be a finding of its own:

* `swapReplicator` raises the watermark at the switch of a rotation and resolves no
  waiter, and `advance` returns early below that watermark
  (`durability-barrier.ts:206`, `:517`). A loop parked on a frame the new set already
  holds therefore sits out its timeout. WaitersAreAboveTheMark holds in `barrier` and
  would fail in `rotation`, where it is not asserted.
* Another device may take the outgoing set over between the last pass of a rotation
  and its switch. Only the genesis branch asks the outgoing set again
  (`guardian-rotation.ts:578`); the writer moves to a set the other device does not
  know.
* LeftSetIsRetiredOrOwed is a promise of one rotation; step 5 of
  `docs/RECOVERY-GUARDIAN-WIRE.md:780` says the retirement is retried until a member
  accepts. With `MaxGeneration = 3` TLC violates it in two ways. The switch of a
  second rotation overwrites `retirePending` (`guardian-rotation.ts:450`) while the
  first retirement may still be owed. And an attempt reads the debt before it asks
  (`:679`) and deletes whatever debt is there afterwards (`:691`): one still in flight
  for the first set, of the retry timer for instance, deletes the debt of the second.

## 6. What is not modelled

Of the channel: opening, shutdown, splicing, the stfu exchange, FFOR, taproot
nonces, lease fees, `awaitingLocalFeeCommitment`, withheld sends
(`sendsWithheldOnConnection`), the capsule's recency hold, `stateUncertain`,
channel_ready retransmission. The hold of a batch by the quorum barrier is in
`DurabilityBarrier`, not in `ChannelPair`: a held batch there is lost with its
connection, which for the exchange is a message lost on the way.

Of recovery: possibly stale or rolled-back guardian stores, retain floors and
compaction, quotas, quarantine, re-registration, the exactness of the restored wire
state. Of the barrier: a lost backfill, a missing lease at startup, batches without
a frame, the detachment of a channel that closes. Of the rotation: the details of
registration, capsules, and a crash between the switch transaction and the swap of
the replicators, which are one step; a ROTATE_SET that a member takes after the
attempt that sent it has ended; and two attempts of the retry timer at once, because
a request times out (30 s, `guardian-client.ts:73`) before the next tick (60 s).

Two conditions on peer traffic are left out of `PermitsPeerTraffic`, and both only
withhold more: `startupRepairPending` (`node/lightning-node.ts:7394`), which keeps a
confirmed writer quiet until its startup repair is done, and `fenceForRotation`
(`node/lightning-node.ts:7100`), which fences the barrier when a storage peer returns
a capsule of a later generation; what the fence does is modelled.

Of forwarding: JIT and async holds, FFOR vouchers, dust, quiescence of the outgoing
channel, adds abandoned by a held restore, and the node's own payments. The upstream
peer's timeout on chain is not modelled: what is lost when the inbound channel is
closed too late depends on the CLTV delta, a configuration value. Deadline levels are
nested as the defaults nest them (claim buffer 18, twice the margin 12, margin 6), and
a block brings at most one part near its deadline. A parked part near its deadline is
always failed when it is drained, because its outgoing expiry is past. A removal may
be repeated, and may be changed into the other kind (a fail into a fulfil or a fulfil
into a fail) only before the peer has signed it (`MayRemove`). After that the code still
accepts the other kind; a fail there changes no debt, because the preimage is known
and `isOutgoingLegTerminallyFailed` is false for a known preimage, and a fulfil there
gives away a preimage for an HTLC the peer can no longer collect. When the outgoing channel closes after a leg was refunded, nothing but
the inbound deadline settles the part; NextBlockRefunds states the open case only.

Other parts are listed in `PROJECT.json` with the reason. The map covers a small
share of the implementation, about 200,000 lines: the rest is encoding, cryptography,
scripts, storage, user interface and features (swaps, JIT liquidity, offers, direct
funding, splicing) whose state machines rest on parts that are not modelled. Gossip,
onion, messages, invoices, keys and scripts are functions of data; storage is taken
as atomic and durable; the wallet, Electrum, daemon and CLI are I/O.

## 7. Where to go on

1. An abstract channel (balances and HTLC outcomes) that `ChannelPair` refines, so
   that `Forwarding` can be composed with it instead of with an abstraction of its own.
2. Quiescence and splicing as an extension of `ChannelPair`.
3. The durable ledger with held forwards and swaps; the chain monitor under
   reorganisations; the dial tie-break of the transport.
4. A full invariant of both records of a channel, from which agreement of the books
   and the force-close view would follow.

## 8. Running

`tlc -config X.cfg M` for a run of `PROJECT.json`; every run ends within five
minutes. `tlapm M.tla` for a proof; from nothing, in minutes: `ChannelLemmas` 2,
`ChannelPairProofs` 10, `TakeoverProofs` 4, `ForwardingLemmas` 7, `ForwardingProofs` 7,
`BarrierLemmas` 4, `BarrierProofs` 5, `RotationProofs` 5.
