# Orishu in TLA+: formation membership, the worker's owner, runs and their client

Orishu runs scientific workloads on a *formation* of worker processes. Workers find,
admit, watch, remove and reconcile each other through a SWIM-like membership protocol
over QUIC. A worker that is alone in its formation loads and runs a workload for a
client, which is the Kagami application; loads and run commands are identified
operations with durable receipts. This directory holds TLA+ models of these as the
code implements them, TLC configurations that check them on small instances, and TLAPS
proofs of the results that matter most for every size of instance.

`PROJECT.json` is the index: components, runs, the mutated definitions that show
each property can fail, the map from definitions to source lines, the hazards,
and the theorems.

    tlc -workers 2 -config Formation.cfg Formation     # one run
    tlapm FormationProofs.tla                          # the proofs of one module

## The system

### Parts, state and interactions

`crates/orishu-membership` is the core. It is written without I/O: `update(model,
message)` changes one `Membership` value and returns effects (send, arm a timer,
select peers, verify a credential, allocate an ID). The worker
(`apps/orishu-worker`) is the shell that owns the model, carries the effects out
and feeds the outcomes back. Everything below up to the owner loop is state of
that one value.

| Part | State | Operations | Interacts through |
|---|---|---|---|
| Merging (`merge.rs`, `update.rs`, `version.rs`) | member records (liveness, incarnation, version), tombstones, policy, the node's own incarnation | merge of a record, tombstone, policy; announcements; refutation; operator commands | gossip, anti-entropy pages, announcements, the join snapshot, the admission baseline |
| Failure detector (`update.rs`) | pending probes and relays, pending selections, suspicion deadlines | probe round, ping, ack, indirect ping, timers | shell timers and peer selection; verdicts go through merging |
| Admission (`update.rs`, `admission.rs`, `baseline.rs`) | pending admissions by session; the applicant's attempt | join request, credential verdict, ID allocation, refusal, retry, rebinding, adoption | sessions of the worker; inserts member records |
| Replay window (`model.rs`) | sender's sequence number, receiver's window per member | stamp, observe | every message after admission; forgotten with the member |
| Gossip queue (`gossip.rs`) | queued deltas with their hops | enqueue, take, defer, evict, retire | piggy-backed on pings and acks; the shell hands back what it could not send |
| Anti-entropy (`antientropy.rs`, `update.rs`) | the round in progress | digest, compare, page, continue, time out | pull requests and replies between two members |
| Admission replay (worker `admission_replay.rs`, `driver.rs`, `peer/session.rs`, `peer/registry.rs`) | ledger of accepted assignments; the member each session is bound to | look up, validate, replay, commit, promote | in front of admission, in the same owner turn |
| Owner loop and join operations (worker `driver.rs`, `join_operations.rs`, `runtime.rs`) | generation, participation, armed timers, the join's transport, the catch-up, the admission token, one record per join operation | turns for client requests, reports of jobs, timers, peer news; identity change, ejection | everything above; jobs that dial, redial, send and transfer; the execution slot |
| Peer sessions, dialling, catch-up (worker `peer/`) | registry, dials, exchange slots | connect, promote, expire, fetch a baseline | owner loop |
| Workload loading (worker `workload_load.rs`, `driver/scientific.rs`) | the one load job, the retained run | submit, reserve, receive, validate, confirm, start | owner's control lane, load journal |
| Receipts (worker `workload_receipts.rs`) | a journal of receipts per lane, in memory and on disk | look up, begin, finish, recover | load and command jobs |
| Runs (worker `run_commands.rs`, `driver/run.rs`, `driver/execution.rs`, `orishu-runtime`) | the owner's slot with its fence and published boundary; the executor with its guest; the one command job | step, finish, publish, revoke, unload, release | owner's control lane, command journal |
| Kagami run client (`apps/kagami/src/run*`) | an intent per lane, in memory and on disk; upload bytes; one job; what the window shows | submit, command, reconcile, resend, clear, observe, detach | the worker's client API |
| Kagami document, session, catalog (`kagami-*`) | edit history, revisions, store on disk | update, undo, save, load | the Kagami application |
| Data types, variables, plugins, workloads | none | parse, validate, encode | everywhere |

### What is hard here

* **Merging without coordination.** Verdicts, refutations, removals and
  clearings of one node reach each view in a different order, repeatedly and
  late. The liveness pair and the description of one record are decided apart.
* **State across an effect.** The core asks and goes on; the answer meets a model
  that has changed. This concerns a probe's verdict, an admission's stages, a
  deferred gossip delta, a page of an anti-entropy round and every timer, which
  may fire after it was cancelled.
* **Limits.** Pending probes, selections, admissions, members, tombstones, queue
  slots, ledger entries, pages per round, incarnations, version counters and
  sequence numbers are all bounded, and each has a behaviour at its bound.
* **Failure.** Membership is not persisted. A crash takes away suspicion
  deadlines, and a lost acceptance leaves a member that does not know it is one.
  Receipts and intents are persisted; a crash or a failed write may fall between
  the intent, the effect and the outcome, on either side of the connection.
* **Changing identity.** Joining, leaving and being removed replace the worker's
  identity while dials, sends, transfers and an executor of the old one are under
  way. Counters start again from zero, so a number alone does not tell them apart.
* **Who owns an effect.** A run's guest computes, its owner publishes, its journal
  records; a deadline or a revocation may fall between any two.

The full list, each at its line, is under `hazards` in `PROJECT.json`.

### What makes each part correct

* Merging: only the subject raises its incarnation; no merge invents a failure;
  a tombstone fences; death is terminal; operator decisions are versioned registers
  and converge; a crash is detected while the node that suspected it runs.
* Detector: verdicts rest on all the evidence asked for and on nothing stale;
  nothing waits for a timer nobody holds; what is kept is bounded.
* Admission: gates hold at insertion, not only when checked; a certificate is admitted
  once and on the verification of its newest request; what gossip inserts beside that
  is bounded; an adopted ID stays its owner's.
* Admission replay: one ID per attempt; nobody is resurrected; a lost acceptance
  is recovered.
* Replay window: nothing is acted on twice and reordering loses nothing.
* Gossip queue: every delta is transmitted neither too rarely nor too often and
  is current, but for a removed record that returns at an old version.
* Anti-entropy: a complete round has caught up with all that the merge lets in, and
  every round ends.
* Owner: no order of reports makes it fail, and the clock in one way only; what it records of a join is true;
  nothing of an old identity acts in a new one; a run that is not fenced is alone;
  no operation waits for ever.
* Receipts and runs: an operation takes effect at most once, after its intent was
  recorded, and a recorded outcome is true for ever; one guest at a time; readers
  see committed states only; revoked slots and waiting commands come free.
* Run client: nothing that may still happen is forgotten, across lost replies,
  failed writes and restarts; what the window shows is what the journal holds.

## The modules

**`Merge`** is the replica and its operators, with no variables: `Replicas`
(`members`, `tombs`, `policy`, `inc`, `susp`) is the part of `Membership` that is
merged; `MergeMember`, `MergeTombstone`, `MergePolicy`, `ApplyAnnouncement`,
`Refute`, `Suspect` and `ExpireSuspicion` are the functions of the same names.
Versions are a counter and an actor, compared in that order as in `version.rs`.
A record's description is abstracted to its version. `Formation` and `Probe`
extend it.

**`Formation`** composes the replicas of several nodes. A step is one call of
`update` on one node. `sent[n]` is everything `n` ever put into gossip, into a
reply or into an announcement; any of it may be delivered to anybody who has `n`
in its view, again, late, or never. `Admit`/`Adopt`/`InstallBaseline` are the join
seen by the replicas, including the snapshot without tombstones and the baseline
that follows it. `SuspectMember` stands for a whole failed probe. A node removed
by others keeps running here, as the core does; the worker's ejection belongs to
the owner loop.

**`Decisions`** is the abstract specification of what operators decide: one register
for the policy and one for the tombstone of every node. A decision is made at a node
on what that node knows, is newer than that, and has a version no other decision on
the register ever has; a node holds only what was decided and moves only forwards,
until it is gone. `Formation` implements it:
`D == INSTANCE Decisions WITH made <- ..., held <- ...`, where `made` is what anybody
ever sent and `held` what the replicas hold, and `DecisionsAreRegisters` is
`D!DecisionsSpec`. The code has no such notion: a removal numbers its tombstone after
the *member's* record and a lock after the policy held, each at whichever node it is
asked of, and that this never yields one version twice is the point.

**`Probe`** is the detector of one node in full: rounds, selections, direct and
indirect probes, relays for others, helpers' reports, timers that fire though
cancelled, and a view (of `Merge`) that the rest of the formation changes
meanwhile. Probe, selection and timer numbers come from one counter as
`next_correlation` gives them. A removal takes the member's probes along and leaves
their timers armed, with no owner; a member whose tombstone is cleared may come back
by gossip, at the incarnation it had, and be probed anew while they fire.

**`Admission`** has the introducer's two stages, and applicants that retry and rebind.
Between the stages the lock and the blocklist change both ways, members die, tombstones
arrive and are cleared, and gossip inserts members past every gate but the fence and
`max_members` (`MemberHeard`): one that another introducer admitted, or one that returns
after its tombstone was cleared. `heard` (the IDs that came so) and `vouched` (the
verifications answered as valid) are histories. The core is written for a shell that
answers later, and it is modelled against that; the present worker answers within
the same turn. `MCAdmission` adds the symmetry of applicants.

**`AdmissionReplay`** is the worker's ledger in front of the gates, where one
owner turn goes from look-up to answer, with sessions promoted to members. An
applicant may have been a member before, died and come back, so that the ledger
holds an old record of it. `safe` is `local_admission_state_safe`: an introducer that
finds itself blocked or fenced replays nothing until that is lifted. The other conditions
of `introducer_ready` are fixed for a worker that serves a formation.

**`SeqWindow`** is one sender and one receiver of stamped messages, with the
window as the set of its one bits. Its specification is `WindowSpec`: the names it
would share with `AdmissionReplay` carry a prefix, because one module proves theorems
about both. The same goes for `AntiEntropy` (`PullSpec`) beside `GossipQueue`.

**`GossipQueue`** is the queue, the records it is fed from and the shell. The
hop limit follows the size of the formation and is changed only while nothing is
unsettled, because the worker returns deferred deltas within the turn that built
the message. A record that was removed is gone until its tombstone is cleared, and may
then return at any version a peer still held, while the newer one of its earlier life is
still queued; `revived` is the history of such returns.

**`AntiEntropy`** is one node pulling from one peer. Leaves are numbered in
canonical order and a digest is the map it was taken of: hashes are taken to be
collision-free. Why a merge refuses a record (a fence, a limit, a dispute) is `Merge`'s
matter; here any new record of a page may be refused, and a tombstone of the page may
remove others. Refused and removed records are no longer `owed`.

**`Owner`** is the formation owner of one worker. The record `o` is the `Owner`
struct, and one action is one turn of its loop, written as a chain of functions on
that record in the order of the code: `Publish`, `NewIdentity`, `Ejected`, `Settled`
and so on are the stretches of `apply`, `eject` and `publish` they are named after.
`dials`, `redials`, `sends` and `transfers` are the jobs under way, each stamped
with the generation that asked. A refused transition of a join record sets `fatal`,
which stands for the `DriverError` that ends the worker. Abstractions: whether a
connection is open and a request can be sent is a free choice (`open`, `route`);
the order of the control lane is folded into the free completion of jobs; only the
timers of joins are kept, since tokens of other kinds differ from them; an
introducer that misbehaves is an answer that is lost; node IDs within a stage, the
observers and the histories of leave and lock operations, which replays only read,
are left out. A turn reads the clock more than once, and the ninety seconds of a
catch-up may run out in between (`Overtaken`).

**`ReceiptContract`** is the abstract specification of identified operations: a
durable receipt per key and the set of requests that took effect. Intent precedes
effect, effect happens at most once, and a settled receipt is true.

**`RunService`** is the worker's side of loads and runs in detail, with six parties
that interleave: the load job, the command job, the executor threads, the owner's FIFO
control lane, the disk and the world. It implements the contract: `C == INSTANCE
ReceiptContract WITH log <- disk`, where `done` is what the owner published, and the
run checks `C!ContractSpec` as a property. A failed write chooses at once whether the
old or the new snapshot is on disk, which covers the loss of power. An outcome that
does not fit the journal's byte limit is refused without poisoning it and leaves the
receipt pending (`NotWritten`). `closed` stands for both coordinators, which shut down
together; requests that differ in nothing but their ID are used in the order of their
IDs. The attribution check of `RunCommandReceipt::new`, the death of the owner task
and observers of a run are left out. `MCRunService` names the requests.

**`RunClient`** is Kagami's controller and its intent journal, composed with the
contract in the place of the worker: what `RunService` is shown to keep is all that
the client is allowed to rely on. Whatever was sent may reach the worker at any later
time, again, or never. The client has one target; boundaries of runs and a panic of
the job thread are left out. A journal that refuses because it is poisoned or its
lane is occupied never meets a job, because the window, which then mirrors the
journal, starts none. An indeterminate outcome is never cleared, as in the code.
`MCRunClient` names the operations.

Definitions whose name has an underscore (`Gates_AdmitAgain`) are not part of
the models: each is a plausible mistake in the definition it is named after, and
putting it in that definition's place makes the property listed with it in
`PROJECT.json` fail.

## The runs

| Run | What it checks | Distinct states |
|---|---|---|
| `seq_window` | `HandledAtMostOnce`, `ReorderedStreamsSurvive`: window of 3, numbers to 6, 4 messages | 29,383 |
| `formation` | `IncarnationAuthority`, `FailureHasOrigin`, `FenceHolds`, `DeadlineMeansSuspected`, `DeathIsTerminal`: 2 founders and a joiner that may be suspected, refute, crash, leave and be removed | 367,904 |
| `decisions` | the refinement `DecisionsAreRegisters`, and `DecisionsConverge`: locks set on two nodes, a removal and a clearing on one | 11,925 |
| `crash` | `CrashIsDetected` **is violated**: two of three may crash (divergence 1) | 21,273, to the violation |
| `probe` | `NothingWaitsForever`, `VerdictsRestOnEvidence` (a death has its own deadline, every helper was heard, a refutation is respected): 4 nodes, 2 helpers | 1,501,842 |
| `admission` | `OneAdmissionPerCertificate`, `AdoptedIdentityIsOnRecord`, `AdmissionRestsOnNewestEvidence`, `InsertionPassesEveryGate`: 2 applicants with 2 connections each, 2 places, a third for gossip | 2,903,420 |
| `admission_replay` | `AttemptAssignsOneId`, `AcceptancesAreStanding`, `LostAcceptanceIsRecovered`: ledger of 2, two bodies, two attempts, two changes | 688,069 |
| `gossip_queue` | `QueueIsCurrent`, `DisseminatedAsAsked`: 3 records, queue of 2, 2 per message | 6,315,831 |
| `anti_entropy` | `CompleteRoundCatchesUp`, `RoundEnds`: 3 leaves in 2 buckets, pages of one | 365,248 |
| `run_service` | `OneRuntime`, `PublishedIsCommitted`, `OneStepPerBoundary`, `CommandsEnd`, `RevokedSlotIsReleased`, and the refinement `ReceiptsAreHonest`: 3 loads, 4 commands on one boundary, journals of 2, one trouble | 335,407 |
| `run_client` | `LedgerCanBeTrusted`, `UnresolvedLoadHasBytes`, `WindowIsCurrent`: 2 submissions, 2 commands, two troubles | 1,134,958 |
| `owner` | `OnlyTheClockEndsTheOwner`, `CleanFailureIsTrue`, `RunIsAlone`, `IdentityIsItsOwn`, `OperationsProgress`: 2 operations, 2 requests and 1 redial a join, 2 transfers a catch-up, 4 identities after the first | 181,834 |

Every module states a type invariant. The runs `probe`, `admission` and `gossip_queue`
check it, where it carries limits of the code (pending probes and admissions, members,
queue slots), and it is proved of these and of `SeqWindow`, `AdmissionReplay` (with the
ledger's limit), `AntiEntropy` (with the exchanges of a round) and `Formation`. In the
others it says no more than the shape of the state.

### Bounds

Bounds are named constants in guards, or sets that limit who may do what
(`Suspectable`, `Leavers`, `Operators`...). They are chosen so that each limit of
the code is reached and each race has its actors:

* `Formation`: three nodes are the subject of a claim, the one who raises it and
  the one who hears of it. `MaxInc = 1` allows one refutation and then the saturated
  case; `MaxCounter` of 1 or 2 allows a removal and a clearing, and a saturated
  counter.
* `Probe`: `MaxPending = 2` is reached by probes and by selections; four nodes give
  a target, two helpers and the prober; `LastStart` allows two rounds to overlap
  with a relay. The tombstones that arrive are cleared ones (`Fences`): like any, they
  remove the member and its probes, and then let it return.
* `Admission`: with a capacity of 3 and the introducer alone at the start, one member
  heard of leaves one place for two applicants, or one applicant is tried on two
  connections; `MaxMembers` of 4 lets gossip go past the capacity; two changes allow a
  removal and its clearing, or a clearing and a return, between stages. News is of one
  founder and of one ID (`News`), which is also one of the three the shell may allocate
  (`Minted`), so that an ID is taken from under an allocation.
* `AdmissionReplay`: a ledger of two with one place possibly taken is filled by
  one admission and must refuse the next.
* `GossipQueue`: three keys overflow a queue of two and a message takes two;
  hop limits 1 and 2 let the limit move both ways; three messages pass the larger;
  six changes fill the queue, replace records, remove some and bring some back.
* `AntiEntropy`: pages of one over two buckets need three exchanges, exactly the
  limit; two rounds may overlap through two selections. `MaxEdits` counts the pages
  with a refusal or a removal in them as well.
* `SeqWindow`: a window of 3 and numbers to 6 let a number fall out of the window
  and the counter saturate.
* `RunService`: three loads allow a run, a refused load beside it and a load after
  its release; journals of two are filled by them. Four commands, two steps and
  two finishes, all name boundary 0, so that each competes with each.
  `MaxTroubles = 1` is one crash, shutdown, revocation or failed write at any point;
  timeouts, refusals and guest failures are not counted and may happen throughout.
* `RunClient`: two operations per lane are one that may be forgotten too early and
  one issued after it. Two troubles allow a failed write followed by a crash.
* `Owner`: two operations are a join and one that follows it, into another
  formation. Two requests and one redial exhaust both budgets; two transfers allow
  a late one beside a current one; four changes of identity allow joining, leaving,
  joining again and being removed.

`CHECK_DEADLOCK FALSE` is given where a bounded system comes to rest: all requests
sent, all rounds asked for. `SeqWindow` has no such state and is checked for
deadlock.

### Fairness

Safety runs assume none. The others assume what the worker's scheduling gives:

* `Formation!FairSpec`: a message that would change a node is not ignored for
  ever (`Learn`: gossip is repeated, and anti-entropy rounds recur on a timer, so a
  record held by a member is offered again and again); an armed suspicion deadline
  fires; a node that is down is probed again and again, since the probe round is
  re-armed. False suspicion of a live node is never required.
* `AdmissionReplay!FairSpec`: a request that is sent again and again is handled in
  the end and its answer heard. `LostAcceptanceIsRecovered` is of introducers that may
  replay: one that finds itself blocked or fenced is exempt for as long.
* `AntiEntropy!FairPullSpec`: an armed timer fires. Nothing is assumed of the peer.
* `RunService!FairSpec`: the load job makes progress and so do the owner and the
  executors together; Tokio runs spawned tasks and blocking threads, and guest
  work, deliveries and waits have deadlines. Of clients nothing is assumed.
* `Owner!FairSpec`: one of what the runtime owes happens as long as something is
  owed: a dial that reports, as its drop guard does in any case, an armed timer, the
  end of the ninety seconds of a catch-up, the tick of every second. Answers,
  redials and transfers may never come.

### Where the code and its documentation differ

Met while modelling. The first is the finding of the run `crash`; the models exhibit 2
to 6 too, and their properties say so where they exempt them.

1. **Orphaned suspicion** (`update.rs:657`). Only the node whose own probes failed
   arms a deadline. Nodes that learn of the suspicion arm none, and their own
   probes cannot raise it again at the same incarnation (`merge.rs:85`). If the
   raiser crashes or is removed, the others keep the crashed node as suspected for
   ever. `docs/protocol-p2p.md:1855-1862` describes the timer as every prober's.
   The run `crash` finds it: 1 suspects 3 and says so, both crash, 2 declares 1 dead
   and holds 3 suspected for good. With `Crashable = Suspectable = {3}`, where every
   raiser goes on running, the property holds.
2. **Cleared members return** (`merge.rs:198`). After a tombstone is cleared, an old
   record of the removed node that is still in gossip or in another view inserts it
   again. `docs/protocol-client.md:1648` says that clearing "does **not**
   automatically admit the node". `MemberHeard` of `Admission` is that return, which
   may set a second live record of a certificate beside the first, so
   `OneAdmissionPerCertificate` is about what this introducer admitted. In `GossipQueue`
   the record may return older than what still waits in the queue under its key, and
   `enqueue` drops it (`gossip.rs:196`).
3. **Acceptance without the applicant** (`update.rs:1107`). The snapshot is the
   first `max_snapshot_members` members in ID order and the limits allow it to be
   smaller than the membership; an applicant that is cut off ignores its own
   acceptance. `docs/protocol-p2p.md:1401` says the snapshot includes "the joiner's
   own new record".
4. **Crossed verdicts.** A death and a refutation that cross leave two views apart
   for good: neither record supersedes the other, and anti-entropy finds the bucket
   in every round. The same goes for records a fence or a limit refuses; `AntiEntropy`
   has these refusals, and `CompleteRoundCatchesUp` excuses the refused record only.
5. **Second removal** (`update.rs:1626`). An operator's second removal of a member
   that returned after a clearing is refused, as stale or as conflicting: its version
   follows the member's and not the tombstone's. Nothing wrong is sent
   (`DecisionsAreRegisters`), but the member stays.
6. **The ninetieth second** (`driver.rs:2541`). `CatchupFinished` reads the clock to
   see whether the catch-up is still valid, and the installation it then applies
   reads it again in `publish`. If the ninety seconds pass in between, the join
   record goes to `CatchUpFailed`, the `Joined` that follows is refused and the
   `DriverError` ends the owner. `OnlyTheClockEndsTheOwner` says that nothing else does.

Met in Kagami's sessions, which no module covers yet (see the plan):

7. **Refusal with a trace** (`crates/kagami-session/src/authority.rs:732`).
   `resolve_gesture` closes an open gesture and publishes `GestureClosed` before the
   command is decided, so a refused command may extend the event log.
   `authority.rs:220-222` says a refusal leaves "the event log exactly as they were".
8. **Repaired gap still reported** (`crates/kagami-document/src/capability.rs:260`).
   After an edit only diagnostics of removed content are dropped. One of them is
   repaired by editing the component (`capability.rs:106`: "an ordinary edit is the
   repair") and stays reported until the projection is rebuilt.
9. **Moved primary** (`crates/kagami-session/src/store.rs:310`). "On any failure the
   primary is exactly as it was", but when the last rename fails the primary has
   already become the backup. `load` finds it there, and `tests/store.rs:299`
   expects that.

## The proofs

Every theorem holds for all values of the constants that satisfy the `ASSUME`s of
the module it is about: of any number of nodes, applicants, records, requests and
operations, any limits, and any values of the bounds that only keep the runs small.
The assumptions say what the code's own types and validations say, or what makes a
model well formed: limits are natural numbers, those the code wants positive are
positive, node sets are finite, a special value is none of the ordinary ones, and what
a worker starts with (members, founders, ledger entries) is within its capacity.

Each inductive invariant below was also found to hold in every state of its module's
run, by TLC (that of `Owner` with the formations cut to those the run can reach), and
is proved inductive in general, one lemma per action. What a run checks on a small instance is
stated by the theorem unchanged, as the same definition.

**`ReplayProofs`**, on what is repeated and acted on once. Of `SeqWindow`, for every
window width, range of numbers and number of messages:

* `WindowTypeCorrect`: `WindowSpec => []WindowTypeOK`;
* `AtMostOnce`: `WindowSpec => []HandledAtMostOnce`;
* `ReorderingSurvives`: `WindowSpec => ReorderedStreamsSurvive`.

"Handled at most once" is not inductive: it does not say why a handled message
will be refused. `WindowInv` adds `Marked` (what was acted on looks replayed to the
window, by its bit or by having fallen out below it) and `Witnessed` (each bit
stands for a delivered message with that number, which is what the reordering
property needs). The lemmas `Observe...` say what `observe` does to the window in
its four cases.

Of `AdmissionReplay`, for every set of applicants, connections, bodies and IDs and
every ledger capacity:

* `ReplayTypeCorrect`: `Spec => []TypeOK`, with the limit of the ledger;
* `OneIdPerAttempt`: `Spec => []AttemptAssignsOneId`;
* `AnswersStand`: `Spec => AcceptancesAreStanding`.

That two acceptances of one attempt agree follows from what neither says of the other:
`AnsweredFromLedger`, each acceptance ever given is the one the ledger holds for its
attempt, and a record of the ledger is never changed or dropped. An attempt that is not
on record has no acceptance, so the first may assign any free ID.

**`FormationProofs`**, from the assumptions that the bounds are naturals, the role
sets are sets of nodes and the founders are within `MaxMembers`:

* `FormationTypeCorrect`: `Spec => []TypeOK`, from a typing lemma per merge operator
  and per action;
* `FenceAlwaysHolds`, `DeadlinesAreCurrent`: `Spec => []FenceHolds`,
  `Spec => []DeadlineMeansSuspected`. Both follow from `Healthy`: in every replica
  a fenced node is no member, a deadline is held only for a suspected member at
  that or a later incarnation and never for the node itself. It is
  inductive with `TypeOK`: each merge operator keeps one replica `Sound`, whatever
  the message says (the `...Sound` lemmas), and each action changes a replica only
  through them;
* `OnlySubjectRaisesIncarnation`: `Spec => []IncarnationAuthority`. The invariant
  speaks of all views, messages and snapshots at once. The `...From` lemmas say that
  whatever liveness claim a merge operator leaves in a replica was there before,
  came with the message, or is about the node itself; `Monotone` says that a step
  raises incarnations only, so that old claims stay within authority
  (`WithinStable`); `Fresh` says that nodes yet to join are at incarnation 0, which
  is what makes their adoption of a snapshot harmless.
* `FailuresHaveOrigins`, `DeadStayDead`: `Spec => []FailureHasOrigin`,
  `Spec => DeathIsTerminal`. What a deadline declares dead was suspected when it
  was armed, so `OriginParts` adds that each deadline goes back to an announced
  suspicion. A node that held itself dead could refute and bring a dead member
  back, and a view that is replaced by a snapshot could lose a death; `Kept` says
  that neither happens: nobody holds itself dead, nobody speaks or holds a view before
  it has joined, a tombstone in a view or a message says something. The `...Lasts`
  lemmas say what no merge operator undoes: a death, a tombstone, the absence of a
  deadline.
* `FormationKeepsRegisters`: `Spec => DecisionsAreRegisters`, that is, `Formation`
  implements `Decisions`; `VersionsAreUnique`: `Spec => []D!OneDecisionPerVersion`;
  `BaselinesAreUndisputed`: `Spec => []~Disputed`. The hard step is a new decision,
  whose version must be nobody's although the node that makes it has not heard of the
  others. It carries its author's ID, so only the author could have used it before, and
  `DecidersKnow` says that an author still here holds each of its own decisions
  or a newer one; the new version is newer than what is held. For a removal, whose version
  comes from the member's record, this rests on the merge that refuses what is not
  newer than the tombstone held. IDs are not given out twice, so an author that is
  gone makes no more (`NewcomersAreBlank`: whoever has yet to join has decided nothing).
  `HeldIsMade` and `MadeIsReal` say that what is held was sent and decides something.
  Each action is then one step of a register, a `CatchUp` for a whole baseline, a
  `Forget` for a departure, or a stutter. Uniqueness is proved of `Decisions` itself
  and carried over by the refinement: a tombstone or policy from another node never meets
  `VersionConflict`, and a joiner's baseline, which one conflict would abort as a
  whole, never has one. (The blocklist is merged likewise and is not modelled.)
* `ViewsAreBounded`: `Spec => []LimitsHold`, no view or snapshot holds more than
  `MaxMembers` and no node more than `MaxTombstones` tombstones. Each operator adds one
  record at most and only where there is room (`Obeys`); a snapshot is a view taken
  when it was within the limit, and a baseline is counted before it is installed.

**`ProbeProofs`**, for every set of nodes, number of helpers and limit:

* `TypeCorrect`: `Spec => []TypeOK`, with `max_pending_probes` in it;
* `EveryWaitHasATimer`: `Spec => []NothingWaitsForever`;
* `VerdictsAreFounded`: `Spec => VerdictsRestOnEvidence`.

`Inv` adds `Booked` (every ID and timer in use was drawn from the counter, so the
next one is new), `Asked` (one selection of intermediaries per probe, and no helpers
while it is outstanding: a late or second selection cannot be mistaken for an
exhausted one) and `Known` (a probe is of a member and never newer than the view: a
member that is removed takes its probes along, so one that returns with a lower
incarnation meets none, and a verdict at the probe's incarnation cannot overtake a
refutation). `Formation` and `Probe` both declare `rep` and cannot be extended
together, so the facts about the merge operators that this needs are lemmas of their
own here (`...View`).

**`AdmissionProofs`**, for every set of applicants, IDs and connections:

* `TypeCorrect`: `Spec => []TypeOK`, with `max_members`, pending admissions and attempts;
* `OneLifePerCertificate`: `Spec => []OneAdmissionPerCertificate`;
* `IdentitiesAreNotReused`: `Spec => []AdoptedIdentityIsOnRecord`;
* `NobodyEntersOnOldEvidence`: `Spec => AdmissionRestsOnNewestEvidence`;
* `NobodySlipsIn`: `Spec => InsertionPassesEveryGate`.

`Inv` adds `RepliesAreOnRecord`: an acceptance still on its way, however old, names an ID
that is on record, as a member or a tombstone, under the certificate it was given to.
From one step to the next a recorded ID keeps its certificate, whether it is removed,
cleared or comes back (`Remembered`), which is what a late adoption needs. For the
evidence, `Evidenced` follows the newest request of a session through the stages: the
session waits for it, or has it vouched for. `Numbered` (a request's number was drawn
before) makes a new request the newest.

**`DisseminationProofs`**, on how records spread. Of `GossipQueue`, for every number of
records, versions and messages and every finite set of hop limits:

* `TypeCorrect`: `Spec => []TypeOK`;
* `QueueStaysCurrent`: `Spec => []QueueIsCurrent`;
* `GossipIsDisseminated`: `Spec => []DisseminatedAsAsked`.

The count of transmissions is not inductive without saying what an entry's hops stand
for. `Fine` says it of one version of one record: what waits is charged exactly what was
sent and is on its way; what has left, other than by eviction, was charged the limit.
Both are of records that were not revived, and `Matched` says that such a key's queue
entry is the version held, or last held.
`Charge` covers deltas on their way when the limit was lowered under them. The lemmas of
the section "One record" are arithmetic on these two; the rest lifts them to the queue,
to a message and to a deferral. That a selection and an eviction pick extremes of a
finite set is shown by a least counterexample, with the library's well-founded minimum
in the place of induction.

Of `AntiEntropy`, for every number of leaves, bucket and page size and number of
exchanges:

* `PullTypeCorrect`: `PullSpec => []PullTypeOK`;
* `CompleteMeansCaughtUp`: `PullSpec => CompleteRoundCatchesUp`.

A round has caught up with the leaves below its cursor, and each page moves the
cursor. But a request and a reply are on their way while both trees change, so
`RequestsAreCovered` and `RepliesAreCovered` say it of every message of the round,
however late: all that is owed up to its cursor is held, or, for a reply, comes with
it; and what a request describes is held, so that a bucket found equal to it is not
owed. A refusal or a removal excuses a leaf in all of these at once. `PeerOwes` keeps
what is owed within what the peer holds, and `Numbered` says that a new round's number
is new, so that a late page of an earlier round is not taken for one of this.

**`RunServiceProofs`**, for every set of requests, journal size and number of troubles:

* `OneGuestAtATime`: `Spec => []OneRuntime`;
* `ReadersSeeCommitted`: `Spec => []PublishedIsCommitted`;
* `BoundariesAreLeftOnce`: `Spec => []OneStepPerBoundary`;
* `ReceiptsKeepTheContract`: `Spec => ReceiptsAreHonest`, that is, the run service
  implements `ReceiptContract`.

`IndInv` has what the two jobs rely on (`JobInv`) and what the runs rely on (`RunInv`).
The arguments that carry it: a reservation holds the slot from its issue to the drop of
its lease, and the owner hears of the drop from the lease alone (`Holders`); a
publication that the owner could still accept belongs to an executor that waits for
it or has just given it up, and there is one at most (`Publications`), so what an
executor gives up on is either done or can never be done once its fence is down
(`ExecEffects`, `LaneEffects`, `OutcomeIsTrue`); every step that took effect left a
boundary below where its run stands (`RunProgress`), and formations and epochs are not
issued twice (`Epochs`). `Counted` bounds the reservations by the recorded load
requests, so that a serial number is always left. Given `IndInv`, each action of the
service is one action of the contract or a stutter.

**`RunClientProofs`**, for every set of operations and number of troubles, against the
contract in the place of the worker:

* `LedgerIsTrustworthy`: `Spec => []LedgerCanBeTrusted`;
* `UploadsStayRepeatable`: `Spec => []UnresolvedLoadHasBytes`;
* `WindowShowsTheJournal`: `Spec => []WindowIsCurrent`.

`IndInv` adds that a healthy journal's memory is its disk, that a job at work finds
its operation in a healthy journal and carries the worker's own final answer, and that
the window mirrors the journal whenever no job can change it. With
`ReceiptsKeepTheContract` the client's guarantees rest on nothing but what the worker
is proved to keep.

**`OwnerProofs`**, for every set of join operations and all limits:

* `OwnerEndsOnlyByTheClock`: `Spec => OnlyTheClockEndsTheOwner`;
* `CleanFailuresAreClean`: `Spec => []CleanFailureIsTrue`;
* `RunsAreAlone`: `Spec => []RunIsAlone`;
* `IdentitiesAreSeparate`: `Spec => []IdentityIsItsOwn`.

That a record refuses no stage needs to know which stage it is at. `PartIsRecorded`
ties each participation to the stage of its operation's record; `DialsAreHeard` and
`TransfersAreStamped` say what a job under way may still find, by its generation;
`RequestsAreRecorded` says that an operation which ever asked an introducer is at a
stage that admits it. A turn is a chain of functions on one record, so there is a
lemma per function, and `Moves` says how a whole turn looks to the jobs under way.
The invariant is `Inv \/ Ended`: the turn in which the clock overtakes an installation
(`EndsJoined`) leaves `Inv`, and after it the owner takes no turn (`EndedStays`).

**What is left to TLC.** Everything under fairness (`DecisionsConverge`,
`LostAcceptanceIsRecovered`, `RoundEnds`, `CommandsEnd`, `RevokedSlotIsReleased`,
`OperationsProgress`): liveness and `ENABLED` are outside the prover's reach. Every
invariant and every action property that a run checks, and both refinements, have a
theorem.

## What is not modelled

* The blocklist as replicated state (a set of blocked certificates in the
  admission modules), the truncation of a transition's effects at their budget,
  the introducer role, protocol version and formation ID gates, which are fixed
  per connection.
* Wire format, TLS, text of identifiers, logs, metrics and traces: conversions and
  I/O on which no decision here depends.
* The peer registry's capacity and expiry, exchange slots and the pages of a
  catch-up transfer; member dialling.
* Reading of fields and objects of a run, which sees committed states only.
* Workloads, plugins and variables (canonical encoding, validation, evaluation), the
  WebAssembly sandbox and the numeric solvers: data and arithmetic without an order
  of steps.
* Documents and sessions of Kagami, its catalog and renderer, the monitor and the
  command-line client.

The repository has some 140,000 lines of implementation, most of it in these last
groups. The models cover a small share of the lines and most of the places where
several parties act on the same state.

## Plan

1. *Peer registry, exchange slots and catch-up pages*: capacity, provisional expiry.
2. *Blocklist merge* in `Merge` and `Formation`, as one more register of `Decisions`.
3. *Kagami sessions*: revisions of the authority and the saving of the store.
