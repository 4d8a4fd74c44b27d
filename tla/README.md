# Brocade: a TLA+ verification of its release, permission, metering and handoff protocols

Brocade is a declarative control system for fleets of Xray proxies. Operators
edit one model; a commit freezes it as an immutable *revision*; the console
compiles the revision into one desired state per machine, plans a *deployment*
(a release) that moves the machines in *waves*, and an agent on every machine
polls for its desired state, converges to it and reports what it found. Beside
the releases run a *permission line* that carries grants to the machines without
a restart, *usage metering* that brings cumulative counters into the books, and
a *handoff* that replaces a running Xray without cutting its sessions.

This directory models these protocols in TLA+, checks them with TLC on small
instances and proves part of them with TLAPS for instances of every size. All
paths below are relative to the repository; unless another file is named, line
numbers are those of `crates/brocade-store/src/deployment.rs`.

## 1. Inventory

### The parts and how they interact

| Component | Where | State it keeps | Operations |
|---|---|---|---|
| Release control plane | `brocade-store/src/deployment.rs` | `deployments`, `deployment_targets`, `node_convergence_obligations`, `node_operational_isolations`, `node_applied_state` | plan, create, confirm a wave, halt, cancel, retry, roll back, isolate, restore, claim, report, discard |
| Wave planner | `brocade-deployment/src/plan.rs` | none (pure) | compare applied with desired, derive listener references, assign waves |
| Node lifecycle | `brocade-store/src/lifecycle.rs`, `console/nodes.rs` | `node_lifecycle_state`: phase, epoch, teardown deployment | retire, reactivate, repair a teardown, abandon, complete a retirement |
| Agent tokens | `brocade-store/src/agent.rs` | token rows, last poll, runtime reports | issue, authenticate, revoke |
| Subscription serving | `brocade-store/src/serving.rs` | `subscription_serving_state`: the release and the permission revision subscriptions are rendered from, and who was isolated | activate, reject, account for the fleet |
| Grants automation | `brocade-store/src/grant_automation.rs` | `jobs` of kind `grants-deployment` | enqueue, select a batch, plan an order, requeue behind other orders, finish |
| Usage accounting | `brocade-store/src/usage.rs`, `brocade-agent/src/accounting.rs` | heads (baselines), receipts, cursors, generations; the agent's sequence, stop checkpoint and journal | sample, stop, launch, record a report, prune |
| Quotas | `brocade-store/src/quota.rs` | quotas, suspensions | plan and apply enforcement, operator enable/disable |
| Agent loop | `brocade-agent/src/main.rs` | journal of a pending convergence, last desired state | poll, converge, record, resume after a crash, guard Xray |
| Agent spools | `brocade-agent/src/spool.rs` | bounded queues of unacknowledged reports | append, drain, condemn on 4xx, count losses |
| Xray update and handoff | `brocade-agent/src/xrayupdate.rs`, `xrayupdate/crash_recovery.rs` | `xray-upgrade.json`, `xray-crash-recovery.json`, backups, process generations | hand over, roll back, guard, recover, restart |
| Model editing | `brocade-store/src/console.rs`, `draft.rs` | drafts, `revisions` | save, commit, revert |
| Model compiler | `brocade-core` | none (pure) | snapshot to artifacts |
| Binary and Xray releases | `brocade-store/src/binary_release.rs`, `xray_release.rs` | release, target and attempt rows | create, claim, report |
| Console | `brocade-console` | sessions, realtime hub | HTTP, SSE, WebSocket |
| Probes, notifications, bootstrap, VPN Gate | the rest of `brocade-store`, `brocade-probe` | measurements, jobs | measure, notify, initialise |
| Data plane | `components/xray-core`, `brocade-agent/src/{wg,phantun,xray_grpc}.rs` | the kernel and Xray | apply |

The console and the agents talk over HTTP only; an agent always speaks first.
Every store operation is one PostgreSQL transaction that takes advisory and row
locks before it reads what it decides on, so operations of different requests
interleave as whole transactions. Three exceptions matter and are modelled as
separate steps: `create_deployment` (463-504) computes its plan from the pool
*before* its transaction begins; the quota worker reads its plan outside the
transaction that applies it; the grants worker holds its lock over two
transactions, the one that creates the order and the one that settles the jobs.
A fourth needs no step of its own: `discard_pending_changes` reads its baseline from
the pool (7487-7512), but its transaction refuses if the newest revision changed, or
if any order of the revisions after that baseline is not canceled, and the order that
made the baseline stale is one; a success of an older revision touches nothing the
discard reads or writes.

On a machine, the agent's main loop, the one-second guard, the samplers and the
reporters are threads of one process that share one *meter lock* and the files;
the Xray processes are on their own and outlive the agent.

### What is hard here

* **Belief and reality part ways.** Between a claim and its report nobody knows
  what a machine runs. Any operation that closes the order (a cancel, an
  isolation, a lifecycle change, newer debt) must leave a mark in
  `node_applied_state`, because the planner will skip a machine whose row
  matches.
* **Messages are lost and repeated.** A claim's answer is lost after the row
  says `dispatched`; an acknowledgement is lost after the report was applied;
  spools repeat a report until it is answered; the agent dies with or without a
  journal, or with a reserved sequence in hand.
* **Orders outlive their releases.** An isolated machine leaves its waves and
  owes *debt*, which is executed, superseded, retried or canceled long after the
  release closed. The release's `settlement_status` has to follow.
* **Several orders meet.** A configuration and a permission order may be open at
  once; a pending configuration target takes the newest permission list along, a
  dispatched one is immutable and carries an old one; newer debt replaces older
  debt; every lifecycle change cancels both and plans anew.
* **Order of waves.** Callers wait for the listeners they dial; the first
  replacement is a canary; disruptive waves wait for a human; references may be
  cyclic.
* **Two workers and an operator edit the same permissions.** The quota worker
  acts on a plan that may be old, and must not undo an operator.
* **The books only see readings.** Counters restart, go back at a power loss,
  are sampled twice in a second and reported after their process is gone.
* **A handoff is not a transaction.** The agent, either generation or the machine
  may die between any two of its effects, and every control call may be done and
  not answered. What is left on disk and in the processes is all the guard and
  the recovery have to go by.

`PROJECT.json` lists these under `hazards`, at the line where each bites, with
the properties that would notice.

### What makes each component correct

* *Control plane*: one open order per kind; the applied state never lies; one
  current debt per machine and kind; waves in order and confirmed; every release
  comes to rest.
* *Planner*: listeners first, cycles together and nothing else with them, one
  canary, a destructive disable alone, termination.
* *Lifecycle*: a machine declared retired runs nothing, and nobody is about to
  start it.
* *Serving*: the pointer names a release whose configuration is what runs on the
  machines that were told to run it.
* *Permission line*: no change is forgotten, none is undone for good by an older
  list, an operator's disable stands, a spent quota takes effect.
* *Spools*: bounded, ordered, every loss counted as long as counting works, nothing
  removed that was not answered, nothing in the way but a line that no answer
  condemns.
* *Metering*: no byte booked twice; the books move only to levels the counter
  reached; nothing blocks the queue but the expiry of a receipt and a machine's
  clock that was set.
* *Handoff*: some generation serves again unless the recovery refuses for good; what
  is on disk is what serves; receipts tell what happened; no session is cut that
  nobody allowed to cut.

## 2. Modules

```
Waves ---------- WaveAssignment ---- MCWaveAssignment
  |                    '------------ WaveAssignmentProofs -- NumberLemmas
  '------ Deployment --------------- MCDeployment
               '-------------------- DeploymentProofs ------ NumberLemmas
                                           '--- DeploymentCases

AgentSpool ----- SpoolDelivery ----- MCSpoolDelivery
  |                    '------------ SpoolDeliveryProofs
  '------ UsageMetering ------------ MCUsageMetering
               |  '----------------- UsageMeteringProofs
               '-- refines --------- UsageLedger

GrantAutomation ---- MCGrantAutomation        XrayHandoff ---- MCXrayHandoff
      '------------- GrantAutomationProofs         '---------- XrayHandoffProofs
```

Each model module keeps mutated forms of some definitions, marked `Mutant of`,
next to the originals; nothing but the checks of the properties' strength uses
them.

### `Waves` and `WaveAssignment`

`Waves` is `assign_waves` (`plan.rs` 1238-1392) as pure operators: `Ready` is the
scan for targets without open prerequisites, `Selected` the choice of one
iteration (canary, regular targets, a single disable, or a whole strongly
connected component), `SourceDependencyComponent` the cycle breaker, and
`AssignWaves` the loop. `Rank` is the order of the plan's sorted targets.
`WaveAssignment` is the same loop as a state machine over an arbitrary plan
chosen in `Init`, so that its invariants can be proved, and `ComputesAssignWaves`
ties the two together: what `Deployment` plans with is what the loop computes.

### `Deployment`

One variable per group of tables, one action per transaction:

| Variable | Rows |
|---|---|
| `hist` | `revisions`, oldest first |
| `dep` | `deployments` with, per machine, its target (`st`, `ep`, `wave`, `disr`, `gr`, `fz`) and its obligation (`ost`, `ogr`, `claim`) |
| `node` | isolation, lifecycle phase and epoch, teardown order, token, and the applied state (`cfg`, `gr`) |
| `serving` | `subscription_serving_state` |
| `draft` | a plan that has been computed and not yet inserted |
| `mach`, `agent` | what a machine really runs; its agent's work and spooled observation |

| Action | Code |
|---|---|
| `CreateDeployment`, `PlanDeployment`/`SubmitPlan`/`RefusePlan` | `create_deployment` 463-504 and `create_from_plan_tx` 507-629: as one step, or with other transactions in between (`AtomicPlan`) |
| `ConfirmWave`, `HaltDeployment`, `CancelDeployment` | 2106, 3644, 3678 |
| `RetryObligation`, `RetryTarget` | the two arms of `retry_target` 3697-3975 |
| `IsolateNode`, `RestoreService` | 3254-3475, 3505-3642 |
| `Retire`, `Reactivate`, `RepairTeardown`, `Abandon` | `transition_node_status` 635-846 and `abandon_node` 848-910, whose common tail is `Replan` |
| `IssueToken` | `issue_node_token` |
| `ClaimObligation`, `ClaimTarget` | the isolated and the ordinary half of `claim_desired_for_node_with_protocol` 2388-2736 |
| `Execute`, `Crash`, `Deliver` | the agent's convergence, its death, and a delivery attempt of its spool; `Deliver` contains `report_target_result` 2739-3226 |

The helpers below the actions are the `_tx` functions, as functions of the rows
they rewrite: `Oblige` is `insert_or_supersede_obligation_tx` (with the
settlement refresh of every deployment it touches), `Refresh` is
`refresh_deployment_status`, `Cancel`/`CancelDirty` are `cancel_deployment_tx`,
`Serve` is `activate_deployment_tx`, `Insert` is `insert_target` over a plan,
`MarkDirty` is `mark_node_applied_dirty_tx`.

**Abstractions.**

* A configuration is the number of the revision that last edited that machine, 0
  a torn-down machine; a permission list likewise. What the planner compares
  (hashes of artifacts) is compared as these numbers.
* `Unsure` stands for the `dirty` and `unknown` result kinds. Disabling an
  unsure machine counts as disruptive, as the code does for a dirty one.
* `converging` is never written by the store; `failed-recovered` and
  `failed-dirty` are never told apart by the protocol. Each pair is one status.
* A machine's report succeeds exactly when it names the configuration and list
  that the order asked for (`target_status_from_report`); content checks of
  single artifacts are inside that comparison.
* An agent works on one order at a time: `apply_once_inner` drains the spool and
  finishes a journalled convergence before it polls. The spool is therefore one
  observation here; its queue is `AgentSpool`'s business.
* `Crash` leaves the machine converged, untouched or in between. The agent
  resumes the same work when it had written a journal (only work that applies
  Xray is journalled) and forgets it otherwise.
* `RestoreService` leaves out the liveness evidence (recent poll, runtime report,
  WireGuard handshakes): it may always be there, so the model allows more.
* `Disruptive` knows the machines whose edit Xray can be told as it runs: a release
  gets that from the runtime reports (`attach_running_xray`), so its plan passes
  `HotSwap`; the plan of a lifecycle command has no such report and passes nobody.
* `Serve` always completes. In the code the activation validates the combination of
  topology and permissions it is about to publish (`serving.rs`), and a failure there
  aborts the transaction of the report, which the agent repeats; the validation is
  about the content of revisions, which the model does not have.
* Protocol-version gates, tenants, VPN Gate policy marks and the frozen
  certificates and relay lists of a target are left out: they narrow which
  orders exist, not what happens to them.
* `Init` is the fleet right after its first configuration release.

### `GrantAutomation`

The permission line. A permission list is named by the revision it was projected
from; its content is whether the one metered user has access (`perm`).

| Variable | What it is |
|---|---|
| `perm` | per revision, does the user have access |
| `quota` | is it spent; does the quota worker own a suspension; the plan it read |
| `jobs`, `worker` | the queue with `run_after`; the holder of the advisory lock, its batch and verdict |
| `orders` | configuration and grants orders with their targets: list (`gr`), frozen list (`fz`), `proof` of a complete fleet |
| `machine`, `agent` | the list a machine holds, the one it was last seen with, whether its Xray state is known; the agent's work |
| `served` | `permissions_revision_id` |
| `disabled` | history: the operator's last word was to disable |
| `withdrawn` | history: the machines for which an operator canceled an order with the newest permissions |
| `restored` | history: the newest revision is one that a discard put back |

| Action | Code |
|---|---|
| `Enable`, `Disable` | `prepare_operator_grant_tx` (`quota.rs` 157-214) with `commit_revision`, which enqueues the job in the same transaction |
| `Discard` | `discard_pending_changes` 7477-7612 |
| `Consume`, `Reset` | usage reaches the limit; a new cycle or a raised limit |
| `PlanQuotaEnforcement`, `ApplyQuotaChanges` | `plan_quota_enforcement` outside, `apply_quota_changes` inside the transaction (`quota.rs` 107-149, 390-464) |
| `SelectBatch`, `CreateGrantsOrder`, `Reschedule`, `FinishBatch` | `process_jobs_locked`, `create_automatic_grants_deployment` 963-1443, `reschedule`, `finish` (`grant_automation.rs`) |
| `WorkerDies`, `RunAfter` | the lock is released with the connection; `run_after` passes |
| `CreateConfigOrder`, `CancelOrder`, `RetryTarget` | as in `Deployment`, reduced to what the permission line sees |
| `Claim`, `Execute`, `Fail`, `Report` | poll, convergence, report with `refresh_deployment_status` and `activate_deployment_tx` |

Every configuration target replaces Xray and carries a list. Configuration
orders are for the newest revision and are planned and inserted in one step;
waves, isolation and lifecycle are `Deployment`'s. `Enable` leaves out the check that
the user's traffic allowance reaches the node (`check_node_tx`, `quota.rs` 177), so the
model enables in more states than the code.

### `AgentSpool` and `SpoolDelivery`

`AgentSpool` is the queue as operators over five variables (`queue`, `lines`,
`sent`, `dropped`, `torn`) for a descriptor `[max, keeps, terminal, unique]`: how deep
it is, whether a full queue refuses or drops its oldest line, whether a 4xx condemns a
line, whether an append looks for the same line first. `Push` is `spool_push_inner`;
`BeginRound`, `Acknowledged`, `Condemned` and `EndRound` are `spool_drain`, which reads
the file, sends without holding it, and afterwards removes the answered lines only if
the head is still what it read (`HeadUnchanged`). `CountLoss` is `bump_dropped`: the
file of the count is truncated, written and not synced, and its error ignored, so a
count may not be opened (it stays) or not be written (it reads as zero). `torn`
remembers that one did. `PushInterrupted` is an append that stops between the count
and the file, `RoundLost` a death of the agent, `PowerLost` one of the machine, after
which the count may be any older value while the queue, which is synced, stands.

`SpoolDelivery` puts a producer in front of it and a control plane behind it.
`Refuse` is a status that condemns the line; `Rebuff` one that condemns nothing, of a
queue whose `terminal_statuses` is empty: such a line is refused for ever. `Replay` is
the agent's crash recovery, which appends its last result once more (`unique`).
`UsageMetering` reuses the same operators for the usage spool. The detail queue's
merge at the tail (480-503) and its byte limit, which refuses like the line limit, are
left out.

### `UsageMetering` and `UsageLedger`

One counter of one machine from Xray to the books. With a journal
(`Journal = TRUE`) the counter outlives the process and all readings carry one
epoch; without one every process starts from zero in an epoch of its own.

| Variable | What it is |
|---|---|
| `xray`, `count`, `synced` | the process, the counter, what of it is certainly on disk |
| `now`, `console`, `clockSet` | the machine's wall clock, the control plane's, and (history) the directions the machine's was set in |
| `cursor`, `stopFile`, `worker` | the last reserved sequence, the stop checkpoint, how far the holder of the meter lock is |
| `idle` | the ends of confirmed downtime windows that no sample has carried yet |
| the five of `AgentSpool` | the usage spool |
| `head`, `receipts`, `expired`, `committed`, `booked` | the control plane's rows |
| `carried` | history: bytes that really passed |

`Sample`, `Stop`/`Terminate`/`Confirm`/`PushFinal` and
`Launch`/`Launched`/`LaunchTimesOut` are the agent's steps under the lock
(`accounting.rs`, `main.rs`), `Process` is `record_usage_report`
(`usage.rs` 1281-1815) as one transaction, `AgentDies`, `XrayDies`, `MachineDies`
and `ClockSet` are the faults. `ClockSet` moves the start of a running process too: the
kernel dates it from the same clock. `Process` refuses a reading that is `Misdated`
(read before its process started, 1292, or before the end of a downtime it carries,
1302), `Ahead` of the control plane's clock (1331), or `Behind` the cursor with its
receipt pruned (1394). The other refusals of the function cannot be met by what the
agent writes, or are about content the model does not have: non-positive timestamps,
more than 100000 counters or 64 windows, an empty epoch, an unknown usage generation
(1254), a sequence reused with other content (1377) and duplicate labels (1484). A
byte's value is a unit; ownership of labels is left out, except that a first reading
may count in full or as a baseline (`Policies`).

`UsageLedger` is what metering promises: bytes are carried, and the books move,
by exactly the difference, to a level the counter reached. `ImplementsLedger` is
the refinement with `level <- IF head = NoHead THEN -1 ELSE head.count`.

### `XrayHandoff`

| Variable | What it is |
|---|---|
| `gen` | the Xray processes in the order they were launched: image, alive, sealed (`ready`), admitting (`accepting`), carrying connections (`busy`), UDP given up (`dropped`), control channel lost (`silent`) |
| `live`, `backup` | the image at the managed path (xray.json, or the executable), and the previous one |
| `runtime`, `recovery` | `xray-upgrade.json` and `xray-crash-recovery.json` |
| `ex` | the executor on the main thread: step, the identities it remembers, rollback facts |
| `restart` | the step of the attempt to restart Xray that holds the lock |
| `kind`, `force` | configuration or binary release; may the old generation be retired at the deadline |
| `wanted`, `reports` | the image of the newest release; receipts of the binary release |

The executor's actions are the steps of `begin_config_handoff`
(`xrayupdate.rs` 3350-3765) and `perform_handoff_update_at_target` (3907-4502),
whose step order is the same but for when the image is replaced, and their
rollbacks. Its counterparts have no state of their own: the guard
(`guard_interrupted_handoff` 2029-2131, every second under the meter lock), the
recovery of the main loop (`recover_interrupted_handoff` 2521-2860) and the
restart (`crash_recovery.rs`). Each of their effects is an action whose guard is
what they find on disk and in the processes, so a failed call or a death between
two effects leaves exactly a prefix. The restart is the exception in form: it runs
under the lock from its checkpoint (`Checkpoint`) or a later attempt (`Retry`) to
`CloseRestart`, one effect per step of `restart`, and whatever fails or refuses lets
the lock go (`RestartFails`). Merged into one step are only the removal of the backup
with the removal or the receipt before it, and the two receipts of a failure with the
file beside them, both outcomes where a death in between shows. `LockFree` is the
meter lock. `Rpc` gives
each control call its three outcomes: answered, done but unanswered, not done;
the effects of the calls (`Paused`, `Resumed`, `Sealed`, `Detached`) are those of
Xray's listener group (`components/xray-core/transport/internet/tcp/handoff_linux.go`).

Left out: the restart fallback for machines whose Xray cannot hand over, the
back-off between restarts (it only delays), capability probes, listener sets, the
grants checkpoint, and a state file that cannot be written where the code ignores that
(`let _ = write_upgrade_runtime`).

### Bounds

`Max...` constants appear as guards only. `Commands` and `Faults` select which
operator commands and which faults an instance explores, so that each run can
afford the depth its question needs; no property mentions them.

## 3. Runs

| Run | Instance | States | Question |
|---|---|---|---|
| `wave_assignment` | 3 machines, every plan and every reference relation | 5.7 k | is the wave loop right, cycles included? |
| `waves` | 3 machines, one reference, one hot-swappable; 4 revisions, 3 orders | 90 k | order, confirmation, callers after listeners, serving, across failures, retries, halts and retirement |
| `isolation` | 2 machines; 2 revisions, 3 orders, 2 claims | 15 k | a machine isolated at any moment, its debt and its way back; stale plans |
| `lifecycle` | 2 machines; 3 revisions, 3 orders | 325 k | retirement, abandonment, repair, reactivation in mid-release, of isolated machines too |
| `liveness` | 2 machines; 2 revisions, 3 orders, both kinds | 11 k | does everything come to rest? |
| `spool` | 2 lines deep, 4 items, 2 deaths, power losses or failed writes, all three kinds of queue | 73 k | order, accounting of losses, progress |
| `metering` | spool 2 deep, 1 byte, 3 seconds, 4 sequences, 2 processes, 1 death or step of the clock | 2.57 M | is every byte booked at most once, what blocks the queue, do the books implement the ledger? |
| `grants` | 2 interchangeable machines, 3 edits, discards or faults, 1 configuration order | 1.07 M | is a permission change ever forgotten or undone? |
| `quota` | 1 machine, 4 edits or faults, 1 configuration order | 79 k | does a spent quota take effect? |
| `handoff` | 2 handoffs, 2 faults of any kind anywhere, 8 generations | 40 k | does service return, and is what was reported true? |
| `discarded` | 2 machines; edits, discards and 1 configuration order, no faults | violation | section 4 |
| `handoff_stranded` | 1 binary handoff, 1 fault | violation | section 4 |

**Why the bounds are enough.** In `Deployment` the rows of different machines meet
only in sets over the whole fleet (open targets, failed targets, covered
machines): one machine is the one something happens to, the other is the rest of
the fleet; waves and references need a third. Three revisions give an old, a
current and a newer desired state; three deployments give an order, the one that
replaces it and one more that could find what the first left behind. `waves` uses
`Requires = {<<n1, n2>>}`; `n3` can be hot-swapped, so its edits are not
disruptive and the confirmation gate has both cases to tell apart.
`wave_assignment` enumerates 2^3 x 2^3 choices of targets with every irreflexive
relation over them, which includes every two- and three-cycle and a cycle with a
tail.

In `spool` four items through a queue of two make it overflow while a round is
under way and again while the next one is; two faults are a count that fails and a
death that would need it, or an interrupted append and its replay. In `metering` two
processes with one stop between them, a spool that is full after two readings and four
sequences bring every reading (live, final, repeated before a launch) before and after
every other; one byte tells whether it was booked not at all, once or twice, and
the third second tells a window that is empty from one that is not. In `grants`
three edits give a disable, an enable and one fault or a third change, with one
configuration order beside whatever grants orders they lead to; jobs, batches
and grants orders are not bounded by themselves. `MaxGen` in `handoff` is never
reached: every behaviour of two handoffs with two faults ends below it.

### What the properties say

* `SingleFlight` - one open order per kind, by the checks of the transactions
  alone (the database also has a unique index; the model does not use it).
* `Truthful` - with no order out to a machine, its applied-state row is what the
  machine runs, or says it does not know.
* `OneDebt`, `LedgerTruthful` - the ledger of obligations: at most one current
  debt per machine and kind, and a closed release's settlement is what its
  obligations add up to, however late they are settled.
* `WaveOrder`, `DisruptionConfirmed`, `CallerWaits` - rollout order.
* `NoOrphanedDebt`, `IsolatedNotBlocking` - isolation is local: debt exists only
  where it can be delivered, and an isolated machine holds up nobody.
* `RetiredMeansOff` - retirement is proved, not assumed.
* `ServeWhatRuns` - an action property: when the pointer moves, the machines it
  speaks for run what it says. Checked only where a plan is inserted in the step that
  computes it and nobody is isolated; `SucceededIsRunning` (section 5) is what is left
  of it without these conditions.
* `ReleasesSettle`, `DebtIsWorkedOff` - liveness.
* `OperatorOwnsDisable` - a quota plan, however old, never restores a grant an
  operator disabled.
* `Remembered` - a machine whose list differs from the model's is behind a queued
  job, an order that will reach it with the newest list, one with the newest list
  that an operator canceled since the last change, or a configuration release the
  operator owes (its Xray state is not known, which excludes it from grants
  orders). Nothing is claimed while the newest revision is one that a discard put
  back; the next change, which queues a job again, ends that.
* `NeverBack` - an action property: an agent gives its machine a list that says
  something else than the model only while a newer job is queued, or when its
  order was canceled under its hands. The same exception for discards.
* `BaselineStands` - what the code says of that exception: the machines are already
  what the restored revision says, or on the way to it. Refuted by `discarded`.
* `QuotaBites` - liveness across commit, job, order and agent.
* `LossIsCounted` - a line that left unanswered was counted, unless the count itself
  failed, was cut short or went with the power (`torn`): the code cannot promise more.
* `InOrder`, `UnansweredStays` - first arrivals are in order, and nothing leaves the
  file but what was answered, condemned or overflowed.
* `QueueMoves` - liveness: every line leaves the file, unless one at or before it is
  refused for good in a queue whose statuses condemn nothing (the usage spool).
* `BookedOnce`, `ImplementsLedger` - the books.
* `OnlyExpiryOrClockBlocks` - what can put such a line into the usage spool: its
  receipt expired, or the machine's clock was set.
* `ServingMatchesDisk`, `OneServes`, `TruthfulReport`, `SessionsDrain` - the handoff, at
  rest and in its steps.
* `ServiceReturns` - some generation serves again and again, and a handoff whose drain
  may be forced ends, except where the code refuses for good: a restart whose
  checkpoint names other identities, whose image is nowhere, or that finds a process
  nobody registered (`Refusing`), and a candidate nobody registered before the old
  generation died (`Orphaned`).

### Fairness

* `Deployment`: an agent with something to claim eventually receives it, a
  started convergence ends, a spooled report is eventually delivered (the agent
  polls and drains in an endless loop with no give-up), and a request that has
  computed its plan either inserts it or is refused. Operators are never obliged
  to act, so `ReleasesSettle` is checked with `Unattended = TRUE`, the shipped
  default, and a halted release counts as at rest: only an operator resumes it.
* `GrantAutomation`: both workers run on timers, `run_after` passes, and agents
  poll for ever. Enabling, discarding and configuration are not fair.
* `SpoolDelivery`: weak fairness of the reporter's loop; strong fairness of an
  answered delivery (accepted or condemned) and of a completed round, that is, the
  network does not lose every request. A control plane that refuses a line of a queue
  that condemns nothing may do so for ever: no fairness excludes it, `QueueMoves` does.
  Nothing is asked of the producer.
* `XrayHandoff`: executor, guard and recovery keep running, and only their steps
  without a fault count (`UNCHANGED faults /\ ...`), so no fault has to happen;
  sessions never have to end, which is why the end of the handoff is promised
  only when the drain may be forced.

Deadlock is not checked in any run: a fleet in which nobody issues a command, or
whose bounds are used up, rests.

## 4. Disagreements between the code and its own documentation

### Shown by a run

1. `discarded`. A discard restores the snapshot of the newest order that took
   effect and asks for no new permission release, because "those are exactly the
   grants already represented by the published baseline" (7589-7591). It refuses
   only while an order *of the discarded revisions* is not canceled. A pending
   configuration order of an earlier revision may meanwhile have been rebased onto
   a discarded revision's list (1300-1336) and applied. In the trace: disable, plan
   a configuration order, enable (the job rebases the configuration target, no
   grants order is needed), the machine applies it, discard: the enabling revision
   is withdrawn, its job canceled, and the machine keeps the access.
   A second schedule needs no rebase: a revision is released by a configuration
   order to some machines only, its job is folded into one batch with a newer
   revision, and the batch's order is for the newer one. When that order is
   canceled and the newer revision discarded, the older job is done and the other
   machines never hear of it. Either lasts until the next permission change:
   `Remembered` and `NeverBack` therefore say nothing while the newest revision is
   one a discard put back (`restored`), and are checked and proved with discards at
   every other moment. `QuotaBites` is lost in the same way and is checked without
   discards.
2. `handoff_stranded`. The machine restarts after the candidate of a binary
   handoff is registered and before the managed executable is replaced. Both
   generations are dead; `begin_recovery` freezes the candidate's identity;
   `restore` verifies the managed executable, still the old one, against the
   candidate's digest (`crash_recovery.rs` 236) and fails on every retry; and as
   long as the checkpoint exists the ordinary guard does not start Xray.
   `docs/concepts.md` 83 promises that the agent restarts the approved
   configuration and executable locally when the candidate is unusable.

### Met while modelling

The following schedules are behaviours of the code that contradict a sentence of
the repository or a property above. None of them has a run of its own; each says
how to see it where the models contain it.

*Isolation and releases* (`Deployment`)

* `defer_listener_dependents` (357) defers a machine that is *not* isolated
  because the listener it dials is, and gives it an obligation that only the poll
  of an isolated machine reads; `pg_integration.rs` 24666-24668 states that a
  restored node is never left with such debt. `NoOrphanedDebt` therefore runs
  without references (set `Requires <- Reference` and `MaxRev = 3` in `isolation.cfg`).
* A lifecycle change looks at isolation only when the machine becomes active
  (780): retiring one machine plans a release that waits for another, isolated
  one, against `pg_integration.rs` 24263-24264. `IsolatedNotBlocking` runs without
  lifecycle commands (add `"retire"`
  to `liveness.cfg`, with `MaxRev = 3`).
* The failed debt of an isolated machine is written into the target row of its
  release (2847), so a healthy machine's next report halts it, against the same
  lines.
* Callers are deferred when a plan is inserted (351: "A caller must not move
  ahead when the listener it depends on cannot move"), not when the listener's
  machine is isolated later (3449). `CallerWaits` runs without `"isolate"`.
* `ServeWhatRuns` is checked without isolation and with planning and insertion in
  one step. A plan computed while another release is open may skip a machine that
  release is about to move; if that release is canceled before the insertion,
  single flight does not refuse the plan and a stale skip is served
  (`AtomicPlan = FALSE`). With `"isolate"`, a machine in debt may match an older
  revision that is released again and be skipped, then pay its debt. The comment
  in `serving.rs` (171-172) counts skipped targets as covered, which is what the
  code does. `create_deployment` also never compares its revision with the newest.
* A release halted by an operator has no resume operation, but isolating one of
  its machines or a late report brings it back to `running`; a halted release
  whose last open target succeeds stays halted when other targets were skipped or
  deferred; isolating a machine twice leaves the target of the replaced debt
  `superseded`; a report repeated after its target was retried and claimed again
  is accepted, because ordinary targets have no claim number (`Truthful`
  survives, since the report describes the machine as it is); a revoked agent's
  report is refused with 401 and repeated for ever.

*Permissions* (`GrantAutomation`)

* A dispatched target carries its frozen list even after a newer one was applied,
  so a machine does go back for a while; `NeverBack` asks for the repair that is on
  its way, not for monotonic lists.
* A batch older than the newest revision rebases pending configuration to its own,
  older list, also configuration planned after it; the newer job that is queued by
  then rebases it forward again. This is why `NeverBack` speaks of jobs.
* A batch that needs no order moves `served` to its revision directly, which may
  be older than what a configuration order that finishes later carried, or newer
  than what one still in flight will set; the pointer follows the last event.

*Spools and metering*

* `USAGE_SPOOL.terminal_statuses` is empty, so a reading whose receipt expired
  while it was queued is refused for ever and blocks the head of the queue. So is one
  dated before its process, which a clock set back between the stop and the report
  brings about, and one dated ahead blocks until the control plane's clock is there:
  a queued reading keeps its `read_at`, so neither does what `usage.rs` 1324-1326 says
  of the repair ("once NTP repairs the clock, a newer report can move the queue").
  `OnlyExpiryOrClockBlocks` says that nothing else does.
* "A drop must leave a durable, correctly classified trace" (`spool.rs` 513): the trace
  is `bump_dropped` (182-188), a truncation and a write without a sync whose error is
  ignored. A death inside it, a full disk or a power loss forgets the count, earlier
  losses included, while the queue is synced without the dropped line. Hence `~torn`
  in `LossIsCounted`.
* Without a journal a process is named by its start as the kernel dates it, so a step
  of the clock renames it: the next reading opens an epoch and books its whole count
  again.
* `spool.rs` 38-39 says conflicts are deliberately absent from the terminal
  statuses; the observation spool lists 409.
* Without a journal, a launch whose listener does not answer in time leaves the
  checkpoint of the last stop; a later launch reports it again after readings of
  the newer process, and its bytes are booked twice (`Journal = FALSE` violates
  `BookedOnce`), although `accounting.rs` 491-493 says that "an undelivered tail
  can only be booked once". The run and the proofs of `BookedOnce` and
  `ImplementsLedger` are therefore about the journal.

*Handoff.* Faults are everywhere in the passing run; what follows is why
`ServiceReturns` has exceptions, and what the other properties do not promise.

* The schedule of `handoff_stranded`, and others that leave a checkpoint whose
  executable is nowhere: a candidate that crashes before the replacement while one
  status reply is lost. `restore` refuses on every retry (`Refusing`).
* The agent dies between launching a candidate and registering it, and then the
  old generation dies: the unregistered candidate counts as a running Xray, and
  nobody starts another (1843-1856; `Orphaned`).
* A restart of unresponsive generations that is cut short after the relaunch and
  before its checkpoint is removed: the new process is refused as unregistered on
  every retry (`crash_recovery.rs` 277-283, against the comment at 307-308;
  `Refusing`). So is a checkpoint whose identities differ from the state file's.
* The rollback of a binary handoff that finds its candidate admitting connections
  writes the state file without the drain deadline (`xrayupdate.rs` 4539). A release
  that asked for a forced retirement then waits for the last session of the old
  generation (1897-1915), as long as that lasts. `RollbackCandidate` clears `force`
  there, and the second part of `ServiceReturns` says nothing of a handoff that may
  not be forced.
* An executor that is about to pause the old generation (it does not hold the lock
  yet) goes on over a checkpoint that a loss of control wrote meanwhile. A third fault
  may then make it undo a release that was recorded as a success: `TruthfulReport`
  fails with three faults on that interleaving and on no other.
* `OneServes` and `ServingMatchesDisk` hold with five faults (2.3 M states), and, like
  `SessionsDrain`, with three faults in three handoffs.

Further: a process that was relaunched and then falls silent cannot be adopted;
a machine that dies between the writing of xray.json and the registration loses
the backup that a rollback would need; two unanswered calls may roll the file of a
configuration handoff back while the candidate serves (a third may then keep that
older file through the next handoff), which is why `ServingMatchesDisk` lets a newer
configuration run beside an older file and not the reverse; `handoff_dirty_failure`
may rewrite the state file from memory after the guard removed it; and a poll for a release that starts in between
(`xrayupdate.rs` 3007-3010) can report the machine's own update as unverified.

## 5. Proofs

| Module | Theorem | Property |
|---|---|---|
| `WaveAssignmentProofs` | `TypeCorrect`, `ListenersGoFirst`, `CanaryGoesAlone`, `DisableGoesAlone`, `LoopAdvances` | `TypeOK`, `ListenersFirst`, `CanaryAlone`, `DestructiveAlone` |
| `DeploymentProofs` | `TypeCorrect`, `OneOpenOrderPerKind`, `AppliedStateTruthful`, `SettlementFollowsDebt`, `AtMostOneDebt`, `WavesInOrder`, `WavesConfirmed`, `RetiredIsOff` | `TypeOK`, `SingleFlight`, `Truthful`, `LedgerTruthful`, `OneDebt`, `WaveOrder`, `DisruptionConfirmed`, `RetiredMeansOff` |
| `DeploymentCases` | `DebtIsDeliverable`, `IsolationNeverBlocks`, `SucceededIsRunning` | `NoOrphanedDebt`, `IsolatedNotBlocking`, and one of its own |
| `GrantAutomationProofs` | `TypeCorrect`, `OperatorKeepsDisable`, `NothingForgotten`, `StaleIsRepaired` | `TypeOK`, `OperatorOwnsDisable`, `Remembered`, `NeverBack` |
| `SpoolDeliveryProofs` | `TypeCorrect`, `FirstArrivalsInOrder`, `OnlyOverflowLoses`, `EveryLossCounted` | `TypeOK`, `InOrder`, `UnansweredStays`, `LossIsCounted` |
| `UsageMeteringProofs` | `TypeCorrect`, `JournalBooksOnce`, `JournalImplementsLedger`, `HeadNeverStuck` | `TypeOK`, `BookedOnce`, `ImplementsLedger`, `OnlyExpiryOrClockBlocks` |
| `XrayHandoffProofs` | `TypeCorrect`, `SessionsAreKept` | `TypeOK`, `SessionsDrain` |

All are theorems about the specification for every value of the constants. Their
only assumptions are the ones on the constants (`NodeAssumption`: a finite fleet
with a strict ranking; `FleetAssumption`, `GrantAssumption`, `SpoolsAssumption`,
`UsageAssumption`, `HandoffAssumption`: types of the parameters), `Journal` where
the theorem's name says so, for the wave loop that references have no cycle, and
the condition each theorem of `DeploymentCases` states. Faults happen in any number
and order.

**`WaveAssignmentProofs`.** None of the properties is inductive. `IInv` adds what
the loop keeps: waves already given lie below the next one (`WavesPast`), the
canary flag is exactly "nothing replaced yet" (`CanaryExact`), assigned
prerequisites precede (`Ordering`), and the two facts about shared waves
(`ApplyInOrder`, `DisablesAlone`). The key lemma is `ReadyExists`: with a layering
of the references, the remaining machine of the lowest layer waits for nobody, so
the cycle breaker is never reached. `NumberLemmas` provides the extremal elements.

**`DeploymentProofs`.** The inductive invariant is `RevisionsOK` (the history is a
non-empty sequence of well-typed revisions), `DeploymentsOK` (the table is well
typed, every deployment names an existing revision (`Dated`), single flight
(`Single`), and every *dispatched* target carries its frozen list (`Frozen`),
without which the replayed claim of a lost answer would hand out NULL), and
`NodesOK`, `DraftOK`, `MachinesOK`. The argument for single flight is organised
around `Keeps(dp, dq)`: a rewrite of the table that keeps kinds and revisions and
opens nothing that was closed. Refreshing, obliging, superseding, detaching,
settling, canceling and closing epochs all have this shape (one lemma each), and
`Keeps` is transitive, so each transaction is a chain of lemmas. Only two
transactions append. `CreateFromPlan` has the guard `~Flying`; `Replan` has none,
but it cancels every open order first, so the order it inserts is alone.

The other six theorems rest on a second invariant, `Safe`, of three parts. None of
the six properties is inductive; each part says what they leave out.

* `Sound` is about rows. `Columns` ties the two columns of a target together: open
  debt is `deferred` or `superseded` debt, failed debt is a failed target. Without
  it a retry could put a machine in debt back into its wave. `Ordered` is the wave
  order over everything *unsettled*, failed targets included, because a retry
  makes them open again; `Resumed` says that a release with a failed target that
  runs again (a retry put one of several back) has an open target in that wave or
  an earlier one, so the current wave cannot pass it. `Alone` is one debt per
  machine, kind and *epoch*, old ones included. `Held`: debt that went out or
  failed belongs to a machine that is isolated and active, in its current epoch,
  which is why restoring service or a lifecycle change leaves none behind.
* `Believes` is `Truthful` with its middle: either the row of a machine is right or
  `Unsure`, or an order is out with it; and what an agent works on is out, or the
  row is already marked. A spooled observation is what the machine runs.
* `Off` says that a proved retirement runs nothing, and that a machine that left
  service is torn down in the newest revision. The lifecycle skips the teardown
  order of a machine it believes to be off, so this part needs `Believes`.

Transactions carry the parts the way they carry `Keeps`: `Quiet` (targets and debt
only withdraw: deferred, superseded, canceled), `Steady` (nothing left its wave in
a release that runs), `Owes` (who got new debt), `Covered` (every order that was
out is still out or its machine is marked) and `SameMachines`. Refresh, oblige,
detach, cancel and the closing of an epoch have one lemma for each, the relations
are transitive, and `QuietSound` and `CoveredBelieves` conclude. Claims, retries
and reports, which advance a single target, are argued row by row.

**`DeploymentCases`.** Three theorems need a condition; section 4 names the schedule
that breaks the first two without theirs.

* `DebtIsDeliverable` (`Requires = {}`): all debt is owed by isolated machines, and
  by active ones in their current epoch (`Owed`). Without references the fixed
  point of `DeferredBy` is the isolated targets themselves (`OnlyIsolatedDeferred`),
  for which the fixed point needs no induction: that set is closed, and it is the
  least one.
* `IsolationNeverBlocks` (no `"retire"`): no *unsettled* target of an open release
  belongs to an isolated machine (`Clear`), since a failed one may be retried.
  `Leaves` says that a step reopens no release and brings no target back.
* `SucceededIsRunning` (`Requires = {}`): when the pointer moves to a release, every
  machine that the release counts as succeeded runs its configuration. Plans may be
  inserted late, machines isolated, retired, re-planned and retried in between; the
  machines that the planner skipped are not claimed, because a stale plan may skip
  wrongly. `Answered` is the invariant: what an open configuration order was told has
  succeeded runs, and no agent is about to change that configuration (`Landed`), nor
  is anything else due there - no debt at an active machine, nothing dispatched to an
  isolated one (`Concluded`). Together with single flight and `Believes` this makes
  the accepted report the last word until the order closes. It is about reports that
  come late and repeated, the half of `ServeWhatRuns` that does not depend on when the
  plan was computed.

**`GrantAutomationProofs`.** Everything that names a revision (jobs, the batch,
targets, frozen lists, agents, the serving pointer) names one that exists, which
needs that batches come from jobs, that a dispatched target is frozen, and that an
agent's order is in the table. `OperatorOwnsDisable` is inductive together with
the fact that a suspension is not owned while the operator's disable stands.

`Remembered` and `NeverBack` rest on one more invariant, `Story`, with a part for
each way a change could get lost:

* `Headed` - while anything is queued the newest revision is, and a batch is the
  older end of the queue; so a batch whose jobs are all the queue has answered for
  the newest revision. A discard breaks exactly this: it takes jobs out and adds a
  revision without one. The parts about the newest revision are therefore claimed
  while `restored` is false, and `CommitStory` shows that the next commit
  establishes them again whatever the discard left behind.
* `Sealed` - what is frozen is what is handed out, with the list it is planned
  with; so what a batch defers to is what the agent will apply.
* `InTurn` - grants orders follow each other, and none for an older revision comes
  after one for the newest, because a batch is then for the newest too: the same
  revision and plan find the same order again, and an open order is the last.
* `Working` - an agent works on what it was handed, for an order that waits for its
  report, or for one that was canceled and left the machine unknown.
* `SeenTruly` - what a machine was last seen with is what it has, unless a report
  of it is still to come; the plan of a batch trusts this column.
* `Provided` - once the newest revision is answered (or an order for it names the
  machine), nothing unfinished brings the machine other permissions (`Agreed`), and
  it has them, or an order that will bring them, or a reason not to (`Cared`).

Crashes of the worker only forget a batch that is still queued (`ReturnStory`). The
step that needs every part is `CreateGrantsOrder` (`RebaseStory`): the machines that
differ are planned or already were, pending configuration is taken along, and no
configuration that is out may say something else, or the batch has to wait.

**`SpoolDeliveryProofs`.** `Ordered` is the invariant: the file always holds the
newest items without a gap, the lines of a round are a gapless run, and whatever
is in either of them and older than something accepted is itself accepted or
refused. From that, first arrivals are in order, and a comparison of heads that
succeeds removes only what was answered. For the count, `GivenUp`, the items that
left unanswered together with the condemned ones, grows in a step by at most the one
item that `dropped` counts, as long as no count is `torn` (`OneCounted`, with
`FiniteSetTheorems` for the cardinalities).

**`UsageMeteringProofs`.** `Shapes` types the records. `Journaled` says that with a
journal every reading anywhere (file, round, checkpoint, head) has epoch 0 and a
count that was carried, and that the books hold at most the head's count; a step of
the books is then a step of the ledger. `Clear` is about numbers: the file is in
the order of its sequences and a round is a prefix of it, every sequence in it was
reserved, a sequence in hand is newer than all of them, and what the books have
passed they have answered or expired. `Dates` is about clocks: as long as the machine's
was not set back nothing on disk is dated after it and every reading is dated after the
start of its process and the downtimes it carries; as long as it was not set ahead it
is not ahead of the control plane's.

**`XrayHandoffProofs`.** `Gens` and `Small` type the processes and the rest;
`Named` says that the files and the executor name launched generations; `Agreed`,
that whoever holds an identity of the old generation holds the same one, so that
executor, guard and recovery never act on two different ones; `Backed`, that a
rollback that needs the backup finds it; `Drained`, that the executor drains only a
generation that gave up UDP and retires it only when it may. `Evolves` says that no
process is forgotten, revived or renamed. `SessionsDrain` follows action by action:
each termination is of a generation that is drained, forced, lost or never admitted
anybody.

**Only model-checked**: the cyclic cases of the wave loop
(`OnlyCyclesTogether`) and its agreement with `AssignWaves`
(`ComputesAssignWaves`, a recursive function over data, out of reach of the
available provers), hence also `CallerWaits`, which needs that the waves a release
is planned with put listeners first; `ServeWhatRuns`, of which `SucceededIsRunning` is
the part that needs no condition on when plans are inserted; what holds of a handoff at
rest (`ServingMatchesDisk`, `OneServes`, `TruthfulReport`); all liveness
(`ReleasesSettle`, `DebtIsWorkedOff`, `QuotaBites`, `QueueMoves`, `ServiceReturns`), which needs fairness and `ENABLED`.

## 6. Not modelled, and why

* *Rollback* (1574-1708): a release of an old revision that cancels what is open
  first. Both halves are modelled, their combination is not.
* *Re-signing node environments* (6150 ff., 2913-3018): a second kind of work
  handed out beside releases that touches no order.
* *Isolation in the permission line*: automatic orders leave obligations to
  isolated machines (1067-1259). `Deployment` has isolation with operator-made
  grants orders, `GrantAutomation` the automation without isolation; the product
  of the two is beyond TLC at sizes where both matter.
* *Ownership of usage*: several labels, owners and usage generations, the switch
  from a journal back to none, zero windows, site usage, roll-ups. They are
  arithmetic per label on top of the readings modelled here.
* *The console's binary and Xray rollout* (`binary_release.rs`,
  `xray_release.rs`) and the agent's poll for it: a state machine of attempts that
  meets the rest through one report per attempt. `XrayHandoff` is its executor.
* *The restart fallback* of an Xray update (4642-4870) on machines whose Xray
  cannot hand over: stop, replace, start.
* *Bootstrap of new machines, VPN Gate*: conversations with systems outside.
* *Compiler, probes, console, frontend, data plane*: pure functions, rendering, or
  input and output.

## 7. Plan

Done: `Waves`, `WaveAssignment`, `Deployment`; `AgentSpool`, `SpoolDelivery`;
`UsageMetering` with its refinement of `UsageLedger`; `GrantAutomation`;
`XrayHandoff`; the proofs of section 5. Next, in this order:

1. Proofs of `OneServes` and `ServingMatchesDisk`: at rest they follow from an
   invariant that says, for every step of executor and restart, which generations may
   answer and which image each of them runs.
2. `Rollback` and re-signing as further actions of `Deployment`. Properties: a
   rollback leaves no order of the future behind; a re-sign report settles no
   order.
3. `BinaryRelease`: frozen builds, claims, timeouts and attempts, with
   `XrayHandoff`'s reports as its input. Property: an attempt that timed out
   cannot settle the one that replaced it.
4. `Release`: what one release promises (an ordered, confirmed rollout of one
   revision), with `Deployment` shown to implement it by a refinement mapping.
