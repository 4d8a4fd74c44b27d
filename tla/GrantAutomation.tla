-------------------------- MODULE GrantAutomation --------------------------
(***************************************************************************)
(* The permission line: operators and the quota worker grant and revoke a  *)
(* user's access, every change leaves a durable job, one worker folds the  *)
(* queued jobs into grants orders beside the configuration orders in       *)
(* flight, agents execute both, and the serving pointer follows.           *)
(*                                                                         *)
(* A permission list is named by the revision it was projected from, and   *)
(* its content is whether the metered user has access in that revision.    *)
(* Every configuration target replaces Xray and therefore carries a list;  *)
(* waves, isolation and lifecycle are the Deployment module's business.    *)
(***************************************************************************)
EXTENDS Integers, Sequences, FiniteSets

CONSTANTS
    Node,       \* the machines
    Commands,   \* the operator commands and faults this instance explores
    MaxEdits,   \* bound: what operators, billing cycles and faults do
    MaxConfig   \* bound: configuration orders

ASSUME GrantAssumption == MaxEdits \in Nat /\ MaxConfig \in Nat

VARIABLES
    perm,       \* per revision: does the user have access
    quota,      \* is it spent, does the quota worker own a suspension, its plan
    disabled,   \* history: the operator's last word was to disable the grant
    withdrawn,  \* history: where an order with the newest permissions was canceled
    restored,   \* history: the newest revision was put back by a discard
    jobs,       \* queued jobs: revision and whether it is due
    worker,     \* the holder of the worker lock
    orders,     \* the deployments, by id
    machine,    \* the list a machine holds, the one it was last seen with, is Xray's state known
    agent,      \* what each agent is working on
    served,     \* permissions_revision_id of the serving state
    edits       \* how much of MaxEdits is used

modelVars == <<perm, quota, disabled, withdrawn, restored>>
vars == <<modelVars, jobs, worker, orders, machine, agent, served, edits>>

Unsure == -1
Null == -2      \* dispatched_grants IS NULL

Latest == Len(perm)
Open(d) == orders[d].status \in {"planned", "running", "halted"}
Same(r, s) == perm[r] = perm[s]
Newest(S) == CHOOSE r \in S : \A s \in S : s <= r

Free == [pc |-> "idle", batch |-> {}, order |-> 0, verdict |-> "none"]
Resting == [pc |-> "idle", order |-> 0, list |-> 0]
NoTarget == [st |-> "none", gr |-> 0, fz |-> Null]

Init ==
    /\ perm = <<TRUE>>
    /\ quota = [spent |-> FALSE, suspended |-> FALSE, plan |-> "none"]
    /\ disabled = FALSE
    /\ withdrawn = {}
    /\ restored = FALSE
    /\ jobs = {}
    /\ worker = Free
    /\ orders = <<[kind |-> "config", rev |-> 1, status |-> "succeeded", active |-> TRUE,
                   proof |-> FALSE, planned |-> Node,
                   tgt |-> [n \in Node |-> [st |-> "succeeded", gr |-> 1, fz |-> Null]]]>>
    /\ machine = [n \in Node |-> [list |-> 1, seen |-> 1, clean |-> TRUE]]
    /\ agent = [n \in Node |-> Resting]
    /\ served = 1
    /\ edits = 0

Spends(command) ==
    /\ command \in Commands
    /\ edits < MaxEdits
    /\ edits' = edits + 1

---------------------------------------------------------------------------
\* Editing the model.  A commit and its job are one transaction.

\* Mutant of Commit: a commit that changes nothing leaves a job for the next revision.
CommitAlways(access) ==
    /\ perm' = IF perm[Latest] = access THEN perm ELSE Append(perm, access)
    /\ withdrawn' = IF perm[Latest] = access THEN withdrawn ELSE {}
    /\ restored' = (restored /\ perm[Latest] = access)
    /\ jobs' = jobs \cup {[rev |-> Latest + 1, due |-> TRUE]}

Commit(access) ==
    IF perm[Latest] = access THEN UNCHANGED <<perm, withdrawn, restored, jobs>>
    ELSE /\ perm' = Append(perm, access)
         /\ withdrawn' = {}
         /\ restored' = FALSE
         /\ jobs' = jobs \cup {[rev |-> Latest + 1, due |-> TRUE]}

\* An operator may not enable a grant whose quota is spent.
Enable ==
    /\ Spends("operator")
    /\ ~quota.spent
    /\ ~perm[Latest]
    /\ Commit(TRUE)
    /\ quota' = [quota EXCEPT !.suspended = FALSE]
    /\ disabled' = FALSE
    /\ UNCHANGED <<worker, orders, machine, agent, served>>

\* Disabling takes the suspension over, even when the grant is gone already.
Disable ==
    /\ Spends("operator")
    /\ ~disabled
    /\ Commit(FALSE)
    /\ quota' = [quota EXCEPT !.suspended = FALSE]
    /\ disabled' = TRUE
    /\ UNCHANGED <<worker, orders, machine, agent, served>>

\* The baseline of a discard is the newest order that took effect.
Published ==
    LET done == {d \in DOMAIN orders : orders[d].status = "succeeded" /\ orders[d].active}
    IN  orders[CHOOSE d \in done : \A e \in done : e <= d].rev

\* Unpublished revisions are taken back: their content is restored under a new
\* number, their jobs are canceled, and the worker lock is held meanwhile.  The
\* baseline is read before the transaction: one that a newer success has overtaken
\* is refused, because that success is then among the revisions it would discard.
Discard ==
    /\ Spends("discard")
    /\ worker.pc = "idle"
    /\ Published < Latest
    /\ \A d \in DOMAIN orders :
          orders[d].rev \in Published + 1 .. Latest => orders[d].status = "canceled"
    /\ perm' = Append(perm, perm[Published])
    /\ jobs' = {j \in jobs : j.rev <= Published}
    /\ disabled' = FALSE
    /\ withdrawn' = {}
    /\ restored' = TRUE
    /\ UNCHANGED <<quota, worker, orders, machine, agent, served>>

---------------------------------------------------------------------------
\* The quota worker: its plan is read outside the transaction that applies it.

Consume ==
    /\ Spends("quota")
    /\ ~quota.spent
    /\ \E n \in Node : perm[machine[n].list]
    /\ quota' = [quota EXCEPT !.spent = TRUE]
    /\ UNCHANGED <<perm, disabled, withdrawn, restored, jobs, worker, orders, machine, agent,
                   served>>

\* A new billing cycle, or a raised limit.
Reset ==
    /\ Spends("quota")
    /\ quota.spent
    /\ quota' = [quota EXCEPT !.spent = FALSE]
    /\ UNCHANGED <<perm, disabled, withdrawn, restored, jobs, worker, orders, machine, agent,
                   served>>

PlanQuotaEnforcement ==
    /\ quota.plan = "none"
    /\ \E plan \in {"suspend", "restore"} :
          /\ plan = "suspend" => quota.spent /\ perm[Latest]
          /\ plan = "restore" => ~quota.spent /\ quota.suspended
          /\ quota' = [quota EXCEPT !.plan = plan]
    /\ UNCHANGED <<perm, disabled, withdrawn, restored, jobs, worker, orders, machine, agent,
                   served, edits>>

\* Mutant of ApplyQuotaChanges: the plan is applied as it was read.
ApplyStalePlan ==
    /\ quota.plan # "none"
    /\ Commit(quota.plan = "restore")
    /\ quota' = [quota EXCEPT !.plan = "none", !.suspended = quota.plan = "suspend"]
    /\ UNCHANGED <<disabled, worker, orders, machine, agent, served, edits>>

\* Only who really removed the grant owns the suspension, and only an owned
\* suspension is restored: both are read again under the model lock.
ApplyQuotaChanges ==
    /\ quota.plan # "none"
    /\ LET suspends == quota.plan = "suspend" /\ quota.spent /\ perm[Latest]
           restores == quota.plan = "restore" /\ ~quota.spent /\ quota.suspended
       IN  /\ IF suspends THEN Commit(FALSE)
              ELSE IF restores THEN Commit(TRUE)
              ELSE UNCHANGED <<perm, withdrawn, restored, jobs>>
           /\ quota' = [quota EXCEPT !.plan = "none",
                                     !.suspended = suspends \/ (@ /\ ~restores)]
    /\ UNCHANGED <<disabled, worker, orders, machine, agent, served, edits>>

---------------------------------------------------------------------------
\* The worker.  Its lock is held from the selection to the settlement, each of
\* which is a transaction of its own, and is released when its process dies.

\* Once one job is due the whole queue is taken.
SelectBatch ==
    /\ worker.pc = "idle"
    /\ \E j \in jobs : j.due
    /\ worker' = [Free EXCEPT !.pc = "plan", !.batch = {j.rev : j \in jobs}]
    /\ UNCHANGED <<modelVars, jobs, orders, machine, agent, served, edits>>

Revision == Newest(worker.batch)

\* The unfinished target of the active configuration order.
ConfigTarget(d, n) ==
    /\ Open(d)
    /\ orders[d].kind = "config"
    /\ orders[d].tgt[n].st \in {"pending", "dispatched", "failed"}

\* Handed to an agent, hence immutable.
Frozen(d, n) ==
    orders[d].tgt[n].st = "dispatched" \/ orders[d].tgt[n].fz # Null

FrozenList(d, n) ==
    IF orders[d].tgt[n].fz # Null THEN orders[d].tgt[n].fz ELSE orders[d].tgt[n].gr

\* Machines with a known running Xray that was not seen with the list of r.
Differing(r) ==
    {n \in Node : machine[n].clean /\ (machine[n].seen = Unsure \/ ~Same(machine[n].seen, r))}

Deferred(r) ==
    {n \in Node : \E d \in DOMAIN orders :
        /\ ConfigTarget(d, n)
        /\ Frozen(d, n)
        /\ n \in Differing(r) \/ ~Same(FrozenList(d, n), r)}

\* Mutant of Rebased: pending configuration keeps the list it was planned with.
RebasedNever(r) == orders

\* Pending configuration takes the newest list along.
Rebased(r) ==
    [d \in DOMAIN orders |-> [orders[d] EXCEPT !.tgt = [n \in Node |->
        IF ConfigTarget(d, n) /\ ~Frozen(d, n)
        THEN [@[n] EXCEPT !.gr = r] ELSE @[n]]]]

GrantsOrder(r, S) ==
    [kind |-> "grants", rev |-> r, status |-> "planned", active |-> FALSE,
     proof |-> FALSE, planned |-> S,
     tgt |-> [n \in Node |-> IF n \in S THEN [st |-> "pending", gr |-> r, fz |-> Null]
                             ELSE NoTarget]]

\* The same revision and the same plan name the same order, whatever became of it.
Existing(r, S) ==
    {d \in DOMAIN orders : /\ orders[d].kind = "grants"
                           /\ orders[d].rev = r
                           /\ orders[d].planned = S}

ActiveGrants == {d \in DOMAIN orders : Open(d) /\ orders[d].kind = "grants"}

Settling(order, verdict) ==
    worker' = [worker EXCEPT !.pc = "settle", !.order = order, !.verdict = verdict]

\* create_automatic_grants_deployment, one repeatable-read transaction.
CreateGrantsOrder ==
    LET r       == Revision
        later   == Deferred(r)
        plan    == Differing(r) \ later
        verdict == IF later = {} THEN "finish" ELSE "wait"
    IN  /\ worker.pc = "plan"
        /\ \/ /\ plan # {}
              /\ \E d \in Existing(r, plan) : Settling(d, verdict)
              /\ orders' = Rebased(r)
           \/ /\ plan = {} \/ Existing(r, plan) = {}
              /\ ActiveGrants # {}
              /\ Settling(0, "wait")
              /\ UNCHANGED orders
           \/ /\ ActiveGrants = {}
              /\ plan = {}
              /\ Settling(0, verdict)
              /\ orders' = Rebased(r)
           \/ /\ ActiveGrants = {}
              /\ plan # {}
              /\ Existing(r, plan) = {}
              /\ Settling(Len(orders) + 1, verdict)
              /\ orders' = Append(Rebased(r), GrantsOrder(r, plan))
        /\ UNCHANGED <<modelVars, jobs, machine, agent, served, edits>>

\* Mutant of Reschedule: a batch that has to wait is forgotten.
RescheduleDropping ==
    /\ worker.pc = "settle"
    /\ worker.verdict = "wait"
    /\ jobs' = {j \in jobs : j.rev \notin worker.batch}
    /\ worker' = Free
    /\ UNCHANGED <<modelVars, orders, machine, agent, served, edits>>

\* The batch goes back to the queue, not yet due.
Reschedule ==
    /\ worker.pc = "settle"
    /\ worker.verdict = "wait"
    /\ jobs' = {[j EXCEPT !.due = @ /\ j.rev \notin worker.batch] : j \in jobs}
    /\ worker' = Free
    /\ UNCHANGED <<modelVars, orders, machine, agent, served, edits>>

\* The jobs succeed, and their order -- or that none is needed -- is now the
\* proof that the whole fleet has this permission state.
FinishBatch ==
    /\ worker.pc = "settle"
    /\ worker.verdict = "finish"
    /\ jobs' = {j \in jobs : j.rev \notin worker.batch}
    /\ IF worker.order = 0
       THEN served' = Revision /\ UNCHANGED orders
       ELSE LET d    == worker.order
                late == orders[d].status = "succeeded" /\ ~orders[d].active
            IN  /\ orders' = [orders EXCEPT ![d].proof = TRUE, ![d].active = @ \/ late]
                /\ served' = IF late THEN orders[d].rev ELSE served
    /\ worker' = Free
    /\ UNCHANGED <<modelVars, machine, agent, edits>>

WorkerDies ==
    /\ Spends("crash")
    /\ worker.pc # "idle"
    /\ worker' = Free
    /\ UNCHANGED <<modelVars, jobs, orders, machine, agent, served>>

RunAfter ==
    /\ \E j \in jobs : /\ ~j.due
                       /\ jobs' = (jobs \ {j}) \cup {[j EXCEPT !.due = TRUE]}
    /\ UNCHANGED <<modelVars, worker, orders, machine, agent, served, edits>>

---------------------------------------------------------------------------
\* Configuration orders and what operators do to orders.

CreateConfigOrder(S) ==
    /\ "config" \in Commands
    /\ Cardinality({d \in DOMAIN orders : orders[d].kind = "config"}) <= MaxConfig
    /\ \A d \in DOMAIN orders : orders[d].kind = "config" => ~Open(d)
    /\ {n \in Node : ~machine[n].clean} \subseteq S
    /\ orders' = Append(orders,
          [kind |-> "config", rev |-> Latest, status |-> "planned", active |-> FALSE,
           proof |-> FALSE, planned |-> S,
           tgt |-> [n \in Node |-> IF n \in S THEN [st |-> "pending", gr |-> Latest, fz |-> Null]
                                   ELSE [NoTarget EXCEPT !.st = "skipped"]]])
    /\ UNCHANGED <<modelVars, jobs, worker, machine, agent, served, edits>>

\* An order that will bring machine n the newest permissions.
Delivers(d, n) ==
    /\ Open(d)
    /\ orders[d].tgt[n].st \in {"pending", "dispatched", "failed"}
    /\ Same(orders[d].tgt[n].gr, Latest)

Canceled(tgt) ==
    [n \in Node |-> [tgt[n] EXCEPT
        !.st = IF @ \in {"pending", "dispatched"} THEN "canceled" ELSE @,
        !.fz = Null]]

\* A cancel leaves machines whose agent is executing in an unknown state.
CancelOrder(d) ==
    /\ Spends("cancel")
    /\ Open(d)
    /\ orders' = [orders EXCEPT ![d].status = "canceled",
                                ![d].tgt = Canceled(orders[d].tgt)]
    /\ machine' = [n \in Node |->
          IF orders[d].tgt[n].st # "dispatched" THEN machine[n]
          ELSE [machine[n] EXCEPT !.seen = Unsure,
                                  !.clean = @ /\ orders[d].kind = "grants"]]
    /\ withdrawn' = withdrawn \cup {n \in Node : Delivers(d, n)}
    /\ UNCHANGED <<perm, quota, disabled, restored, jobs, worker, agent, served>>

Retried(order, n) ==
    [order EXCEPT !.status = "running", !.tgt[n].st = "pending", !.tgt[n].fz = Null]

RetryTarget(d, n) ==
    /\ orders[d].status = "halted"
    /\ orders[d].tgt[n].st = "failed"
    /\ orders' = [orders EXCEPT ![d] = Retried(orders[d], n)]
    /\ UNCHANGED <<modelVars, jobs, worker, machine, agent, served, edits>>

---------------------------------------------------------------------------
\* Agents.  A poll is answered with one order: configuration already handed
\* out first, then permissions, then pending configuration.

Offers(n) ==
    {d \in DOMAIN orders : /\ orders[d].status \in {"planned", "running"}
                           /\ orders[d].tgt[n].st \in {"pending", "dispatched"}}

Precedence(d, n) ==
    IF orders[d].kind = "grants" THEN 1
    ELSE IF orders[d].tgt[n].st = "dispatched" THEN 0 ELSE 2

HandedOut(order, n, list) ==
    [order EXCEPT !.status = "running", !.tgt[n].st = "dispatched", !.tgt[n].fz = list]

\* The answer may be lost; the replay repeats the frozen list.
Claim(n, lost) ==
    /\ lost => "lose" \in Commands
    /\ agent[n].pc = "idle"
    /\ \E d \in Offers(n) :
          LET t    == orders[d].tgt[n]
              list == IF t.st = "pending" THEN t.gr ELSE t.fz
          IN  /\ \A e \in Offers(n) : Precedence(d, n) <= Precedence(e, n)
              /\ orders' = [orders EXCEPT ![d] = HandedOut(orders[d], n, list)]
              /\ agent' = IF lost THEN agent
                          ELSE [agent EXCEPT ![n] = [pc |-> "work", order |-> d, list |-> list]]
    /\ UNCHANGED <<modelVars, jobs, worker, machine, served, edits>>

Execute(n) ==
    /\ agent[n].pc = "work"
    /\ machine' = [machine EXCEPT ![n].list = agent[n].list]
    /\ agent' = [agent EXCEPT ![n].pc = "applied"]
    /\ UNCHANGED <<modelVars, jobs, worker, orders, served, edits>>

\* The old list is back, or nobody knows what the machine holds.
Fail(n) ==
    /\ Spends("fail")
    /\ agent[n].pc = "work"
    /\ \/ /\ agent' = [agent EXCEPT ![n].pc = "recovered"]
          /\ UNCHANGED machine
       \/ /\ agent' = [agent EXCEPT ![n].pc = "dirty"]
          /\ \E list \in {machine[n].list, agent[n].list} :
                machine' = [machine EXCEPT ![n].list = list]
    /\ UNCHANGED <<modelVars, jobs, worker, orders, served>>

\* What the order becomes when machine n's target does.
Refreshed(d, n, st) ==
    LET tgt  == [orders[d].tgt EXCEPT ![n].st = st, ![n].fz = Null]
        left == {m \in Node : tgt[m].st \in {"pending", "dispatched"}}
        bad  == {m \in Node : tgt[m].st = "failed"}
        held == /\ orders[d].status = "halted"
                /\ st = "succeeded"
                /\ \E m \in Node : tgt[m].st \notin {"none", "succeeded"}
        full == orders[d].kind = "config" \/ orders[d].proof
    IN  IF held THEN [orders[d] EXCEPT !.tgt = tgt]
        ELSE IF bad # {} THEN [orders[d] EXCEPT !.tgt = tgt, !.status = "halted"]
        ELSE IF left # {} THEN [orders[d] EXCEPT !.tgt = tgt, !.status = "running"]
        ELSE [orders[d] EXCEPT !.tgt = tgt, !.status = "succeeded", !.active = full]

\* activate_deployment_tx: a configuration order serves the newest list that landed.
Carried(order) ==
    LET landed == {order.tgt[n].gr : n \in {m \in Node : order.tgt[m].st = "succeeded"}}
    IN  IF order.kind = "grants" THEN order.rev
        ELSE IF landed = {} THEN served
        ELSE Newest(landed)

ReportAccepted(n) ==
    LET d == agent[n].order
    IN  Open(d) /\ orders[d].tgt[n].st = "dispatched"

Report(n) ==
    /\ agent[n].pc \in {"applied", "recovered", "dirty"}
    /\ LET d     == agent[n].order
           st    == IF agent[n].pc = "applied" THEN "succeeded" ELSE "failed"
           order == Refreshed(d, n, st)
           known == agent[n].pc # "dirty"
       IN  IF ReportAccepted(n)
           THEN /\ orders' = [orders EXCEPT ![d] = order]
                /\ machine' = [machine EXCEPT
                      ![n].seen = IF known THEN machine[n].list ELSE Unsure,
                      ![n].clean = IF orders[d].kind = "config" THEN known ELSE @]
                /\ served' = IF order.active THEN Carried(order) ELSE served
           ELSE UNCHANGED <<orders, machine, served>>
    /\ agent' = [agent EXCEPT ![n] = Resting]
    /\ UNCHANGED <<modelVars, jobs, worker, edits>>

---------------------------------------------------------------------------
Next ==
    \/ Enable \/ Disable \/ Discard
    \/ Consume \/ Reset \/ PlanQuotaEnforcement \/ ApplyQuotaChanges
    \/ SelectBatch \/ CreateGrantsOrder \/ Reschedule \/ FinishBatch
    \/ WorkerDies \/ RunAfter
    \/ \E S \in SUBSET Node \ {{}} : CreateConfigOrder(S)
    \/ \E d \in DOMAIN orders : CancelOrder(d) \/ \E n \in Node : RetryTarget(d, n)
    \/ \E n \in Node : \/ \E lost \in BOOLEAN : Claim(n, lost)
                       \/ Execute(n) \/ Fail(n) \/ Report(n)

Spec == Init /\ [][Next]_vars

\* The two workers run on timers and agents poll for ever.
Fairness ==
    /\ WF_vars(PlanQuotaEnforcement) /\ WF_vars(ApplyQuotaChanges)
    /\ WF_vars(SelectBatch) /\ WF_vars(CreateGrantsOrder)
    /\ WF_vars(Reschedule) /\ WF_vars(FinishBatch) /\ WF_vars(RunAfter)
    /\ \A n \in Node : WF_vars(Claim(n, FALSE)) /\ WF_vars(Execute(n)) /\ WF_vars(Report(n))

FairSpec == Spec /\ Fairness

---------------------------------------------------------------------------
Targets == [st : {"none", "skipped", "pending", "dispatched", "succeeded", "failed", "canceled"},
            gr : Nat, fz : Nat \cup {Null}]

\* Jobs, orders, machines and the serving pointer only name revisions that exist
\* (enqueue_tx after insert_revision).
TypeOK ==
    /\ perm \in Seq(BOOLEAN)
    /\ quota \in [spent : BOOLEAN, suspended : BOOLEAN, plan : {"none", "suspend", "restore"}]
    /\ disabled \in BOOLEAN
    /\ withdrawn \subseteq Node
    /\ restored \in BOOLEAN
    /\ jobs \subseteq [rev : DOMAIN perm, due : BOOLEAN]
    /\ worker \in [pc : {"idle", "plan", "settle"}, batch : SUBSET (DOMAIN perm),
                   order : Nat, verdict : {"none", "finish", "wait"}]
    /\ orders \in Seq([kind : {"config", "grants"}, rev : DOMAIN perm,
                       status : {"planned", "running", "halted", "succeeded", "canceled"},
                       active : BOOLEAN, proof : BOOLEAN, planned : SUBSET Node,
                       tgt : [Node -> Targets]])
    /\ machine \in [Node -> [list : DOMAIN perm, seen : (DOMAIN perm) \cup {Unsure},
                             clean : BOOLEAN]]
    /\ agent \in [Node -> [pc : {"idle", "work", "applied", "recovered", "dirty"},
                           order : Nat, list : Nat]]
    /\ served \in DOMAIN perm
    /\ edits \in 0 .. MaxEdits

\* The quota worker never undoes an operator's decision to disable a grant, however old
\* the plan is that apply_quota_changes works off (prepare_operator_grant_tx).
OperatorOwnsDisable == disabled => ~perm[Latest]

\* A machine has the model's permissions, or is behind the newest queued job, an
\* order that will reach it, an order the operator withdrew since the change, or
\* a configuration release the operator owes.
Followed(n) ==
    \/ Same(machine[n].list, Latest)
    \/ ~machine[n].clean
    \/ jobs # {} /\ Same(Newest({j.rev : j \in jobs}), Latest)
    \/ \E d \in DOMAIN orders : Delivers(d, n)
    \/ n \in withdrawn

\* No permission change is forgotten, however batches, crashes, configuration and
\* cancels meet (process_jobs_locked, create_automatic_grants_deployment).
Remembered == ~restored => \A n \in Node : Followed(n)

\* "Restoring the last published snapshot does not need a new permission release"
\* (discard_pending_changes).
BaselineStands == restored => \A n \in Node : Followed(n)

\* A machine is given permissions that are no longer the model's only while a
\* newer job is there to repair it, or by an order that was canceled under its
\* hands: no frozen, retried, replayed or rebased target brings them back for
\* good (the rebase loop of create_automatic_grants_deployment, dispatched_grants).
NeverBack ==
    [][\A n \in Node : ~restored /\ machine'[n].list # machine[n].list =>
            \/ Same(machine'[n].list, Latest)
            \/ \E j \in jobs : j.rev > machine'[n].list
            \/ orders[agent[n].order].status = "canceled"]_vars

\* A user over quota loses access on every machine, unless the quota is reset,
\* whatever else is in flight (enforce_quotas, process_jobs).
QuotaBites ==
    quota.spent ~> (~quota.spent \/ \A n \in Node : ~perm[machine[n].list])
=============================================================================
