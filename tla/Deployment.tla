----------------------------- MODULE Deployment -----------------------------
(***************************************************************************)
(* The release control plane of Brocade and the agents it drives:          *)
(* deployments, their targets and waves, operational isolation and its     *)
(* convergence debt, the node lifecycle, the subscription serving pointer, *)
(* and the agent's poll / converge / report loop.                          *)
(*                                                                         *)
(* Every control-plane action is one PostgreSQL transaction.  A machine's  *)
(* configuration is abstracted to a number: 0 is a torn-down machine, any  *)
(* other value names the revision that last edited it.  A permission list  *)
(* is likewise the revision that last edited it, 0 when Xray is disabled.  *)
(* Unsure stands for dirty and unknown: the control plane does not know    *)
(* what the machine runs, and disabling it counts as disruptive, as for a  *)
(* dirty machine.  'converging' is never written by the store and          *)
(* failed-recovered / failed-dirty are always treated alike, so they are   *)
(* one status each: "dispatched" and "failed".                             *)
(***************************************************************************)
EXTENDS Waves, Sequences

CONSTANTS
    Requires,     \* <<dependent, prerequisite>>: the listener references that
                  \* order two machines whose Xray changes in one release
    HotSwap,      \* machines whose edits a running Xray can be told about
    Unattended,   \* control_state.deployment_unattended
    AtomicPlan,   \* TRUE: no transaction falls between planning and insertion
    Commands,     \* the operator commands and the faults this instance explores
    MaxRev,       \* bound on revisions
    MaxDep,       \* bound on deployments
    MaxClaim      \* bound on the claims of one obligation

ASSUME FleetAssumption ==
    /\ Requires \subseteq Node \X Node
    /\ HotSwap \subseteq Node
    /\ Unattended \in BOOLEAN
    /\ AtomicPlan \in BOOLEAN
    /\ MaxRev \in Nat /\ MaxDep \in Nat /\ MaxClaim \in Nat

VARIABLES
    hist,      \* the immutable revisions, oldest first
    dep,       \* the deployments with their targets and obligations, by id
    node,      \* per machine: isolation, lifecycle and applied-state rows
    serving,   \* subscription_serving_state
    draft,     \* a plan computed from the pool and not yet inserted
    mach,      \* what each machine really runs
    agent      \* each agent's convergence journal and observation spool

vars == <<hist, dep, node, serving, draft, mach, agent>>

Unsure == -1
Null   == -2    \* dispatched_grants IS NULL

OpenDeployment == {"planned", "running", "halted"}
OpenTarget     == {"pending", "dispatched"}
Debt           == {"pending", "dispatched", "failed"}   \* of an obligation
Participating  == {"active", "retiring"}                \* lifecycle phases

Latest == Len(hist)
----------------------------------------------------------------------------
(* Reading the database.                                                   *)

Open(dp, d) == dp[d].status \in OpenDeployment

OpenNodes(dp, d) == {n \in Node : dp[d].tgt[n].st \in OpenTarget}

\* Mutant of CurrentWave: the comparison points the other way.
HighestWave(dp, d) ==
    CHOOSE w \in {dp[d].tgt[n].wave : n \in OpenNodes(dp, d)} :
        \A n \in OpenNodes(dp, d) : w >= dp[d].tgt[n].wave

\* The wave a release is in: the lowest one with an open target.
CurrentWave(dp, d) ==
    CHOOSE w \in {dp[d].tgt[n].wave : n \in OpenNodes(dp, d)} :
        \A n \in OpenNodes(dp, d) : w <= dp[d].tgt[n].wave

\* Mutant of RequiresConfirmation: off by one, the second wave goes unconfirmed.
RequiresConfirmationLate(dp, d, w) ==
    \E n \in OpenNodes(dp, d) :
        /\ dp[d].tgt[n].wave = w
        /\ dp[d].tgt[n].disr
        /\ w > 2 \/ hist[dp[d].rev].topo[n] = 0

\* A disruptive wave after the canary, and any real disable, waits for a human.
RequiresConfirmation(dp, d, w) ==
    \E n \in OpenNodes(dp, d) :
        /\ dp[d].tgt[n].wave = w
        /\ dp[d].tgt[n].disr
        /\ w > 1 \/ hist[dp[d].rev].topo[n] = 0

\* refresh_deployment_settlement_tx
Settlement(tgt) ==
    IF \E n \in Node : tgt[n].ost = "failed" THEN "uncertain"
    ELSE IF \E n \in Node : tgt[n].ost \in OpenTarget THEN "debt"
    ELSE "converged"

Isolated(nd) == {n \in Node : nd[n].iso}

\* Machines that poll for isolation debt instead of release targets.
Detached(nd, n) == nd[n].iso /\ nd[n].phase = "active"
----------------------------------------------------------------------------
(* Planning.                                                               *)

NoTarget == [st |-> "none", ep |-> 0, wave |-> 0, disr |-> FALSE,
             gr |-> 0, fz |-> Null, ost |-> "none", ogr |-> 0, claim |-> 0]

NoDraft == [kind |-> "none", rev |-> 0, tgt |-> [n \in Node |-> NoTarget]]

\* A full desired state carries the revision's own permission list.
GrantsAt(h, r, n) == IF h[r].topo[n] = 0 THEN 0 ELSE h[r].perm

\* is_disruptive: replacing Xray, unless it is among those that can be told;
\* disabling what ran.
Disruptive(h, r, nd, told, n) ==
    IF h[r].topo[n] = 0 THEN nd[n].cfg # 0
    ELSE ~(n \in told /\ nd[n].cfg > 0)

\* Machines whose configuration differs from revision r.
Changing(h, r, nd) ==
    {n \in Node : nd[n].phase \in Participating /\ nd[n].cfg # h[r].topo[n]}

TornDown(h, r) == {n \in Node : h[r].topo[n] = 0}

\* Mutant of WavesFor: the listener references are not read.
WavesForStrangers(h, r, nd) ==
    LET changed == Changing(h, r, nd)
    IN  AssignWaves(changed \ TornDown(h, r), changed \cap TornDown(h, r), {})

WavesFor(h, r, nd) ==
    LET changed == Changing(h, r, nd)
    IN  AssignWaves(changed \ TornDown(h, r), changed \cap TornDown(h, r),
                    Requires \cap (changed \X changed))

WaveFunctions == [Node -> 0..Cardinality(Node)]

\* plan_deployment narrowed to the configuration line: a retired machine is a
\* target only while its teardown is owed, a converged one is Skipped.  The plan
\* of a release is told what Xray runs (attach_running_xray), and with it which
\* machines can take an edit as they run; the plan of a lifecycle command is not.
ConfigPlan(h, r, nd, waves, told) ==
    [kind |-> "config", rev |-> r,
     tgt |-> [n \in Node |->
        IF n \in Changing(h, r, nd)
        THEN [NoTarget EXCEPT !.st = "pending", !.wave = waves[n],
                              !.disr = Disruptive(h, r, nd, told, n),
                              !.gr = GrantsAt(h, r, n)]
        ELSE IF nd[n].phase \in Participating /\ n \notin TornDown(h, r)
        THEN [NoTarget EXCEPT !.st = "skipped"]
        ELSE NoTarget]]

\* The grants line: only machines that owe no Xray change can sync now.
GrantsPlan(h, r, nd) ==
    LET owed == {n \in Node : /\ nd[n].phase \in Participating
                              /\ h[r].topo[n] # 0
                              /\ nd[n].cfg = h[r].topo[n]
                              /\ nd[n].gr # h[r].perm}
    IN  [kind |-> "grants", rev |-> r,
         tgt |-> [n \in Node |-> IF n \in owed
                                 THEN [NoTarget EXCEPT !.st = "pending",
                                                       !.gr = h[r].perm]
                                 ELSE NoTarget]]

Planned(plan, st) == {n \in Node : plan.tgt[n].st = st}

\* mark_isolated_targets and the fixed point of defer_listener_dependents: the
\* least set with every isolated target and every caller of a deferred one.
DeferredBy(plan, isolated) ==
    LET pending == {n \in Node : plan.tgt[n].st = "pending"}
        waits   == IF plan.kind = "config" THEN Requires \cap (pending \X pending)
                                           ELSE {}
        closed  == {S \in SUBSET pending :
                        /\ pending \cap isolated \subseteq S
                        /\ \A r \in waits : r[2] \in S => r[1] \in S}
    IN  {n \in pending : \A S \in closed : n \in S}

\* Mutant of MarkIsolated: isolation is not looked at when a plan is inserted.
IgnoreIsolated(plan, isolated) == plan

MarkIsolated(plan, isolated) ==
    LET late == DeferredBy(plan, isolated)
    IN  [plan EXCEPT !.tgt = [n \in Node |-> IF n \in late
                                THEN [@[n] EXCEPT !.st = "deferred"]
                                ELSE @[n]]]
----------------------------------------------------------------------------
(* Pieces of the transactions, as functions of the rows they rewrite.      *)

\* Mutant of MarkDirty: the row is cleared instead of marked.
MarkNull(nd, S, kind) ==
    [n \in Node |-> IF n \in S THEN [nd[n] EXCEPT !.cfg = Null, !.gr = Null] ELSE nd[n]]

\* mark_node_applied_dirty_tx: a grants order can only have spoiled the list.
MarkDirty(nd, S, kind) ==
    [n \in Node |->
        IF n \notin S THEN nd[n]
        ELSE [nd[n] EXCEPT !.cfg = IF kind = "config" THEN Unsure ELSE @,
                           !.gr = Unsure]]

\* Mutant of Replaced: failed debt is left standing.
ReplacedOpen(dp, d, n) ==
    {e \in DOMAIN dp : /\ dp[e].tgt[n].ost \in OpenTarget
                       /\ dp[e].tgt[n].ep = dp[d].tgt[n].ep
                       /\ dp[e].kind = dp[d].kind}

\* What a new obligation of deployment d for machine n replaces: the open or
\* failed debt of its own kind, and permission debt its revision covers.
Replaced(dp, d, n) ==
    {e \in DOMAIN dp :
        /\ dp[e].tgt[n].ost \in Debt
        /\ dp[e].tgt[n].ep = dp[d].tgt[n].ep
        /\ \/ dp[e].kind = dp[d].kind
           \/ dp[d].kind = "config" /\ dp[e].rev <= dp[d].rev}

\* insert_or_supersede_obligation_tx, for the machines S of deployment d.
Oblige(h, dp, d, S) ==
    LET hit(e) == {n \in S : e \in Replaced(dp, d, n)}
        closed(e) ==
            [n \in Node |-> IF n \notin hit(e) THEN dp[e].tgt[n]
                ELSE [dp[e].tgt[n] EXCEPT
                        !.ost = "superseded",
                        !.st = IF @ \in {"deferred", "failed"} THEN "superseded"
                                                               ELSE @]]
        owing ==
            [n \in Node |-> IF n \notin S THEN closed(d)[n]
                ELSE [closed(d)[n] EXCEPT
                        !.ost = "pending", !.claim = 0,
                        !.ogr = IF dp[d].kind = "config"
                                THEN GrantsAt(h, dp[d].rev, n) ELSE dp[d].tgt[n].gr]]
    IN  [e \in DOMAIN dp |->
            IF e = d THEN [dp[d] EXCEPT !.tgt = owing]
            ELSE IF hit(e) = {} THEN dp[e]
            ELSE [dp[e] EXCEPT !.tgt = closed(e), !.settle = Settlement(closed(e))]]

\* ... whose replaced debt an agent was still executing.
ObligedInFlight(dp, d, S) ==
    {n \in S : \E e \in Replaced(dp, d, n) : dp[e].tgt[n].ost = "dispatched"}

\* deployment_covers_serving_fleet_tx: only a release that accounts for every
\* participating machine is a global checkpoint.  A grants order needs the
\* automation job that planned the whole fleet; an operator's has none.
CoversFleet(dp, nd, d) ==
    /\ dp[d].kind = "config"
    /\ \A n \in Node : nd[n].phase \in Participating =>
            \/ dp[d].tgt[n].st \in {"succeeded", "skipped"}
            \/ dp[d].tgt[n].st = "deferred" /\ nd[n].iso

\* refresh_deployment_status: what becomes of deployment d after its targets moved.
Refreshed(dp, nd, d) ==
    LET t == dp[d].tgt
    IN  IF \E n \in Node : t[n].st = "failed"
        THEN [dp[d] EXCEPT !.status = "halted", !.settle = "uncertain"]
        ELSE IF OpenNodes(dp, d) = {}
        THEN [dp[d] EXCEPT !.status = "succeeded", !.settle = Settlement(t),
                           !.activation = IF CoversFleet(dp, nd, d)
                                          THEN "activated" ELSE @]
        ELSE [dp[d] EXCEPT !.status = "running",
                           !.settle = IF \E n \in Node : t[n].ost \in Debt
                                      THEN "debt" ELSE @]

Refresh(dp, nd, d) ==
    [e \in DOMAIN dp |-> IF e = d THEN Refreshed(dp, nd, d) ELSE dp[e]]

\* activate_deployment_tx, for a deployment d that was open until now.
Serve(sv, dp, nd, d) ==
    IF dp[d].activation # "activated" THEN sv
    ELSE [dep  |-> d,
          perm |-> IF \E n \in Node : dp[d].tgt[n].st = "succeeded"
                   THEN dp[d].rev ELSE sv.perm,
          iso  |-> Isolated(nd)]

\* insert_target for every target of a plan: the frozen epoch is the current one.
Inserted(dp, nd, plan) ==
    Append(dp, [kind |-> plan.kind, rev |-> plan.rev, status |-> "planned",
                settle |-> "converged", activation |-> "waiting", confirmed |-> {},
                tgt |-> [n \in Node |->
                            IF plan.tgt[n].st = "none" THEN NoTarget
                            ELSE [plan.tgt[n] EXCEPT !.ep = nd[n].epoch]]])

\* create_from_plan_tx after its checks, and insert_lifecycle_deployment_tx.
Insert(h, dp, nd, plan) ==
    LET d    == Len(dp) + 1
        rows == Oblige(h, Inserted(dp, nd, plan), d, Planned(plan, "deferred"))
    IN  IF Planned(plan, "pending") # {} THEN rows ELSE Refresh(rows, nd, d)

InsertDirty(dp, nd, plan) ==
    MarkDirty(nd, ObligedInFlight(Inserted(dp, nd, plan), Len(dp) + 1,
                                  Planned(plan, "deferred")), plan.kind)

\* Machines whose agent may be executing work of the deployments D of a kind.
Executing(dp, D, kind) ==
    {n \in Node : \E d \in D : /\ dp[d].kind = kind
                               /\ \/ dp[d].tgt[n].st = "dispatched"
                                  \/ dp[d].tgt[n].ost = "dispatched"}

\* cancel_deployment_tx
Cancel(dp, D) ==
    [d \in DOMAIN dp |-> IF d \notin D THEN dp[d] ELSE
        [dp[d] EXCEPT
            !.status = "canceled", !.activation = "rejected", !.settle = "converged",
            !.tgt = [n \in Node |->
                [dp[d].tgt[n] EXCEPT !.ost = IF @ \in Debt THEN "canceled" ELSE @,
                                     !.st = IF @ \in OpenTarget \cup {"deferred"}
                                            THEN "canceled" ELSE @,
                                     !.fz = Null]]]]

CancelDirty(dp, nd, D) ==
    MarkDirty(MarkDirty(nd, Executing(dp, D, "config"), "config"),
              Executing(dp, D, "grants"), "grants")
----------------------------------------------------------------------------
(* The fleet just after its first configuration release.                   *)

Idle == [pc |-> "idle", dep |-> 0, claim |-> 0, kind |-> "none",
         ok |-> FALSE, cfg |-> 0, gr |-> 0]

FirstRelease ==
    [kind |-> "config", rev |-> 1, status |-> "succeeded", settle |-> "converged",
     activation |-> "activated", confirmed |-> {},
     tgt |-> [n \in Node |-> [NoTarget EXCEPT !.st = "succeeded", !.gr = 1]]]

Init ==
    /\ hist = <<[topo |-> [n \in Node |-> 1], perm |-> 1]>>
    /\ dep = <<FirstRelease>>
    /\ node = [n \in Node |-> [iso |-> FALSE, phase |-> "active", epoch |-> 0,
                               life |-> 0, tok |-> TRUE, cfg |-> 1, gr |-> 1]]
    /\ serving = [dep |-> 1, perm |-> 1, iso |-> {}]
    /\ draft = NoDraft
    /\ mach = [n \in Node |-> [cfg |-> 1, gr |-> 1]]
    /\ agent = [n \in Node |-> Idle]
----------------------------------------------------------------------------
(* Operators of the console.                                               *)

EditTopology(n) ==
    /\ "edit" \in Commands
    /\ Latest < MaxRev
    /\ hist[Latest].topo[n] # 0
    /\ hist' = Append(hist, [hist[Latest] EXCEPT !.topo[n] = Latest + 1])
    /\ UNCHANGED <<dep, node, serving, draft, mach, agent>>

EditPermissions ==
    /\ "permit" \in Commands
    /\ Latest < MaxRev
    /\ hist' = Append(hist, [hist[Latest] EXCEPT !.perm = Latest + 1])
    /\ UNCHANGED <<dep, node, serving, draft, mach, agent>>

\* Mutant of Flying: an order none of whose targets went out does not block.
FlyingOnceRunning(kind) ==
    \E d \in DOMAIN dep : dep[d].status \in {"running", "halted"} /\ dep[d].kind = kind

Flying(kind) == \E d \in DOMAIN dep : Open(dep, d) /\ dep[d].kind = kind

\* create_from_plan_tx
CreateFromPlan(planned) ==
    LET plan == MarkIsolated(planned, Isolated(node))
        rows == Insert(hist, dep, node, plan)
    IN  /\ ~Flying(plan.kind)
        /\ Len(dep) < MaxDep
        /\ dep' = rows
        /\ node' = InsertDirty(dep, node, plan)
        /\ serving' = Serve(serving, rows, node, Len(rows))
        /\ UNCHANGED <<hist, mach, agent>>

\* create_deployment reads its plan from the pool, before its transaction.
PlanDeployment(plan) ==
    /\ ~AtomicPlan
    /\ draft = NoDraft
    /\ Len(dep) < MaxDep
    /\ Planned(plan, "pending") # {}
    /\ draft' = plan
    /\ UNCHANGED <<hist, dep, node, serving, mach, agent>>

SubmitPlan == draft # NoDraft /\ CreateFromPlan(draft) /\ draft' = NoDraft

RefusePlan ==
    /\ draft # NoDraft
    /\ Flying(draft.kind)
    /\ draft' = NoDraft
    /\ UNCHANGED <<hist, dep, node, serving, mach, agent>>

\* ... and no transaction falls between the two.
CreateDeployment(plan) ==
    /\ AtomicPlan
    /\ Planned(plan, "pending") # {}
    /\ CreateFromPlan(plan)
    /\ UNCHANGED draft

ConfirmWave(d) ==
    /\ dep[d].status \in {"planned", "running"}
    /\ OpenNodes(dep, d) # {}
    /\ LET w == CurrentWave(dep, d)
       IN  /\ RequiresConfirmation(dep, d, w)
           /\ w \notin dep[d].confirmed
           /\ dep' = [dep EXCEPT ![d].confirmed = @ \cup {w}]
    /\ UNCHANGED <<hist, node, serving, draft, mach, agent>>

HaltDeployment(d) ==
    /\ "halt" \in Commands
    /\ dep[d].status \in {"planned", "running"}
    /\ dep' = [dep EXCEPT ![d].status = "halted"]
    /\ UNCHANGED <<hist, node, serving, draft, mach, agent>>

CancelDeployment(d) ==
    /\ "cancel" \in Commands
    /\ Open(dep, d)
    /\ dep' = Cancel(dep, {d})
    /\ node' = CancelDirty(dep, node, {d})
    /\ UNCHANGED <<hist, serving, draft, mach, agent>>

\* retry_target: the failed debt of an isolated machine goes first.
FailedDebt(d, n) ==
    /\ Detached(node, n)
    /\ dep[d].tgt[n].ost = "failed"
    /\ dep[d].tgt[n].ep = node[n].epoch

\* Mutant of RetryObligation: the release keeps its settlement.
RetryUnsettled(d, n) ==
    /\ "retry" \in Commands
    /\ FailedDebt(d, n)
    /\ dep' = [dep EXCEPT ![d].tgt[n].ost = "pending", ![d].tgt[n].st = "deferred"]
    /\ UNCHANGED <<hist, node, serving, draft, mach, agent>>

RetryObligation(d, n) ==
    /\ "retry" \in Commands
    /\ FailedDebt(d, n)
    /\ LET tgt == [dep[d].tgt EXCEPT ![n].ost = "pending", ![n].st = "deferred"]
       IN  dep' = [dep EXCEPT ![d] = [@ EXCEPT !.tgt = tgt, !.settle = Settlement(tgt)]]
    /\ UNCHANGED <<hist, node, serving, draft, mach, agent>>

RetryTarget(d, n) ==
    /\ "retry" \in Commands
    /\ ~FailedDebt(d, n)
    /\ dep[d].status = "halted"
    /\ dep[d].tgt[n].st = "failed"
    /\ dep[d].tgt[n].ep = node[n].epoch
    /\ node[n].phase \in Participating
    /\ LET tgt == [dep[d].tgt EXCEPT ![n].st = "pending", ![n].fz = Null]
       IN  dep' = [dep EXCEPT ![d] = [@ EXCEPT !.tgt = tgt, !.status = "running"]]
    /\ UNCHANGED <<hist, node, serving, draft, mach, agent>>
----------------------------------------------------------------------------
(* Operational isolation.                                                  *)

\* One row of isolate_node_inner: the target leaves its wave and becomes debt.
Detach(dp, d, n) ==
    LET tgt == [dp[d].tgt EXCEPT ![n].st = "deferred", ![n].fz = Null]
    IN  Oblige(hist, [dp EXCEPT ![d] = [@ EXCEPT !.tgt = tgt]], d, {n})

\* Mutant of DetachDirty: the machine is believed to have stopped at once.
DetachClean(dp, nd, d, n) == nd

\* Its status is the one read before the first row was detached.
DetachDirty(dp, nd, d, n) ==
    MarkDirty(nd, IF \/ dep[d].tgt[n].st \in {"dispatched", "failed"}
                     \/ ObligedInFlight(dp, d, {n}) # {}
                  THEN {n} ELSE {}, dp[d].kind)

\* Single-flight leaves at most one row per kind; they are taken in id order.
IsolateNode(n) ==
    LET rows == {d \in DOMAIN dep : Open(dep, d) /\ dep[d].tgt[n].st \in Debt}
        lo   == CHOOSE d \in rows : \A e \in rows : d <= e
        hi   == CHOOSE d \in rows : \A e \in rows : e <= d
        one  == IF rows = {} THEN dep ELSE Detach(dep, lo, n)
        both == IF lo = hi THEN one ELSE Detach(one, hi, n)
        nd1  == [node EXCEPT ![n].iso = TRUE]
        nd2  == DetachDirty(dep, nd1, lo, n)
        nd3  == IF lo = hi THEN nd2 ELSE DetachDirty(one, nd2, hi, n)
        dp1  == Refresh(both, nd1, lo)
        dp2  == IF lo = hi THEN dp1 ELSE Refresh(dp1, nd1, hi)
        sv1  == Serve(serving, dp1, nd1, lo)
        sv2  == IF lo = hi THEN sv1 ELSE Serve(sv1, dp2, nd1, hi)
    IN  /\ "isolate" \in Commands
        /\ node[n].phase = "active"
        /\ \A d \in rows : dep[d].tgt[n].ep = node[n].epoch
        /\ ~node[n].iso \/ rows # {}
        /\ dep' = IF rows = {} THEN dep ELSE dp2
        /\ node' = IF rows = {} THEN nd1 ELSE nd3
        /\ serving' = [(IF rows = {} THEN serving ELSE sv2) EXCEPT !.iso = Isolated(nd1)]
        /\ UNCHANGED <<hist, draft, mach, agent>>

\* Mutant of RestoreService: no look at node_convergence_obligations.
RestoreInDebt(n) ==
    /\ Detached(node, n)
    /\ node[n].cfg # Unsure /\ node[n].gr # Unsure
    /\ node' = [node EXCEPT ![n].iso = FALSE]
    /\ serving' = [serving EXCEPT !.iso = Isolated(node')]
    /\ UNCHANGED <<hist, dep, draft, mach, agent>>

\* The liveness evidence restore_node_service also demands (a fresh poll and
\* runtime report, WireGuard health) is not modelled: it may always be there.
RestoreService(n) ==
    /\ Detached(node, n)
    /\ \A d \in DOMAIN dep : dep[d].tgt[n].ep = node[n].epoch
                                => dep[d].tgt[n].ost \notin Debt
    /\ node[n].cfg # Unsure /\ node[n].gr # Unsure
    /\ node' = [node EXCEPT ![n].iso = FALSE]
    /\ serving' = [serving EXCEPT !.iso = Isolated(node')]
    /\ UNCHANGED <<hist, dep, draft, mach, agent>>
----------------------------------------------------------------------------
(* The node lifecycle: the teardown of a retired machine is a release too. *)

\* The open deployments, every one of which a lifecycle change cancels.
ActiveIds(dp) == {d \in DOMAIN dp : Open(dp, d)}

\* advance_intent_tx: the debt of the machine's earlier epochs is closed.
AdvanceIntent(dp, n) ==
    [d \in DOMAIN dp |->
        IF dp[d].tgt[n].ost = "none" THEN dp[d]
        ELSE LET old == dp[d].tgt[n]
                 tgt == IF old.ost \notin Debt THEN dp[d].tgt
                        ELSE [dp[d].tgt EXCEPT ![n] = [old EXCEPT
                                !.ost = "canceled",
                                !.st = IF @ \in {"deferred", "failed"} THEN "canceled"
                                                                       ELSE @]]
             IN  [dp[d] EXCEPT !.tgt = tgt, !.settle = Settlement(tgt)]]

\* ... after the machine's applied state was marked by what was in flight.
AdvanceDirty(dp, nd, n) ==
    LET owed(kind) == IF \E d \in DOMAIN dp : /\ dp[d].kind = kind
                                              /\ dp[d].tgt[n].ost = "dispatched"
                      THEN {n} ELSE {}
    IN  MarkDirty(MarkDirty(nd, owed("config"), "config"), owed("grants"), "grants")

\* The common tail of transition_node_status and abandon_node: cancel what is
\* open, re-plan the newest revision, and complete or attach a teardown.
Replan(n, h, dp, nd, isolated) ==
    LET D   == ActiveIds(dp)
        dp1 == Cancel(dp, D)
        nd1 == CancelDirty(dp, nd, D)
        id  == Len(dp) + 1
    IN  \E waves \in {WavesFor(h, Len(h), nd1)} \cap WaveFunctions :
        LET plan    == MarkIsolated(ConfigPlan(h, Len(h), nd1, waves, {}), isolated)
            moved   == Planned(plan, "pending") \cup Planned(plan, "deferred")
            pending == n \in Planned(plan, "pending")
            torn    == nd1[n].phase = "retiring" /\ ~pending
            nd2     == [nd1 EXCEPT ![n].phase = IF torn THEN "retired" ELSE @,
                                   ![n].tok = @ /\ ~torn]
            rows    == Insert(h, dp1, nd2, plan)
        IN  /\ moved # {} => Len(dp) < MaxDep
            /\ hist' = h
            /\ dep' = IF moved = {} THEN dp1 ELSE rows
            /\ node' = IF moved = {} THEN nd2
                       ELSE [InsertDirty(dp1, nd2, plan) EXCEPT
                                ![n].life = IF nd2[n].phase = "retiring" /\ pending
                                            THEN id ELSE @]
            /\ serving' = IF moved = {} THEN serving ELSE Serve(serving, rows, nd2, id)
            /\ UNCHANGED <<draft, mach, agent>>

Advanced(nd, n, phase) ==
    [nd EXCEPT ![n] = [@ EXCEPT !.phase = phase, !.life = 0, !.epoch = nd[n].epoch + 1]]

Retire(n) ==
    /\ "retire" \in Commands
    /\ hist[Latest].topo[n] # 0
    /\ Latest < MaxRev
    /\ Replan(n, Append(hist, [hist[Latest] EXCEPT !.topo[n] = 0]),
              AdvanceIntent(dep, n),
              Advanced(AdvanceDirty(dep, node, n), n, "retiring"), {})

Reactivate(n) ==
    /\ "reactivate" \in Commands
    /\ hist[Latest].topo[n] = 0
    /\ Latest < MaxRev
    /\ Replan(n, Append(hist, [hist[Latest] EXCEPT !.topo[n] = Latest + 1]),
              AdvanceIntent(dep, n),
              Advanced(AdvanceDirty(dep, node, n), n, "active"), Isolated(node))

\* Retiring again while the teardown order is missing or closed repairs it.
RepairTeardown(n) ==
    /\ "repair" \in Commands
    /\ hist[Latest].topo[n] = 0
    /\ node[n].phase = "retiring"
    /\ node[n].life # 0 => ~Open(dep, node[n].life)
    /\ Replan(n, hist, dep, AdvanceDirty(dep, node, n), {})

Abandon(n) ==
    /\ "abandon" \in Commands
    /\ node[n].phase = "retiring"
    /\ Replan(n, hist, dep,
              [Advanced(node, n, "abandoned") EXCEPT ![n].tok = FALSE], {})

\* issue_node_token: a reactivated machine polls again with a new token.
IssueToken(n) ==
    /\ node[n].phase = "active"
    /\ ~node[n].tok
    /\ node' = [node EXCEPT ![n].tok = TRUE]
    /\ UNCHANGED <<hist, dep, serving, draft, mach, agent>>
----------------------------------------------------------------------------
(* The agent: claim, converge, report.                                     *)

\* authenticate_node_token
Authenticated(n) == node[n].tok /\ node[n].phase \in Participating

Work(d, n, claim, gr) ==
    [pc |-> "work", dep |-> d, claim |-> claim, kind |-> dep[d].kind, ok |-> FALSE,
     cfg |-> hist[dep[d].rev].topo[n], gr |-> gr]

\* The answer to a poll reaches the agent, or is lost on the way.
Handed(n, work, lost) ==
    /\ lost => "lose" \in Commands
    /\ agent' = IF lost THEN agent ELSE [agent EXCEPT ![n] = work]

\* Mutant of CurrentDebt: a dispatched obligation is never offered again.
DebtOnce(n, kind, states) ==
    {d \in DOMAIN dep : /\ dep[d].kind = kind
                        /\ dep[d].tgt[n].ost \in states \ {"dispatched"}
                        /\ dep[d].tgt[n].ep = node[n].epoch}

CurrentDebt(n, kind, states) ==
    {d \in DOMAIN dep : /\ dep[d].kind = kind
                        /\ dep[d].tgt[n].ost \in states
                        /\ dep[d].tgt[n].ep = node[n].epoch}

ClaimObligation(n, d, lost) ==
    /\ agent[n].pc = "idle"
    /\ Authenticated(n)
    /\ Detached(node, n)
    /\ \/ d \in CurrentDebt(n, "config", OpenTarget)
       \/ /\ d \in CurrentDebt(n, "grants", OpenTarget)
          /\ CurrentDebt(n, "config", Debt) = {}
    /\ LET t     == dep[d].tgt[n]
           fresh == t.ost = "pending"
           claim == IF fresh THEN t.claim + 1 ELSE t.claim
       IN  /\ fresh \/ ~lost
           /\ claim <= MaxClaim
           /\ LET tgt == [dep[d].tgt EXCEPT ![n].ost = "dispatched", ![n].claim = claim]
              IN  dep' = [dep EXCEPT ![d] = [@ EXCEPT !.tgt = tgt]]
           /\ Handed(n, Work(d, n, claim, t.ogr), lost)
    /\ UNCHANGED <<hist, node, serving, draft, mach>>

\* Mutant of Offers: a dispatched target is never offered again.
OffersOnce(n) ==
    {d \in DOMAIN dep : /\ dep[d].status \in {"planned", "running"}
                        /\ dep[d].tgt[n].st = "pending"
                        /\ dep[d].tgt[n].ep = node[n].epoch}

\* Open targets of this machine, in the order a poll considers them.
Offers(n) ==
    {d \in DOMAIN dep : /\ dep[d].status \in {"planned", "running"}
                        /\ dep[d].tgt[n].st \in OpenTarget
                        /\ dep[d].tgt[n].ep = node[n].epoch}

Precedence(d, n) ==
    IF dep[d].kind = "grants" THEN 1
    ELSE IF dep[d].tgt[n].st = "dispatched" THEN 0 ELSE 2

FirstOffer(d, n) ==
    /\ d \in Offers(n)
    /\ \A e \in Offers(n) : \/ Precedence(d, n) < Precedence(e, n)
                            \/ Precedence(d, n) = Precedence(e, n) /\ d <= e

GateOpen(d, w) ==
    RequiresConfirmation(dep, d, w) => w \in dep[d].confirmed \/ Unattended

\* The first offer is the only one considered, even when its gate is shut.
ClaimTarget(n, d, lost) ==
    /\ agent[n].pc = "idle"
    /\ Authenticated(n)
    /\ ~Detached(node, n)
    /\ FirstOffer(d, n)
    /\ dep[d].tgt[n].wave = CurrentWave(dep, d)
    /\ GateOpen(d, dep[d].tgt[n].wave)
    /\ LET t     == dep[d].tgt[n]
           fresh == t.st = "pending"
           gr    == IF fresh THEN t.gr ELSE t.fz
       IN  /\ fresh \/ ~lost
           /\ LET tgt == [dep[d].tgt EXCEPT ![n].st = "dispatched", ![n].fz = gr]
              IN  dep' = IF ~fresh THEN dep
                         ELSE [dep EXCEPT ![d] = [@ EXCEPT !.tgt = tgt,
                                                           !.status = "running"]]
           /\ Handed(n, Work(d, n, 0, gr), lost)
    /\ UNCHANGED <<hist, node, serving, draft, mach>>

\* What converging to the agent's work leaves on the machine: the desired
\* state, the state before, or a mixture nobody can name.
Outcomes(n) ==
    LET a == agent[n]
        want(c, g) == IF a.kind = "config" THEN [cfg |-> c, gr |-> g]
                                           ELSE [mach[n] EXCEPT !.gr = g]
    IN  [applied |-> want(a.cfg, a.gr), recovered |-> mach[n],
         dirty |-> want(Unsure, Unsure)]

\* converge_and_record: the observation is spooled before it is sent.
Execute(n, result) ==
    /\ result = "applied" \/ "fail" \in Commands
    /\ agent[n].pc = "work"
    /\ LET seen == Outcomes(n)[result]
       IN  /\ mach' = [mach EXCEPT ![n] = seen]
           /\ agent' = [agent EXCEPT ![n].pc = "spool", ![n].ok = result = "applied",
                                     ![n].cfg = seen.cfg, ![n].gr = seen.gr]
    /\ UNCHANGED <<hist, dep, node, serving, draft>>

\* The agent dies while converging.  Only work that applies Xray is journalled.
Crash(n, result) ==
    /\ "crash" \in Commands
    /\ agent[n].pc = "work"
    /\ mach' = [mach EXCEPT ![n] = Outcomes(n)[result]]
    /\ agent' = IF agent[n].kind = "config" /\ agent[n].cfg # 0 THEN agent
                ELSE [agent EXCEPT ![n] = Idle]
    /\ UNCHANGED <<hist, dep, node, serving, draft>>
----------------------------------------------------------------------------
(* report_target_result.                                                   *)

\* Mutant of Verdict: only the permission list is compared.
VerdictOnGrants(d, n, gr) == IF agent[n].gr = gr THEN "succeeded" ELSE "failed"

\* target_status_from_report
Verdict(d, n, gr) ==
    LET a == agent[n]
    IN  IF /\ a.ok
           /\ a.gr = gr
           /\ a.kind = "config" => a.cfg = hist[dep[d].rev].topo[n]
        THEN "succeeded" ELSE "failed"

\* upsert_node_applied_state
Observed(nd, n) ==
    LET a == agent[n]
    IN  [nd EXCEPT ![n].cfg = IF a.kind = "config" THEN a.cfg ELSE @, ![n].gr = a.gr]

\* The report answers a claimed obligation of a machine that is isolated.
ForObligation(d, n) == node[n].iso /\ dep[d].tgt[n].ost = "dispatched"

SettlesObligation(d, n) ==
    /\ ForObligation(d, n)
    /\ dep[d].tgt[n].claim = agent[n].claim
    /\ dep[d].tgt[n].ep = node[n].epoch
    /\ node[n].phase = "active"

SettlesTarget(d, n) ==
    /\ ~ForObligation(d, n)
    /\ Open(dep, d)
    /\ agent[n].claim = 0
    /\ dep[d].tgt[n].st \in OpenTarget
    /\ dep[d].tgt[n].ep = node[n].epoch
    /\ node[n].phase \in Participating
    /\ dep[d].tgt[n].fz # Null

SettleObligation(d, n) ==
    /\ SettlesObligation(d, n)
    /\ LET v   == Verdict(d, n, dep[d].tgt[n].ogr)
           tgt == [dep[d].tgt EXCEPT ![n].st = v, ![n].ost = v, ![n].fz = Null]
       IN  dep' = [dep EXCEPT ![d] = [@ EXCEPT !.tgt = tgt, !.settle = Settlement(tgt)]]
    /\ node' = Observed(node, n)
    /\ UNCHANGED serving

\* Mutant of TeardownProved: any report of the teardown order will do.
TeardownReported(d, n, v) ==
    /\ node[n].phase = "retiring"
    /\ dep[d].kind = "config"
    /\ hist[dep[d].rev].topo[n] = 0
    /\ node[n].life \in {0, d}

\* complete_retirement_tx from the report of a full teardown.
TeardownProved(d, n, v) ==
    /\ node[n].phase = "retiring"
    /\ dep[d].kind = "config"
    /\ v = "succeeded"
    /\ hist[dep[d].rev].topo[n] = 0
    /\ node[n].life \in {0, d}

SettleTarget(d, n) ==
    /\ SettlesTarget(d, n)
    /\ LET v    == Verdict(d, n, dep[d].tgt[n].fz)
           done == TeardownProved(d, n, v)
           tgt  == [dep[d].tgt EXCEPT ![n].st = v, ![n].fz = Null]
           dp1  == [dep EXCEPT ![d] = [@ EXCEPT !.tgt = tgt]]
           nd1  == [Observed(node, n) EXCEPT ![n].phase = IF done THEN "retired" ELSE @,
                                             ![n].tok = @ /\ ~done]
           held == /\ dep[d].status = "halted"
                   /\ v = "succeeded"
                   /\ \E m \in Node : tgt[m].st \notin {"none", "succeeded"}
           dp2  == Refresh(dp1, nd1, d)
       IN  /\ dep' = IF held THEN dp1 ELSE dp2
           /\ node' = nd1
           /\ serving' = IF held THEN serving ELSE Serve(serving, dp2, nd1, d)

\* Every other report is refused with a 4xx, which the spool discards.
RefuseReport(d, n) ==
    /\ ~SettlesObligation(d, n)
    /\ ~SettlesTarget(d, n)
    /\ UNCHANGED <<dep, node, serving>>

Deliver(n, lost) ==
    /\ lost => "lose" \in Commands
    /\ agent[n].pc = "spool"
    /\ Authenticated(n)
    /\ \/ SettleObligation(agent[n].dep, n)
       \/ SettleTarget(agent[n].dep, n)
       \/ RefuseReport(agent[n].dep, n)
    /\ agent' = IF lost THEN agent ELSE [agent EXCEPT ![n] = Idle]
    /\ UNCHANGED <<hist, draft, mach>>
----------------------------------------------------------------------------
Release ==
    \/ \E r \in DOMAIN hist :
          /\ "config" \in Commands
          /\ \E waves \in {WavesFor(hist, r, node)} \cap WaveFunctions :
                \/ PlanDeployment(ConfigPlan(hist, r, node, waves, HotSwap))
                \/ CreateDeployment(ConfigPlan(hist, r, node, waves, HotSwap))
    \/ \E r \in DOMAIN hist :
          /\ "grants" \in Commands
          /\ \/ PlanDeployment(GrantsPlan(hist, r, node))
             \/ CreateDeployment(GrantsPlan(hist, r, node))
    \/ SubmitPlan
    \/ RefusePlan

Operate ==
    \/ EditPermissions
    \/ \E d \in DOMAIN dep : ConfirmWave(d) \/ HaltDeployment(d) \/ CancelDeployment(d)
    \/ \E n \in Node : EditTopology(n) \/ IsolateNode(n) \/ RestoreService(n)
    \/ \E d \in DOMAIN dep, n \in Node : RetryObligation(d, n) \/ RetryTarget(d, n)

Lifecycle ==
    \E n \in Node : Retire(n) \/ Reactivate(n) \/ RepairTeardown(n) \/ Abandon(n)

Converge(n) ==
    \/ \E d \in DOMAIN dep, lost \in BOOLEAN :
          ClaimObligation(n, d, lost) \/ ClaimTarget(n, d, lost)
    \/ \E result \in {"applied", "recovered", "dirty"} :
          Execute(n, result) \/ Crash(n, result)
    \/ \E lost \in BOOLEAN : Deliver(n, lost)

Next ==
    \/ Release
    \/ Operate
    \/ Lifecycle
    \/ \E n \in Node : IssueToken(n) \/ Converge(n)

Spec == Init /\ [][Next]_vars

(* Agents poll forever, retry their spool, and lost messages are not lost   *)
(* forever; nothing obliges an operator to do anything.                     *)
FairSpec ==
    /\ Spec
    /\ WF_vars(SubmitPlan) /\ WF_vars(RefusePlan)
    /\ \A n \in Node :
        /\ WF_vars(\E d \in DOMAIN dep : ClaimObligation(n, d, FALSE))
        /\ WF_vars(\E d \in DOMAIN dep : ClaimTarget(n, d, FALSE))
        /\ WF_vars(\E result \in {"applied", "recovered", "dirty"} : Execute(n, result))
        /\ WF_vars(Deliver(n, FALSE))
----------------------------------------------------------------------------
(* Correctness.                                                            *)

Content == Nat \cup {Unsure}

Target ==
    [st : {"none", "skipped", "pending", "dispatched", "succeeded", "failed",
           "deferred", "superseded", "canceled"},
     ep : Nat, wave : Nat, disr : BOOLEAN, gr : Nat, fz : Nat \cup {Null},
     ost : {"none", "pending", "dispatched", "succeeded", "failed",
            "superseded", "canceled"},
     ogr : Nat, claim : Nat]

Kind == {"config", "grants"}

DeploymentRow ==
    [kind : Kind, rev : Nat, status : OpenDeployment \cup {"succeeded", "canceled"},
     settle : {"converged", "debt", "uncertain"},
     activation : {"waiting", "activated", "rejected"},
     confirmed : SUBSET Nat, tgt : [Node -> Target]]

NodeRow ==
    [iso : BOOLEAN, phase : Participating \cup {"retired", "abandoned"}, epoch : Nat,
     life : Nat, tok : BOOLEAN, cfg : Content, gr : Content]

\* Every row of every table is well typed, and a deployment is always one of a
\* revision that exists.
TypeOK ==
    /\ hist \in Seq([topo : [Node -> Nat], perm : Nat])
    /\ dep \in Seq(DeploymentRow)
    /\ \A d \in DOMAIN dep : dep[d].rev \in DOMAIN hist
    /\ node \in [Node -> NodeRow]
    /\ serving \in [dep : Nat, perm : Nat, iso : SUBSET Node]
    /\ draft \in [kind : Kind \cup {"none"}, rev : Nat, tgt : [Node -> Target]]
    /\ draft # NoDraft => draft.kind \in Kind /\ draft.rev \in DOMAIN hist
    /\ mach \in [Node -> [cfg : Content, gr : Content]]
    /\ agent \in [Node -> [pc : {"idle", "work", "spool"}, dep : Nat, claim : Nat,
                           kind : Kind \cup {"none"}, ok : BOOLEAN,
                           cfg : Content, gr : Content]]

\* deployments_single_flight: however releases, lifecycle changes and resumed
\* halts interleave, one configuration and one grants order are open at most.
SingleFlight ==
    \A d, e \in DOMAIN dep :
        Open(dep, d) /\ Open(dep, e) /\ dep[d].kind = dep[e].kind => d = e

InFlight(n) ==
    \E d \in DOMAIN dep : \/ Open(dep, d) /\ dep[d].tgt[n].st = "dispatched"
                          \/ dep[d].tgt[n].ost = "dispatched"

\* node_applied_state never lies: once no order is out with a machine, what the
\* control plane believes of it is what the machine runs, or "dirty".  The
\* planner skips machines on the strength of this, so a cancel, an isolation or
\* a lifecycle change that forgot an executing agent would break it.
Truthful ==
    \A n \in Node : ~InFlight(n) => /\ node[n].cfg \in {Unsure, mach[n].cfg}
                                    /\ node[n].gr \in {Unsure, mach[n].gr}

\* At most one debt of a kind is owed per machine and lifecycle epoch: an agent
\* can never replay an obligation that a newer one replaced.
OneDebt ==
    \A n \in Node, kind \in Kind : Cardinality(CurrentDebt(n, kind, Debt)) <= 1

\* A target goes out only when every earlier wave of its release is over, even
\* across failures, retries, isolations and replayed claims.
WaveOrder ==
    \A d \in DOMAIN dep : Open(dep, d) =>
        \A m, n \in Node : /\ dep[d].tgt[n].st = "dispatched"
                           /\ dep[d].tgt[m].st \in OpenTarget
                           => dep[d].tgt[n].wave <= dep[d].tgt[m].wave

\* No machine is disrupted, after the canary, by a release whose wave nobody
\* confirmed.  (A machine that is isolated executes its debt outside waves.)
DisruptionConfirmed ==
    \A d \in DOMAIN dep, n \in Node :
        LET t == dep[d].tgt[n]
        IN  /\ ~Unattended
            /\ t.disr
            /\ t.wave > 1 \/ hist[dep[d].rev].topo[n] = 0
            /\ t.st \in {"dispatched", "succeeded"}
            /\ t.ost = "none"
            => t.wave \in dep[d].confirmed

\* Debt of the current epoch is owed only by isolated machines, the only ones
\* whose poll reads node_convergence_obligations.
NoOrphanedDebt ==
    \A n \in Node, kind \in Kind :
        node[n].phase = "active" /\ CurrentDebt(n, kind, Debt) # {} => node[n].iso

\* A machine whose retirement is proved runs nothing, and no agent is still
\* working on an order that would start it again.
RetiredMeansOff ==
    \A n \in Node : node[n].phase = "retired" =>
        /\ mach[n].cfg = 0
        /\ ~(agent[n].pc = "work" /\ agent[n].kind = "config" /\ agent[n].cfg # 0)

\* settlement_status of a closed release is what its obligations say, also
\* when they are settled, superseded or canceled long after it closed.
LedgerTruthful ==
    \A d \in DOMAIN dep : ~Open(dep, d) => dep[d].settle = Settlement(dep[d].tgt)

\* The serving pointer moves to a release only when every participating machine
\* that is not isolated really runs that release's configuration.
ServeWhatRuns ==
    [][serving'.dep # serving.dep =>
        \A n \in Node : node'[n].phase \in Participating /\ ~node'[n].iso =>
            mach'[n].cfg = hist'[dep'[serving'.dep].rev].topo[n]]_vars

\* A caller is never ahead of the listener it dials within one release.
CallerWaits ==
    \A d \in DOMAIN dep : Open(dep, d) /\ dep[d].kind = "config" =>
        \A r \in Requires :
            /\ dep[d].tgt[r[1]].st \in {"dispatched", "succeeded"}
            /\ dep[d].tgt[r[1]].ost = "none"
            /\ dep[d].tgt[r[2]].st \notin {"none", "skipped"}
            => dep[d].tgt[r[2]].st = "succeeded"

\* No open release waits for a machine that no longer polls for its targets.
IsolatedNotBlocking ==
    \A d \in DOMAIN dep, n \in Node :
        Open(dep, d) /\ dep[d].tgt[n].st \in OpenTarget => ~Detached(node, n)

\* Every release comes to rest: it succeeds, is canceled, or halts.
ReleasesSettle ==
    \A d \in 1..MaxDep :
        (d \in DOMAIN dep /\ dep[d].status \in {"planned", "running"})
            ~> (d \in DOMAIN dep /\ dep[d].status \in {"succeeded", "halted", "canceled"})

\* The configuration debt of an isolated machine is eventually executed,
\* superseded, canceled or failed, whatever becomes of the release it came from.
DebtIsWorkedOff ==
    \A d \in 1..MaxDep, n \in Node :
        (d \in DOMAIN dep /\ dep[d].kind = "config" /\ dep[d].tgt[n].ost \in OpenTarget)
            ~> (d \in DOMAIN dep /\ dep[d].tgt[n].ost \notin OpenTarget)
=============================================================================
