--------------------------- MODULE DeploymentCases ---------------------------
(***************************************************************************)
(* What the release control plane keeps in addition where no machine dials *)
(* a listener of another one (Reachable), and where none is retired        *)
(* (Unblocked).  Without its condition debt is left to machines that       *)
(* cannot pay it, and a release waits for an isolated one, each on a       *)
(* schedule the code has.  Answered, that what counts as succeeded runs,   *)
(* rests on Reachable: only isolated machines are in debt.                 *)
(***************************************************************************)
EXTENDS DeploymentProofs
----------------------------------------------------------------------------
(* Isolation where no machine dials another one's listener.                *)

\* NoOrphanedDebt, with the debt that machines outside service keep.
Owed(dp, nd) ==
    \A d \in DOMAIN dp, n \in Node :
        dp[d].tgt[n].ost \in Debt =>
            nd[n].iso /\ (nd[n].phase = "active" => dp[d].tgt[n].ep = nd[n].epoch)

\* No target of the draft was put off: it has not met the isolated machines yet.
Fresh(plan) == \A n \in Node : plan.tgt[n].st # "deferred"

\* All debt of dq was debt in dp already.
NoNewDebt(dp, dq) ==
    \A d \in DOMAIN dq, n \in Node :
        dq[d].tgt[n].ost \in Debt =>
            d \in DOMAIN dp /\ dp[d].tgt[n].ost \in Debt /\ dq[d].tgt[n].ep = dp[d].tgt[n].ep

LEMMA SameOwed ==
    ASSUME NEW dp, NEW dq, NEW nd, NEW ne, NoNewDebt(dp, dq), SameMachines(nd, ne),
           Owed(dp, nd)
    PROVE  Owed(dq, ne)
<1> QED
  BY DEF NoNewDebt, SameMachines, Owed

LEMMA QuietOwed ==
    ASSUME NEW dp, NEW dq, Quiet(dp, dq), NEW d, NEW S, Owes(dp, dq, d, S), NEW nd,
           \A n \in S \cap Node : /\ nd[n].iso
                                  /\ nd[n].phase = "active" => dp[d].tgt[n].ep = nd[n].epoch,
           Owed(dp, nd)
    PROVE  Owed(dq, nd)
<1> SUFFICES ASSUME NEW e \in DOMAIN dp, NEW n \in Node, dq[e].tgt[n].ost \in Debt
             PROVE  nd[n].iso /\ (nd[n].phase = "active" => dq[e].tgt[n].ep = nd[n].epoch)
  BY DEF Owed, Quiet
<1>1. dq[e].tgt[n].ep = dp[e].tgt[n].ep
  BY DEF Quiet, QuietRow, Withdrawn
<1>2. dp[e].tgt[n].ost \in Debt \/ (e = d /\ n \in S)
  BY DEF Owes
<1> QED
  BY <1>1, <1>2 DEF Owed

LEMMA MarkIsolatedRows ==
    ASSUME NEW plan \in PlanRow, NEW isolated
    PROVE  \A n \in Node : MarkIsolated(plan, isolated).tgt[n].st =
                IF n \in DeferredBy(plan, isolated) THEN "deferred" ELSE plan.tgt[n].st
<1> DEFINE late == DeferredBy(plan, isolated)
           put(n) == [plan.tgt[n] EXCEPT !.st = "deferred"]
           tgt == [n \in Node |-> IF n \in late THEN put(n) ELSE plan.tgt[n]]
<1>1. MarkIsolated(plan, isolated) = [plan EXCEPT !.tgt = tgt]
  BY DEF MarkIsolated
<1>2. \A n \in Node : put(n).st = "deferred"
  BY DEF PlanRow, PlanTarget, Target
<1> HIDE DEF put
<1>3. \A n \in Node : tgt[n].st = IF n \in late THEN "deferred" ELSE plan.tgt[n].st
  BY <1>2
<1> HIDE DEF tgt, late
<1> QED
  BY <1>1, <1>3 DEF PlanRow, late

\* Every isolated target of a plan is put off ...
LEMMA IsolatedDeferred ==
    ASSUME NEW plan \in PlanRow, NEW isolated
    PROVE  \A n \in Node \cap isolated : MarkIsolated(plan, isolated).tgt[n].st # "pending"
<1> SUFFICES ASSUME NEW n \in Node \cap isolated
             PROVE  MarkIsolated(plan, isolated).tgt[n].st # "pending"
  OBVIOUS
<1>1. plan.tgt[n].st = "pending" => n \in DeferredBy(plan, isolated)
  BY DEF DeferredBy
<1> QED
  BY <1>1, MarkIsolatedRows

\* ... and nothing else, when no machine waits for another one.
LEMMA OnlyIsolatedDeferred ==
    ASSUME Requires = {}, NEW plan \in PlanRow, Fresh(plan), NEW isolated
    PROVE  \A n \in Node : MarkIsolated(plan, isolated).tgt[n].st = "deferred" => n \in isolated
<1> DEFINE pending == {n \in Node : plan.tgt[n].st = "pending"}
           waits   == IF plan.kind = "config" THEN Requires \cap (pending \X pending)
                                              ELSE {}
           closed  == {S \in SUBSET pending :
                          /\ pending \cap isolated \subseteq S
                          /\ \A r \in waits : r[2] \in S => r[1] \in S}
           late    == DeferredBy(plan, isolated)
<1>1. waits = {}
  OBVIOUS
<1>2. pending \cap isolated \in closed
  <2> HIDE DEF waits, pending
  <2> QED
    BY <1>1
<1>3. late = {n \in pending : \A S \in closed : n \in S}
  BY DEF DeferredBy
<1> HIDE DEF closed, late
<1>4. late \subseteq isolated
  BY <1>2, <1>3
<1> QED
  BY <1>4, MarkIsolatedRows DEF Fresh, late

LEMMA ConfigPlanFresh ==
    ASSUME NEW h, NEW r, NEW nd, NEW waves, NEW told
    PROVE  Fresh(ConfigPlan(h, r, nd, waves, told))
<1> SUFFICES ASSUME NEW n \in Node
             PROVE  ConfigPlan(h, r, nd, waves, told).tgt[n].st # "deferred"
  BY DEF Fresh
<1> DEFINE pending == [NoTarget EXCEPT !.st = "pending", !.wave = waves[n],
                                       !.disr = Disruptive(h, r, nd, told, n),
                                       !.gr = GrantsAt(h, r, n)]
           skipped == [NoTarget EXCEPT !.st = "skipped"]
<1>1. ConfigPlan(h, r, nd, waves, told).tgt[n] \in {pending, skipped, NoTarget}
  BY DEF ConfigPlan
<1>2. pending.st = "pending" /\ skipped.st = "skipped" /\ NoTarget.st = "none"
  BY DEF NoTarget
<1> HIDE DEF pending, skipped
<1> QED
  BY <1>1, <1>2

LEMMA GrantsPlanFresh ==
    ASSUME NEW h, NEW r, NEW nd
    PROVE  Fresh(GrantsPlan(h, r, nd))
<1> SUFFICES ASSUME NEW n \in Node
             PROVE  GrantsPlan(h, r, nd).tgt[n].st # "deferred"
  BY DEF Fresh
<1> DEFINE pending == [NoTarget EXCEPT !.st = "pending", !.gr = h[r].perm]
<1>1. GrantsPlan(h, r, nd).tgt[n] \in {pending, NoTarget}
  BY DEF GrantsPlan
<1>2. pending.st = "pending" /\ NoTarget.st = "none"
  BY DEF NoTarget
<1> HIDE DEF pending
<1> QED
  BY <1>1, <1>2

\* A new deployment owes only what its plan put off.
LEMMA InsertOwed ==
    ASSUME NEW h \in History, NEW dp \in Table, Dated(h, dp), NEW nd \in Nodes,
           NEW plan \in PlanRow, plan.rev \in DOMAIN h,
           \A n \in Planned(plan, "deferred") : nd[n].iso, Owed(dp, nd)
    PROVE  Owed(Insert(h, dp, nd, plan), InsertDirty(dp, nd, plan))
<1> DEFINE d    == Len(dp) + 1
           new  == Inserted(dp, nd, plan)
           S    == Planned(plan, "deferred")
           rows == Oblige(h, new, d, S)
           all  == Insert(h, dp, nd, plan)
           ne   == InsertDirty(dp, nd, plan)
<1>1. /\ new \in Table
      /\ DOMAIN new = DOMAIN dp \cup {d}
      /\ Open(new, d) /\ new[d].rev = plan.rev
      /\ \A e \in DOMAIN dp : new[e] = dp[e]
  BY InsertedType
<1>2. \A n \in Node : /\ new[d].tgt[n].st = plan.tgt[n].st
                      /\ new[d].tgt[n].ost = "none"
                      /\ plan.tgt[n].st # "none" => new[d].tgt[n].ep = nd[n].epoch
  BY InsertedRows
<1>3. all = IF Planned(plan, "pending") # {} THEN rows ELSE Refresh(rows, nd, d)
  BY DEF Insert
<1>4. SameMachines(nd, ne)
  BY MarkDirtyRows DEF InsertDirty, SameMachines
<1>5. /\ S \in SUBSET Node
      /\ \A n \in S : new[d].tgt[n].st = "deferred" /\ new[d].tgt[n].ep = nd[n].epoch
  BY <1>2 DEF Planned
<1>6. \A n \in S : nd[n].iso
  OBVIOUS
<1> HIDE DEF d, new, S, all, ne
<1>7. Owed(new, nd)
  BY <1>1, <1>2 DEF Owed, Debt
<1>8. rows \in Table
  <2>1. Dated(h, new)
    BY <1>1 DEF Dated
  <2> QED
    BY <1>1, <1>5, <2>1, ObligeType
<1>9. Owed(rows, nd) /\ DOMAIN rows = DOMAIN new /\ Open(rows, d)
  <2>1. Quiet(new, rows) /\ Owes(new, rows, d, S)
    BY <1>1, <1>5, ObligeQuiet
  <2>2. ObligedTable(new, d, S, rows)
    BY <1>1, <1>5, ObligeRows
  <2> HIDE DEF rows
  <2> QED
    BY <1>1, <1>5, <1>6, <1>7, <2>1, <2>2, QuietOwed DEF ObligedTable, Open
<1> HIDE DEF rows
<1>10. Owed(Refresh(rows, nd, d), nd)
  <2>1. Quiet(rows, Refresh(rows, nd, d)) /\ Owes(rows, Refresh(rows, nd, d), 0, {})
    BY <1>1, <1>8, <1>9, RefreshQuiet
  <2> QED
    BY <1>9, <2>1, QuietOwed
<1>11. Owed(all, nd)
  BY <1>3, <1>9, <1>10
<1>12. NoNewDebt(all, all)
  BY DEF NoNewDebt
<1> QED
  BY <1>4, <1>11, <1>12, SameOwed DEF all, ne
----------------------------------------------------------------------------
(* What the two large transactions leave in the tables.                    *)

\* Only a configuration release becomes a checkpoint when it is refreshed.
LEMMA RefreshServes ==
    ASSUME NEW dp \in Table, NEW nd, NEW d \in DOMAIN dp, dp[d].activation = "waiting",
           NEW sv, NEW ne
    PROVE  LET sv1 == Serve(sv, Refresh(dp, nd, d), ne, d)
           IN  sv1 = sv \/ (sv1.dep = d /\ dp[d].kind = "config")
<1>1. dp[d] \in DeploymentRow
  BY RowType
<1>2. Refresh(dp, nd, d)[d] = Refreshed(dp, nd, d)
  BY DEF Refresh
<1>3. Refreshed(dp, nd, d).activation = "activated" => dp[d].kind = "config"
  BY <1>1 DEF Refreshed, CoversFleet, DeploymentRow
<1> QED
  BY <1>2, <1>3 DEF Serve

\* isolate_node_inner: the machine's open targets all leave their waves, and
\* what it owes newly is of the current epoch.
LEMMA IsolateNodeRows ==
    ASSUME IInv, Safe, NEW n \in Node, IsolateNode(n)
    PROVE  /\ Quiet(dep, dep')
           /\ \A e \in DOMAIN dep, m \in Node : dep'[e].tgt[m].ost \in Debt =>
                 \/ dep[e].tgt[m].ost \in Debt
                 \/ /\ m = n /\ dep[e].tgt[n].ep = node[n].epoch
                    /\ Open(dep, e) /\ dep[e].tgt[n].st \in Debt
           /\ \A e \in DOMAIN dep : Open(dep, e) => ~Unsettled(dep'[e].tgt[n])
           /\ SameMachines([node EXCEPT ![n].iso = TRUE], node')
           /\ \/ serving'.dep = serving.dep
              \/ /\ serving'.dep \in DOMAIN dep /\ Open(dep, serving'.dep)
                 /\ dep[serving'.dep].kind = "config"
<1> DEFINE rows == {d \in DOMAIN dep : Open(dep, d) /\ dep[d].tgt[n].st \in Debt}
           lo   == CHOOSE d \in rows : \A e \in rows : d <= e
           hi   == CHOOSE d \in rows : \A e \in rows : e <= d
           one  == IF rows = {} THEN dep ELSE Detach(dep, lo, n)
           both == IF lo = hi THEN one ELSE Detach(one, hi, n)
           nd1  == [node EXCEPT ![n].iso = TRUE]
           nd2  == DetachDirty(dep, nd1, lo, n)
           nd3  == IF lo = hi THEN nd2 ELSE DetachDirty(one, nd2, hi, n)
           dp1  == Refresh(both, nd1, lo)
           dp2  == IF lo = hi THEN dp1 ELSE Refresh(dp1, nd1, hi)
           sv1  == Serve(serving, dp1, nd1, lo)
           sv2  == IF lo = hi THEN sv1 ELSE Serve(sv1, dp2, nd1, hi)
           gone(t) == t.st \notin Debt
<1>1. /\ hist \in History /\ dep \in Table /\ node \in Nodes /\ Dated(hist, dep) /\ Single(dep)
      /\ serving \in ServingRow
  BY DEF IInv, RevisionsOK, DeploymentsOK, NodesOK
<1>2. /\ dep' = IF rows = {} THEN dep ELSE dp2
      /\ node' = IF rows = {} THEN nd1 ELSE nd3
      /\ serving' = [(IF rows = {} THEN serving ELSE sv2) EXCEPT !.iso = Isolated(nd1)]
      /\ \A d \in rows : dep[d].tgt[n].ep = node[n].epoch
  BY DEF IsolateNode
<1>3. nd1 \in Nodes
  BY <1>1 DEF Nodes, NodeRow
<1>4. \A p, q \in DOMAIN dep : Open(dep, p) /\ Open(dep, q) /\ dep[p].kind = dep[q].kind => p = q
  BY <1>1 DEF Single
<1>5. \A e \in DOMAIN dep, t \in Target : ~gone(t) \/ ~Unsettled(t)
  BY DEF Unsettled, Debt, OpenTarget
<1>6. CASE rows = {}
  <2>1. Quiet(dep, dep)
    BY DEF Quiet, QuietRow, Withdrawn
  <2>2. \A e \in DOMAIN dep : Open(dep, e) => gone(dep[e].tgt[n])
    BY <1>6
  <2>3. \A e \in DOMAIN dep : dep[e].tgt[n] \in Target
    BY <1>1, RowType
  <2>4. serving'.dep = serving.dep
    BY <1>1, <1>2, <1>6 DEF ServingRow
  <2> HIDE DEF rows, nd1, gone
  <2> QED
    BY <1>2, <1>5, <1>6, <2>1, <2>2, <2>3, <2>4 DEF SameMachines, nd1
<1>7. CASE rows # {}
  <2>1. rows \subseteq 1..Len(dep) /\ Len(dep) \in Nat /\ rows \subseteq Nat
    BY <1>1 DEF Table
  <2>2. lo \in rows /\ \A e \in rows : lo <= e
    <3>1. \E d \in rows : \A e \in rows : d <= e
      BY <1>7, <2>1, SmallestNumber
    <3> HIDE DEF rows
    <3> QED
      BY <3>1
  <2>3. hi \in rows /\ \A e \in rows : e <= hi
    <3>1. \E d \in rows : \A e \in rows : e <= d
      BY <1>7, <2>1, LargestNumber
    <3> HIDE DEF rows
    <3> QED
      BY <3>1
  <2>4. /\ lo \in DOMAIN dep /\ Open(dep, lo) /\ dep[lo].tgt[n].ep = node[n].epoch
        /\ dep[lo].tgt[n].st \in Debt
        /\ hi \in DOMAIN dep /\ Open(dep, hi) /\ dep[hi].tgt[n].ep = node[n].epoch
        /\ dep[hi].tgt[n].st \in Debt
    BY <1>2, <2>2, <2>3
  <2>5. ASSUME NEW e \in rows
        PROVE  e \in {lo, hi}
    <3>1. \A d \in rows : d \in DOMAIN dep /\ Open(dep, d) /\ dep[d].kind \in Kind /\ d \in Nat
      BY <1>1, <2>1, RowType DEF DeploymentRow
    <3>2. lo <= e /\ e <= hi
      BY <2>2, <2>3
    <3> HIDE DEF rows, lo, hi
    <3>3. CASE lo = hi
      BY <2>2, <2>3, <3>1, <3>2, <3>3
    <3>4. CASE lo # hi
      BY <1>4, <2>2, <2>3, <3>1, <3>4 DEF Kind
    <3> QED
      BY <3>3, <3>4
  <2> HIDE DEF lo, hi, nd1
  <2>6. one = Detach(dep, lo, n)
    BY <1>7
  <2>7. \A e \in DOMAIN dep : Open(dep, e) /\ e \notin {lo, hi} => gone(dep[e].tgt[n])
    BY <2>5
  <2> HIDE DEF rows
  <2>8. one \in Table /\ Keeps(dep, one)
    BY <1>1, <2>4, <2>6, DetachType
  <2>9. /\ Quiet(dep, one)
        /\ \A e \in DOMAIN dep : one[e].status = dep[e].status
        /\ Owes(dep, one, lo, {n})
    BY <1>1, <2>4, <2>6, DetachQuiet
  <2>10. gone(one[lo].tgt[n])
    <3>1. DetachedTable(dep, lo, n, one)
      BY <1>1, <2>4, <2>6, DetachRows
    <3> QED
      BY <3>1 DEF DetachedTable, Debt
  <2>11. SameMachines(nd1, nd2) /\ nd2 \in Nodes
    BY <1>1, <1>3, <2>4, DetachCovered
  <2> HIDE DEF one, nd2
  <2>12. /\ hi \in DOMAIN one /\ Dated(hist, one) /\ DOMAIN one = DOMAIN dep
         /\ one[hi].tgt[n].st = "dispatched" => dep[hi].tgt[n].st = "dispatched"
         /\ one[hi].kind = dep[hi].kind
    BY <1>1, <2>4, <2>8, KeepsDated DEF Keeps, SameOrders
  <2>13. Open(one, hi)
    BY <2>4, <2>9 DEF Open
  <2>14. /\ both \in Table /\ Quiet(one, both) /\ Owes(one, both, hi, {n})
         /\ \A e \in DOMAIN one : both[e].status = one[e].status
         /\ gone(both[hi].tgt[n]) /\ SameMachines(nd1, nd3)
    <3>1. CASE lo = hi
      <4>1. both = one /\ nd3 = nd2
        BY <3>1
      <4>2. Quiet(one, one)
        BY DEF Quiet, QuietRow, Withdrawn
      <4>3. Owes(one, one, hi, {n})
        BY DEF Owes
      <4> HIDE DEF both, nd3, gone
      <4> QED
        BY <2>8, <2>10, <2>11, <3>1, <4>1, <4>2, <4>3
    <3>2. CASE lo # hi
      <4>1. both = Detach(one, hi, n) /\ nd3 = DetachDirty(one, nd2, hi, n)
        BY <3>2
      <4>2. /\ Quiet(one, both) /\ Owes(one, both, hi, {n})
            /\ \A e \in DOMAIN one : both[e].status = one[e].status
        BY <2>8, <2>12, <2>13, <4>1, DetachQuiet
      <4>3. both \in Table
        BY <1>1, <2>8, <2>12, <4>1, DetachType
      <4>4. SameMachines(nd2, nd3)
        BY <2>8, <2>11, <2>12, <4>1, DetachCovered
      <4>5. DetachedTable(one, hi, n, both)
        BY <2>8, <2>12, <4>1, DetachRows
      <4>6. gone(both[hi].tgt[n])
        BY <4>5 DEF DetachedTable, Debt
      <4> HIDE DEF both, nd3, gone
      <4> QED
        BY <2>11, <4>2, <4>3, <4>4, <4>6 DEF SameMachines
    <3> QED
      BY <3>1, <3>2
  <2> HIDE DEF both, nd3
  <2>15. lo \in DOMAIN both /\ DOMAIN both = DOMAIN dep /\ Open(both, lo)
    BY <2>4, <2>9, <2>12, <2>14 DEF Quiet, Open
  <2>16. Quiet(both, dp1) /\ Owes(both, dp1, 0, {})
    BY <2>14, <2>15, RefreshQuiet
  <2>17. /\ dp1 \in Table /\ DOMAIN dp1 = DOMAIN both
         /\ \A e \in DOMAIN both : e # lo => dp1[e] = both[e]
    BY <2>14, <2>15, RefreshType, RefreshRows
  <2>24. sv1 = serving \/ (sv1.dep = lo /\ dep[lo].kind = "config")
    <3>1. dep[lo].activation = "waiting"
      BY <2>4 DEF Safe, Sound, SoundRow, Open
    <3>2. QuietRow(dep[lo], one[lo]) /\ QuietRow(one[lo], both[lo])
      BY <2>4, <2>9, <2>12, <2>14 DEF Quiet
    <3>3. both[lo].activation = "waiting" /\ both[lo].kind = dep[lo].kind
      BY <2>4, <2>9, <2>15, <3>1, <3>2 DEF QuietRow, Open
    <3> QED
      BY <2>14, <2>15, <3>3, RefreshServes
  <2>25. lo # hi => /\ hi \in DOMAIN dp1 /\ dp1[hi].activation = "waiting"
                    /\ dp1[hi].kind = dep[hi].kind
    <3>1. dep[hi].activation = "waiting"
      BY <2>4 DEF Safe, Sound, SoundRow, Open
    <3>2. QuietRow(dep[hi], one[hi]) /\ QuietRow(one[hi], both[hi]) /\ Open(both, hi)
      BY <2>4, <2>9, <2>12, <2>13, <2>14 DEF Quiet, Open
    <3>3. both[hi].activation = "waiting" /\ both[hi].kind = dep[hi].kind
      BY <2>13, <3>1, <3>2 DEF QuietRow, Open
    <3> QED
      BY <2>12, <2>14, <2>17, <3>3 DEF Quiet
  <2>26. sv1 \in ServingRow
    BY <1>1, <2>15, <2>17, ServeType
  <2> HIDE DEF sv1, dp1
  <2>27. sv2 = sv1 \/ (sv2.dep = hi /\ dep[hi].kind = "config")
    BY <2>17, <2>25, RefreshServes
  <2>28. sv2 \in ServingRow
    <3>1. lo # hi => dp2 \in Table /\ hi \in DOMAIN dp2
      BY <2>17, <2>25, RefreshType, RefreshRows
    <3> HIDE DEF dp2
    <3> QED
      BY <2>26, <3>1, ServeType
  <2>29. serving'.dep = sv2.dep
    <3>1. serving' = [sv2 EXCEPT !.iso = Isolated(nd1)]
      BY <1>2, <1>7
    <3> HIDE DEF sv2
    <3> QED
      BY <2>28, <3>1 DEF ServingRow
  <2>30. \/ serving'.dep = serving.dep
         \/ /\ serving'.dep \in DOMAIN dep /\ Open(dep, serving'.dep)
            /\ dep[serving'.dep].kind = "config"
    <3> HIDE DEF sv2
    <3> QED
      BY <2>4, <2>24, <2>27, <2>29
  <2> HIDE DEF sv2
  <2>18. Quiet(both, dp2) /\ Owes(both, dp2, 0, {})
    <3>1. CASE lo = hi
      BY <2>16, <3>1
    <3>2. CASE lo # hi
      <4>1. hi \in DOMAIN dp1 /\ Open(dp1, hi)
        BY <2>4, <2>9, <2>12, <2>13, <2>14, <2>15, <2>17, <3>2 DEF Open
      <4>2. Quiet(dp1, dp2) /\ Owes(dp1, dp2, 0, {})
        BY <2>17, <3>2, <4>1, RefreshQuiet
      <4> HIDE DEF dp2
      <4>3. Quiet(both, dp2)
        BY <2>16, <4>2, QuietTransitive
      <4>4. Owes(both, dp2, 0, {})
        BY <2>16, <2>17, <4>2 DEF Owes
      <4> QED
        BY <4>3, <4>4
    <3> QED
      BY <3>1, <3>2
  <2> HIDE DEF dp2
  <2>19. Quiet(one, dp2)
    BY <2>14, <2>18, QuietTransitive
  <2>20. Quiet(dep, dp2)
    BY <2>9, <2>19, QuietTransitive
  <2>21. ASSUME NEW e \in DOMAIN dep, NEW m \in Node, dp2[e].tgt[m].ost \in Debt
         PROVE  \/ dep[e].tgt[m].ost \in Debt
                \/ /\ m = n /\ dep[e].tgt[n].ep = node[n].epoch
                   /\ Open(dep, e) /\ dep[e].tgt[n].st \in Debt
    BY <2>4, <2>9, <2>12, <2>14, <2>15, <2>18, <2>21 DEF Owes
  <2>22. ASSUME NEW e \in DOMAIN dep, Open(dep, e)
         PROVE  ~Unsettled(dp2[e].tgt[n])
    <3>1. CASE e \notin {lo, hi}
      BY <2>7, <2>20, <2>22, <3>1 DEF Quiet, QuietRow, Withdrawn, Unsettled, OpenTarget, Debt
    <3>2. CASE e = lo
      BY <2>10, <2>12, <2>19, <3>2 DEF Quiet, QuietRow, Withdrawn, Unsettled, OpenTarget, Debt
    <3>3. CASE e = hi
      BY <2>14, <2>15, <2>18, <3>3 DEF Quiet, QuietRow, Withdrawn, Unsettled, OpenTarget, Debt
    <3> QED
      BY <3>1, <3>2, <3>3
  <2>23. dep' = dp2 /\ node' = nd3
    BY <1>2, <1>7
  <2> QED
    BY <2>14, <2>20, <2>21, <2>22, <2>23, <2>30 DEF nd1
<1> QED
  BY <1>6, <1>7

\* The common tail of transition_node_status and abandon_node: what was open is
\* canceled (dp1, nd1), a retirement may complete (nd2), and a release is inserted
\* unless nothing moves.
Replanned(h, dp1, nd1, nd2, waves, isolated) ==
    LET full == ConfigPlan(h, Len(h), nd1, waves, {})
        plan == MarkIsolated(full, isolated)
    IN  /\ full \in PlanRow /\ plan \in PlanRow
        /\ plan.rev = Len(h) /\ plan.kind = "config"
        /\ \A m \in Node :
              /\ nd2[m].cfg = nd1[m].cfg
              /\ nd2[m].iso = nd1[m].iso /\ nd2[m].epoch = nd1[m].epoch
              /\ nd2[m].phase = nd1[m].phase \/ nd1[m].phase = "retiring"
              /\ nd2[m].phase = "active" => nd1[m].phase = "active"
        /\ SameMachines(nd2, node')
        /\ \/ dep' = dp1 /\ serving' = serving
           \/ /\ dep' = Insert(h, dp1, nd2, plan)
              /\ serving' = Serve(serving, dep', nd2, Len(dp1) + 1)
              /\ Planned(plan, "pending") \cup Planned(plan, "deferred") # {}

LEMMA ReplanRows ==
    ASSUME NEW n \in Node, NEW h \in History, Len(h) \in DOMAIN h,
           NEW dp \in Table, Dated(h, dp), NEW nd \in Nodes, NEW isolated,
           Replan(n, h, dp, nd, isolated)
    PROVE  LET dp1 == Cancel(dp, ActiveIds(dp))
               nd1 == CancelDirty(dp, nd, ActiveIds(dp))
           IN  /\ hist' = h /\ UNCHANGED <<draft, mach, agent>>
               /\ nd1 \in Nodes /\ dp1 \in Table /\ Dated(h, dp1)
               /\ \A d \in DOMAIN dp1 : ~Open(dp1, d)
               /\ \E waves \in WaveFunctions, nd2 \in Nodes :
                     Replanned(h, dp1, nd1, nd2, waves, isolated)
<1> DEFINE D   == ActiveIds(dp)
           dp1 == Cancel(dp, D)
           nd1 == CancelDirty(dp, nd, D)
           id  == Len(dp) + 1
<1>1. PICK waves \in {WavesFor(h, Len(h), nd1)} \cap WaveFunctions :
        LET plan    == MarkIsolated(ConfigPlan(h, Len(h), nd1, waves, {}), isolated)
            moved   == Planned(plan, "pending") \cup Planned(plan, "deferred")
            pending == n \in Planned(plan, "pending")
            torn    == nd1[n].phase = "retiring" /\ ~pending
            nd2     == [nd1 EXCEPT ![n].phase = IF torn THEN "retired" ELSE @,
                                   ![n].tok = @ /\ ~torn]
            rows    == Insert(h, dp1, nd2, plan)
        IN  /\ moved # {} => Len(dp) < MaxDep
            /\ hist' = h
            /\ dep' = IF moved = {} THEN dp1 ELSE rows
            /\ node' = IF moved = {} THEN nd2
                       ELSE [InsertDirty(dp1, nd2, plan) EXCEPT
                                ![n].life = IF nd2[n].phase = "retiring" /\ pending
                                            THEN id ELSE @]
            /\ serving' = IF moved = {} THEN serving ELSE Serve(serving, rows, nd2, id)
            /\ UNCHANGED <<draft, mach, agent>>
  BY DEF Replan
<1> DEFINE full    == ConfigPlan(h, Len(h), nd1, waves, {})
           plan    == MarkIsolated(full, isolated)
           moved   == Planned(plan, "pending") \cup Planned(plan, "deferred")
           pending == n \in Planned(plan, "pending")
           torn    == nd1[n].phase = "retiring" /\ ~pending
           nd2     == [nd1 EXCEPT ![n].phase = IF torn THEN "retired" ELSE @,
                                  ![n].tok = @ /\ ~torn]
           nd3     == InsertDirty(dp1, nd2, plan)
           life    == IF nd2[n].phase = "retiring" /\ pending THEN id ELSE nd3[n].life
           nd4     == [nd3 EXCEPT ![n].life = life]
           rows    == Insert(h, dp1, nd2, plan)
<1>2. /\ hist' = h
      /\ dep' = IF moved = {} THEN dp1 ELSE rows
      /\ node' = IF moved = {} THEN nd2 ELSE nd4
      /\ serving' = IF moved = {} THEN serving ELSE Serve(serving, rows, nd2, id)
      /\ UNCHANGED <<draft, mach, agent>>
  BY <1>1
<1>3. nd1 \in Nodes /\ dp1 \in Table /\ Keeps(dp, dp1)
  BY CancelDirtyType, CancelType
<1>4. \A d \in DOMAIN dp1 : ~Open(dp1, d)
  BY <1>3, CancelType DEF ActiveIds, Keeps
<1>5. Dated(h, dp1)
  BY <1>3, KeepsDated
<1>6. full \in PlanRow /\ full.rev = Len(h) /\ full.kind = "config"
  BY <1>1, <1>3, ConfigPlanType
<1> HIDE DEF D, dp1, nd1, full
<1>7. plan \in PlanRow /\ plan.rev = full.rev /\ plan.kind = full.kind
  BY <1>6, MarkIsolatedType
<1> HIDE DEF plan
<1>8. /\ \A m \in Node : /\ nd2[m].cfg = nd1[m].cfg
                         /\ nd2[m].iso = nd1[m].iso /\ nd2[m].epoch = nd1[m].epoch
                         /\ nd2[m].phase = nd1[m].phase \/ nd1[m].phase = "retiring"
                         /\ nd2[m].phase = "active" => nd1[m].phase = "active"
      /\ nd2 \in Nodes
  <2> HIDE DEF torn
  <2>1. nd1[n] \in NodeRow /\ torn \in BOOLEAN
    BY <1>3 DEF Nodes, torn
  <2> DEFINE p == IF torn THEN "retired" ELSE nd1[n].phase
             k == nd1[n].tok /\ ~torn
             put == [nd1[n] EXCEPT !.phase = p, !.tok = k]
  <2>2. p \in Participating \cup {"retired", "abandoned"} /\ k \in BOOLEAN
    BY <2>1 DEF NodeRow
  <2>3. nd2 = [nd1 EXCEPT ![n] = put]
    BY <1>3, <2>1 DEF Nodes, NodeRow
  <2>4. p = nd1[n].phase \/ (p = "retired" /\ nd1[n].phase = "retiring")
    BY DEF torn
  <2> HIDE DEF p, k, nd2
  <2>5. /\ put \in NodeRow /\ put.cfg = nd1[n].cfg
        /\ put.iso = nd1[n].iso /\ put.epoch = nd1[n].epoch /\ put.phase = p
    BY <2>1, <2>2 DEF NodeRow
  <2> HIDE DEF put
  <2>6. /\ nd2 \in Nodes
        /\ \A m \in Node : nd2[m] = IF m = n THEN put ELSE nd1[m]
    BY <1>3, <2>3, <2>5 DEF Nodes
  <2> QED
    BY <2>4, <2>5, <2>6
<1> HIDE DEF torn, nd2, pending
<1>9. SameMachines(nd2, node')
  <2>1. CASE moved = {}
    BY <1>2, <2>1 DEF SameMachines
  <2>2. CASE moved # {}
    <3>1. SameMachines(nd2, nd3)
      BY <1>8, MarkDirtyRows DEF InsertDirty, SameMachines
    <3>2. nd3 \in Nodes
      BY <1>8, InsertDirtyType
    <3> HIDE DEF nd3, life
    <3>3. SameMachines(nd3, nd4)
      BY <3>2 DEF Nodes, NodeRow, SameMachines
    <3>4. node' = nd4
      BY <1>2, <2>2
    <3> HIDE DEF nd4
    <3> QED
      BY <3>1, <3>3, <3>4 DEF SameMachines
  <2> QED
    BY <2>1, <2>2
<1>10. \/ dep' = dp1 /\ serving' = serving
       \/ /\ dep' = Insert(h, dp1, nd2, plan)
          /\ serving' = Serve(serving, dep', nd2, id)
          /\ Planned(plan, "pending") \cup Planned(plan, "deferred") # {}
  BY <1>2
<1>11. Len(dp1) = Len(dp)
  BY <1>3 DEF Keeps, Table
<1>12. Replanned(h, dp1, nd1, nd2, waves, isolated)
  BY <1>6, <1>7, <1>8, <1>9, <1>10, <1>11 DEF Replanned, full, plan
<1>13. waves \in WaveFunctions
  BY <1>1
<1> HIDE DEF nd2
<1>14. \E w \in WaveFunctions, nn \in Nodes : Replanned(h, dp1, nd1, nn, w, isolated)
  BY <1>8, <1>12, <1>13
<1> QED
  BY <1>2, <1>3, <1>4, <1>5, <1>14 DEF D, dp1, nd1

\* report_target_result for a target: one row reports, and its release is
\* refreshed unless it stays halted.
LEMMA SettleTargetRows ==
    ASSUME IInv, Safe, NEW n \in Node, agent[n].pc = "spool",
           SettleTarget(agent[n].dep, n)
    PROVE  LET d == agent[n].dep
               v == Verdict(d, n, dep[d].tgt[n].fz)
           IN  /\ d \in DOMAIN dep /\ Open(dep, d) /\ dep[d].tgt[n].st \in OpenTarget
               /\ DOMAIN dep' = DOMAIN dep
               /\ \A e \in DOMAIN dep \ {d} : dep'[e] = dep[e]
               /\ dep'[d].kind = dep[d].kind /\ dep'[d].rev = dep[d].rev
               /\ \A m \in Node \ {n} : dep'[d].tgt[m] = dep[d].tgt[m]
               /\ LET t == dep[d].tgt[n]
                      u == dep'[d].tgt[n]
                  IN  u.st = v /\ u.ost = t.ost /\ u.ep = t.ep
               /\ \A m \in Node : /\ node'[m].iso = node[m].iso
                                  /\ node'[m].epoch = node[m].epoch
                                  /\ node'[m].phase = "active" => node[m].phase = "active"
               /\ \/ serving' = serving
                  \/ \E dp \in Table :
                        /\ d \in DOMAIN dp /\ Len(dp) = Len(dep)
                        /\ dep' = Refresh(dp, node', d) /\ dp[d].tgt = dep'[d].tgt
                        /\ dp[d].kind = dep[d].kind /\ dp[d].activation = dep[d].activation
                        /\ serving' = Serve(serving, dep', node', d)
<1> DEFINE d    == agent[n].dep
           t    == dep[d].tgt[n]
           v    == Verdict(d, n, t.fz)
           done == TeardownProved(d, n, v)
           put  == [t EXCEPT !.st = v, !.fz = Null]
           tgt  == [dep[d].tgt EXCEPT ![n].st = v, ![n].fz = Null]
           row  == [dep[d] EXCEPT !.tgt = tgt]
           dp1  == [dep EXCEPT ![d] = row]
           seen == Observed(node, n)
           nd1  == [seen EXCEPT ![n].phase = IF done THEN "retired" ELSE @,
                                ![n].tok = @ /\ ~done]
           dp2  == Refresh(dp1, nd1, d)
<1>1. dep \in Table /\ d \in DOMAIN dep
  BY DEF IInv, DeploymentsOK, Safe, Believes
<1>2. /\ dep[d] \in DeploymentRow /\ t \in Target /\ dep[d].tgt \in [Node -> Target]
  BY <1>1, RowType DEF DeploymentRow
<1>3. /\ \/ dep' = dp1 /\ serving' = serving
         \/ dep' = dp2 /\ serving' = Serve(serving, dp2, nd1, d)
      /\ node' = nd1
      /\ Open(dep, d) /\ t.st \in OpenTarget
  BY DEF SettleTarget, SettlesTarget
<1>4. v \in {"succeeded", "failed"}
  BY VerdictType
<1>5. seen \in Nodes /\ SameMachines(node, seen)
  BY ObservedRows
<1> HIDE DEF d, v, done, seen
<1>6. put \in Target /\ put.st = v /\ put.ost = t.ost /\ put.ep = t.ep
  BY <1>2, <1>4 DEF Target
<1>7. tgt = [dep[d].tgt EXCEPT ![n] = put]
  BY <1>2 DEF Target
<1> HIDE DEF put, tgt
<1>8. /\ tgt \in [Node -> Target] /\ tgt[n] = put
      /\ \A m \in Node \ {n} : tgt[m] = dep[d].tgt[m]
  BY <1>2, <1>6, <1>7
<1>9. /\ row \in DeploymentRow /\ row.kind = dep[d].kind /\ row.rev = dep[d].rev
      /\ row.tgt = tgt /\ row.status = dep[d].status /\ row.activation = dep[d].activation
  BY <1>2, <1>8 DEF DeploymentRow
<1> HIDE DEF row
<1>10. /\ dp1 \in Table /\ DOMAIN dp1 = DOMAIN dep /\ Len(dp1) = Len(dep)
       /\ \A e \in DOMAIN dep : dp1[e] = IF e = d THEN row ELSE dep[e]
  BY <1>1, <1>9 DEF Table
<1>11. \A m \in Node : /\ nd1[m].iso = node[m].iso /\ nd1[m].epoch = node[m].epoch
                       /\ nd1[m].phase = "active" => node[m].phase = "active"
  BY <1>5 DEF Nodes, NodeRow, SameMachines
<1> HIDE DEF dp1, nd1
<1>12. /\ DOMAIN dp2 = DOMAIN dp1 /\ RefreshedRow(dp1[d], dp2[d])
       /\ \A e \in DOMAIN dp1 : e # d => dp2[e] = dp1[e]
  BY <1>1, <1>10, RefreshRows
<1> HIDE DEF dp2
<1>13. /\ DOMAIN dep' = DOMAIN dep
       /\ \A e \in DOMAIN dep \ {d} : dep'[e] = dep[e]
       /\ dep'[d].kind = dep[d].kind /\ dep'[d].rev = dep[d].rev /\ dep'[d].tgt = tgt
  BY <1>1, <1>3, <1>9, <1>10, <1>12 DEF RefreshedRow
<1>14. \/ serving' = serving
       \/ /\ dep' = Refresh(dp1, node', d) /\ dp1[d].tgt = dep'[d].tgt
          /\ dp1[d].kind = dep[d].kind /\ dp1[d].activation = dep[d].activation
          /\ serving' = Serve(serving, dep', node', d)
  BY <1>1, <1>3, <1>9, <1>10, <1>13 DEF dp2
<1> QED
  BY <1>1, <1>3, <1>6, <1>8, <1>10, <1>11, <1>13, <1>14 DEF d, v
----------------------------------------------------------------------------
(* Debt is owed by isolated machines, step by step.                        *)

Reachable == Owed(dep, node) /\ Fresh(draft)

\* The transactions that write one row and leave its debts and epochs alone.
SameDebts(r, q) ==
    \A m \in Node : /\ q.tgt[m].ost \in Debt => r.tgt[m].ost \in Debt
                    /\ q.tgt[m].ep = r.tgt[m].ep

LEMMA RowOwed ==
    ASSUME IInv, Reachable, NEW d \in DOMAIN dep, NEW row,
           dep' = [dep EXCEPT ![d] = row], SameDebts(dep[d], row),
           SameMachines(node, node'), UNCHANGED draft
    PROVE  Reachable'
<1>1. /\ DOMAIN dep' = DOMAIN dep
      /\ \A e \in DOMAIN dep : dep'[e] = IF e = d THEN row ELSE dep[e]
  BY DEF IInv, DeploymentsOK, Table
<1>2. NoNewDebt(dep, dep')
  BY <1>1 DEF NoNewDebt, SameDebts
<1> QED
  BY <1>2, SameOwed DEF Reachable

LEMMA CreateFromPlanOwed ==
    ASSUME Requires = {}, IInv, Reachable, NEW planned \in PlanRow,
           planned.rev \in DOMAIN hist, Fresh(planned), CreateFromPlan(planned)
    PROVE  Owed(dep', node')
<1> DEFINE plan == MarkIsolated(planned, Isolated(node))
<1>1. plan \in PlanRow /\ plan.rev \in DOMAIN hist
  BY MarkIsolatedType
<1>2. dep' = Insert(hist, dep, node, plan) /\ node' = InsertDirty(dep, node, plan)
  BY DEF CreateFromPlan
<1>3. \A n \in Planned(plan, "deferred") : node[n].iso
  BY OnlyIsolatedDeferred DEF Planned, Isolated
<1> HIDE DEF plan
<1> QED
  BY <1>1, <1>2, <1>3, InsertOwed
     DEF IInv, RevisionsOK, DeploymentsOK, NodesOK, Reachable

LEMMA ReleaseOwed ==
    ASSUME Requires = {}, IInv, Reachable, Release
    PROVE  Reachable'
<1>1. hist \in History /\ node \in Nodes
  BY DEF IInv, RevisionsOK, NodesOK
<1>2. ASSUME NEW plan \in PlanRow, plan.rev \in DOMAIN hist, Fresh(plan),
             PlanDeployment(plan) \/ CreateDeployment(plan)
      PROVE  Reachable'
  <2>1. CASE CreateDeployment(plan)
    BY <1>2, <2>1, CreateFromPlanOwed DEF CreateDeployment, Reachable
  <2>2. CASE PlanDeployment(plan)
    BY <1>2, <2>2 DEF PlanDeployment, Reachable
  <2> QED
    BY <1>2, <2>1, <2>2
<1>3. ASSUME NEW r \in DOMAIN hist, NEW waves \in WaveFunctions,
             \/ PlanDeployment(ConfigPlan(hist, r, node, waves, HotSwap))
             \/ CreateDeployment(ConfigPlan(hist, r, node, waves, HotSwap))
      PROVE  Reachable'
  BY <1>1, <1>2, <1>3, ConfigPlanType, ConfigPlanFresh
<1>4. ASSUME NEW r \in DOMAIN hist,
             \/ PlanDeployment(GrantsPlan(hist, r, node))
             \/ CreateDeployment(GrantsPlan(hist, r, node))
      PROVE  Reachable'
  BY <1>1, <1>2, <1>4, GrantsPlanType, GrantsPlanFresh
<1>5. Fresh(NoDraft)
  BY DEF Fresh, NoDraft, NoTarget
<1>6. CASE SubmitPlan
  <2>1. draft \in PlanRow /\ draft.rev \in DOMAIN hist
    BY <1>6 DEF SubmitPlan, IInv, DraftOK
  <2> QED
    BY <1>5, <1>6, <2>1, CreateFromPlanOwed DEF SubmitPlan, Reachable
<1>7. CASE RefusePlan
  BY <1>5, <1>7 DEF RefusePlan, Reachable
<1> QED
  BY <1>3, <1>4, <1>6, <1>7 DEF Release

LEMMA OperateOwed ==
    ASSUME IInv, Safe, Reachable, Operate
    PROVE  Reachable'
<1>1. /\ hist \in History /\ dep \in Table /\ node \in Nodes /\ Dated(hist, dep)
      /\ \A d \in DOMAIN dep : dep[d] \in DeploymentRow /\ dep[d].tgt \in [Node -> Target]
  BY RowType DEF IInv, RevisionsOK, DeploymentsOK, NodesOK, DeploymentRow
<1>2. SameMachines(node, node)
  BY DEF SameMachines
<1>3. ASSUME EditPermissions \/ \E n \in Node : EditTopology(n)
      PROVE  Reachable'
  BY <1>3 DEF EditPermissions, EditTopology, Reachable
<1>4. ASSUME NEW d \in DOMAIN dep, ConfirmWave(d)
      PROVE  Reachable'
  <2> DEFINE row == [dep[d] EXCEPT !.confirmed = @ \cup {CurrentWave(dep, d)}]
  <2>1. dep' = [dep EXCEPT ![d] = row] /\ UNCHANGED <<node, draft>>
    BY <1>4 DEF ConfirmWave
  <2>2. row.tgt = dep[d].tgt
    BY <1>1 DEF DeploymentRow
  <2> HIDE DEF row
  <2> QED
    BY <1>2, <2>1, <2>2, RowOwed DEF SameDebts
<1>5. ASSUME NEW d \in DOMAIN dep, HaltDeployment(d)
      PROVE  Reachable'
  <2> DEFINE row == [dep[d] EXCEPT !.status = "halted"]
  <2>1. dep' = [dep EXCEPT ![d] = row] /\ UNCHANGED <<node, draft>>
    BY <1>5 DEF HaltDeployment
  <2>2. row.tgt = dep[d].tgt
    BY <1>1 DEF DeploymentRow
  <2> HIDE DEF row
  <2> QED
    BY <1>2, <2>1, <2>2, RowOwed DEF SameDebts
<1>6. ASSUME NEW d \in DOMAIN dep, CancelDeployment(d)
      PROVE  Reachable'
  <2>1. /\ dep' = Cancel(dep, {d}) /\ node' = CancelDirty(dep, node, {d})
        /\ UNCHANGED draft
    BY <1>6 DEF CancelDeployment
  <2>2. Quiet(dep, dep') /\ Owes(dep, dep', 0, {}) /\ SameMachines(node, node')
    BY <1>1, <2>1, CancelQuiet, CancelCovered
  <2>3. Owed(dep', node)
    BY <2>2, QuietOwed DEF Reachable
  <2>4. NoNewDebt(dep', dep')
    BY DEF NoNewDebt
  <2> QED
    BY <2>1, <2>2, <2>3, <2>4, SameOwed DEF Reachable
<1>7. ASSUME NEW d \in DOMAIN dep, NEW n \in Node, RetryObligation(d, n)
      PROVE  Reachable'
  <2> DEFINE tgt == [dep[d].tgt EXCEPT ![n].ost = "pending", ![n].st = "deferred"]
             row == [dep[d] EXCEPT !.tgt = tgt, !.settle = Settlement(tgt)]
  <2>1. /\ dep' = [dep EXCEPT ![d] = row] /\ UNCHANGED <<node, draft>>
        /\ dep[d].tgt[n].ost = "failed"
    BY <1>7 DEF RetryObligation, FailedDebt
  <2>2. \A m \in Node : /\ m # n => tgt[m] = dep[d].tgt[m]
                        /\ tgt[m].ep = dep[d].tgt[m].ep
    BY <1>1 DEF Target
  <2> HIDE DEF tgt
  <2>3. row.tgt = tgt
    BY <1>1 DEF DeploymentRow
  <2> HIDE DEF row
  <2>4. SameDebts(dep[d], row)
    BY <2>1, <2>2, <2>3 DEF SameDebts, Debt
  <2>5. dep' = [dep EXCEPT ![d] = row] /\ SameMachines(node, node') /\ UNCHANGED draft
    BY <1>2, <2>1
  <2> QED
    BY ONLY <2>4, <2>5, IInv, Reachable, d \in DOMAIN dep, RowOwed
<1>8. ASSUME NEW d \in DOMAIN dep, NEW n \in Node, RetryTarget(d, n)
      PROVE  Reachable'
  <2> DEFINE tgt == [dep[d].tgt EXCEPT ![n].st = "pending", ![n].fz = Null]
             row == [dep[d] EXCEPT !.tgt = tgt, !.status = "running"]
  <2>1. dep' = [dep EXCEPT ![d] = row] /\ UNCHANGED <<node, draft>>
    BY <1>8 DEF RetryTarget
  <2>2. \A m \in Node : /\ tgt[m].ost = dep[d].tgt[m].ost
                        /\ tgt[m].ep = dep[d].tgt[m].ep
    BY <1>1 DEF Target
  <2> HIDE DEF tgt
  <2>3. row.tgt = tgt
    BY <1>1 DEF DeploymentRow
  <2> HIDE DEF row
  <2>4. SameDebts(dep[d], row)
    BY <2>1, <2>2, <2>3 DEF SameDebts
  <2>5. dep' = [dep EXCEPT ![d] = row] /\ SameMachines(node, node') /\ UNCHANGED draft
    BY <1>2, <2>1
  <2> QED
    BY ONLY <2>4, <2>5, IInv, Reachable, d \in DOMAIN dep, RowOwed
<1>9. ASSUME NEW n \in Node, IsolateNode(n)
      PROVE  Reachable'
  <2> DEFINE nd1 == [node EXCEPT ![n].iso = TRUE]
  <2>1. /\ Quiet(dep, dep') /\ SameMachines(nd1, node')
        /\ \A e \in DOMAIN dep, m \in Node : dep'[e].tgt[m].ost \in Debt =>
              \/ dep[e].tgt[m].ost \in Debt
              \/ m = n /\ dep[e].tgt[n].ep = node[n].epoch
    BY <1>9, IsolateNodeRows
  <2>2. \A m \in Node : /\ nd1[m].phase = node[m].phase /\ nd1[m].epoch = node[m].epoch
                        /\ nd1[m].iso = (node[m].iso \/ m = n)
    BY <1>1 DEF Nodes, NodeRow
  <2> HIDE DEF nd1
  <2>3. Owed(dep', node')
    <3> SUFFICES ASSUME NEW e \in DOMAIN dep, NEW m \in Node, dep'[e].tgt[m].ost \in Debt
                 PROVE  /\ node'[m].iso
                        /\ node'[m].phase = "active" => dep'[e].tgt[m].ep = node'[m].epoch
      BY <2>1 DEF Owed, Quiet
    <3>1. dep'[e].tgt[m].ep = dep[e].tgt[m].ep
      BY <2>1 DEF Quiet, QuietRow, Withdrawn
    <3>2. /\ node'[m].iso = nd1[m].iso /\ node'[m].phase = nd1[m].phase
          /\ node'[m].epoch = nd1[m].epoch
      BY <2>1 DEF SameMachines
    <3>3. CASE dep[e].tgt[m].ost \in Debt
      BY <2>2, <3>1, <3>2, <3>3 DEF Reachable, Owed
    <3>4. CASE m = n /\ dep[e].tgt[n].ep = node[n].epoch
      BY <2>2, <3>1, <3>2, <3>4
    <3> QED
      BY <2>1, <3>3, <3>4
  <2>4. UNCHANGED draft
    BY <1>9 DEF IsolateNode
  <2> QED
    BY <2>3, <2>4 DEF Reachable
<1>10. ASSUME NEW n \in Node, RestoreService(n)
       PROVE  Reachable'
  <2>1. /\ node' = [node EXCEPT ![n].iso = FALSE] /\ node[n].phase = "active"
        /\ UNCHANGED <<dep, draft>>
        /\ \A d \in DOMAIN dep : dep[d].tgt[n].ep = node[n].epoch
                                    => dep[d].tgt[n].ost \notin Debt
    BY <1>10 DEF RestoreService, Detached
  <2>2. \A d \in DOMAIN dep : dep[d].tgt[n].ost \notin Debt
    BY <2>1 DEF Reachable, Owed
  <2>3. \A m \in Node \ {n} : node'[m] = node[m]
    BY <1>1, <2>1 DEF Nodes
  <2> QED
    BY <2>1, <2>2, <2>3 DEF Reachable, Owed
<1> QED
  BY <1>3, <1>4, <1>5, <1>6, <1>7, <1>8, <1>9, <1>10 DEF Operate

LEMMA ReplanOwed ==
    ASSUME Requires = {}, Fresh(draft), NEW n \in Node, NEW h \in History,
           Len(h) \in DOMAIN h, NEW dp \in Table, Dated(h, dp), NEW nd \in Nodes,
           NEW isolated, Owed(dp, nd), \A m \in Node \cap isolated : nd[m].iso,
           Replan(n, h, dp, nd, isolated)
    PROVE  Reachable'
<1> DEFINE D   == ActiveIds(dp)
           dp1 == Cancel(dp, D)
           nd1 == CancelDirty(dp, nd, D)
<1>1. /\ UNCHANGED draft
      /\ nd1 \in Nodes /\ dp1 \in Table /\ Dated(h, dp1)
  BY ReplanRows
<1>2. PICK waves \in WaveFunctions, nd2 \in Nodes :
         Replanned(h, dp1, nd1, nd2, waves, isolated)
  BY ReplanRows
<1> DEFINE full == ConfigPlan(h, Len(h), nd1, waves, {})
           plan == MarkIsolated(full, isolated)
<1>3. Quiet(dp, dp1) /\ Owes(dp, dp1, 0, {}) /\ SameMachines(nd, nd1)
  BY CancelQuiet, CancelCovered
<1> HIDE DEF D, dp1, nd1
<1>4. Fresh(full)
  BY ConfigPlanFresh
<1>5. /\ full \in PlanRow /\ plan \in PlanRow /\ plan.rev \in DOMAIN h
      /\ \A m \in Node :
            /\ nd2[m].iso = nd1[m].iso /\ nd2[m].epoch = nd1[m].epoch
            /\ nd2[m].phase = "active" => nd1[m].phase = "active"
      /\ dep' = dp1 \/ dep' = Insert(h, dp1, nd2, plan)
      /\ SameMachines(nd2, node')
  BY <1>2 DEF Replanned
<1> HIDE DEF full
<1>6. \A m \in Planned(plan, "deferred") : m \in Node \cap isolated
  BY <1>4, <1>5, OnlyIsolatedDeferred DEF Planned
<1> HIDE DEF plan
<1>7. \A m \in Planned(plan, "deferred") : nd2[m].iso
  BY <1>3, <1>5, <1>6 DEF SameMachines
<1>8. Owed(dp1, nd2)
  <2>1. Owed(dp1, nd)
    BY <1>3, QuietOwed
  <2> QED
    BY <1>3, <1>5, <2>1 DEF Owed, SameMachines
<1>9. NoNewDebt(dep', dep')
  BY DEF NoNewDebt
<1>10. CASE dep' = dp1
  BY <1>1, <1>5, <1>8, <1>9, <1>10, SameOwed DEF Reachable
<1>11. CASE dep' = Insert(h, dp1, nd2, plan)
  <2>1. Owed(dep', InsertDirty(dp1, nd2, plan))
    BY <1>1, <1>5, <1>7, <1>8, <1>11, InsertOwed
  <2>2. SameMachines(InsertDirty(dp1, nd2, plan), node')
    BY <1>5, MarkDirtyRows DEF InsertDirty, SameMachines
  <2> QED
    BY <1>1, <1>9, <2>1, <2>2, SameOwed DEF Reachable
<1> QED
  BY <1>5, <1>10, <1>11

LEMMA LifecycleOwed ==
    ASSUME Requires = {}, IInv, Reachable, NEW n \in Node,
           Retire(n) \/ Reactivate(n) \/ RepairTeardown(n) \/ Abandon(n)
    PROVE  Reachable'
<1>1. /\ hist \in History /\ dep \in Table /\ node \in Nodes /\ Dated(hist, dep)
      /\ Len(hist) \in DOMAIN hist /\ hist[Len(hist)] \in RevisionRow /\ Len(hist) \in Nat
      /\ Fresh(draft)
  BY LatestRow DEF IInv, RevisionsOK, DeploymentsOK, NodesOK, Latest, Reachable
<1>2. ASSUME NEW row \in RevisionRow
      PROVE  /\ Append(hist, row) \in History
             /\ Len(Append(hist, row)) \in DOMAIN Append(hist, row)
             /\ DOMAIN hist \subseteq DOMAIN Append(hist, row)
  BY <1>1 DEF History
<1>3. AdvanceDirty(dep, node, n) \in Nodes /\ SameMachines(node, AdvanceDirty(dep, node, n))
  BY <1>1, AdvanceDirtyType, AdvanceCovered
<1>4. AdvanceIntent(dep, n) \in Table /\ Dated(hist, AdvanceIntent(dep, n))
  BY <1>1, AdvanceIntentType, KeepsDated
<1>5. ASSUME NEW row \in RevisionRow, NEW phase \in {"retiring", "active"},
             NEW isolated, isolated \in {{}, Isolated(node)},
             Replan(n, Append(hist, row), AdvanceIntent(dep, n),
                    Advanced(AdvanceDirty(dep, node, n), n, phase), isolated)
      PROVE  Reachable'
  <2> DEFINE dp == AdvanceIntent(dep, n)
             ad == AdvanceDirty(dep, node, n)
             nd == Advanced(ad, n, phase)
             h  == Append(hist, row)
  <2>1. /\ Quiet(dep, dp) /\ Owes(dep, dp, 0, {})
        /\ \A d \in DOMAIN dep : dp[d].tgt[n].ost \notin Debt
    BY <1>1, AdvanceIntentQuiet
  <2>2. phase \in Participating \cup {"retired", "abandoned"}
    BY DEF Participating
  <2>3. nd \in Nodes
    BY <1>3, <2>2, AdvancedType
  <2>4. \A m \in Node : nd[m].iso = ad[m].iso /\ (m # n => nd[m] = ad[m])
    BY <1>3, AdvancedRows
  <2>5. /\ h \in History /\ Len(h) \in DOMAIN h /\ Dated(h, dp) /\ dp \in Table
    BY <1>2, <1>4 DEF Dated
  <2>6. Replan(n, h, dp, nd, isolated)
    BY <1>5
  <2> HIDE DEF dp, nd, ad, h
  <2>7. Owed(dp, node)
    BY <2>1, QuietOwed DEF Reachable
  <2>8. Owed(dp, nd)
    BY <1>3, <2>1, <2>4, <2>7 DEF Owed, SameMachines, Quiet, ad
  <2>9. \A m \in Node \cap isolated : nd[m].iso
    BY <1>3, <1>5, <2>4 DEF SameMachines, Isolated, ad
  <2> QED
    BY <1>1, <2>3, <2>5, <2>6, <2>8, <2>9, ReplanOwed
<1>6. CASE Retire(n)
  <2> DEFINE row == [hist[Latest] EXCEPT !.topo[n] = 0]
  <2>1. row \in RevisionRow
    BY <1>1 DEF RevisionRow, Latest
  <2>2. Replan(n, Append(hist, row), AdvanceIntent(dep, n),
               Advanced(AdvanceDirty(dep, node, n), n, "retiring"), {})
    BY <1>6 DEF Retire
  <2> HIDE DEF row
  <2> QED
    BY <1>5, <2>1, <2>2
<1>7. CASE Reactivate(n)
  <2> DEFINE row == [hist[Latest] EXCEPT !.topo[n] = Latest + 1]
  <2>1. row \in RevisionRow
    BY <1>1 DEF RevisionRow, Latest
  <2>2. Replan(n, Append(hist, row), AdvanceIntent(dep, n),
               Advanced(AdvanceDirty(dep, node, n), n, "active"), Isolated(node))
    BY <1>7 DEF Reactivate
  <2> HIDE DEF row
  <2> QED
    BY <1>5, <2>1, <2>2
<1>8. CASE RepairTeardown(n)
  <2> DEFINE nd == AdvanceDirty(dep, node, n)
  <2>1. Replan(n, hist, dep, nd, {})
    BY <1>8 DEF RepairTeardown
  <2>2. NoNewDebt(dep, dep)
    BY DEF NoNewDebt
  <2>3. nd \in Nodes /\ SameMachines(node, nd)
    BY <1>3
  <2> HIDE DEF nd
  <2>4. Owed(dep, nd)
    BY <2>2, <2>3, SameOwed DEF Reachable
  <2> QED
    BY <1>1, <2>1, <2>3, <2>4, ReplanOwed
<1>9. CASE Abandon(n)
  <2> DEFINE ad == Advanced(node, n, "abandoned")
             nd == [ad EXCEPT ![n].tok = FALSE]
  <2>1. Replan(n, hist, dep, nd, {})
    BY <1>9 DEF Abandon
  <2>2. ad \in Nodes
    BY <1>1, AdvancedType
  <2>3. /\ ad[n].phase = "abandoned"
        /\ \A m \in Node : ad[m].iso = node[m].iso /\ (m # n => ad[m] = node[m])
    BY <1>1, AdvancedRows
  <2> HIDE DEF ad
  <2>4. /\ nd \in Nodes
        /\ \A m \in Node : /\ nd[m].iso = ad[m].iso /\ nd[m].phase = ad[m].phase
                           /\ m # n => nd[m] = ad[m]
    BY <2>2 DEF Nodes, NodeRow
  <2> HIDE DEF nd
  <2>5. Owed(dep, nd)
    BY <2>3, <2>4 DEF Owed, Reachable
  <2> QED
    BY <1>1, <2>1, <2>4, <2>5, ReplanOwed
<1> QED
  BY <1>6, <1>7, <1>8, <1>9

LEMMA ConvergeOwed ==
    ASSUME IInv, Safe, Reachable, NEW n \in Node, Converge(n)
    PROVE  Reachable'
<1>1. /\ dep \in Table /\ node \in Nodes
      /\ \A d \in DOMAIN dep : dep[d] \in DeploymentRow /\ dep[d].tgt \in [Node -> Target]
  BY RowType DEF IInv, DeploymentsOK, NodesOK, DeploymentRow
<1>2. SameMachines(node, node)
  BY DEF SameMachines
<1>3. ASSUME NEW d \in DOMAIN dep, NEW lost \in BOOLEAN, ClaimObligation(n, d, lost)
      PROVE  Reachable'
  <2> DEFINE t     == dep[d].tgt[n]
             claim == IF t.ost = "pending" THEN t.claim + 1 ELSE t.claim
             tgt   == [dep[d].tgt EXCEPT ![n].ost = "dispatched", ![n].claim = claim]
             row   == [dep[d] EXCEPT !.tgt = tgt]
  <2>1. /\ dep' = [dep EXCEPT ![d] = row] /\ UNCHANGED <<node, draft>>
        /\ t.ost \in OpenTarget
    BY <1>3 DEF ClaimObligation, CurrentDebt
  <2>2. \A m \in Node : /\ m # n => tgt[m] = dep[d].tgt[m]
                        /\ tgt[m].ep = dep[d].tgt[m].ep
    BY <1>1 DEF Target
  <2> HIDE DEF tgt
  <2>3. row.tgt = tgt
    BY <1>1 DEF DeploymentRow
  <2> HIDE DEF row
  <2>4. SameDebts(dep[d], row)
    BY <2>1, <2>2, <2>3 DEF SameDebts, Debt, OpenTarget
  <2>5. dep' = [dep EXCEPT ![d] = row] /\ SameMachines(node, node') /\ UNCHANGED draft
    BY <1>2, <2>1
  <2> QED
    BY ONLY <2>4, <2>5, IInv, Reachable, d \in DOMAIN dep, RowOwed
<1>4. ASSUME NEW d \in DOMAIN dep, NEW lost \in BOOLEAN, ClaimTarget(n, d, lost)
      PROVE  Reachable'
  <2> DEFINE t     == dep[d].tgt[n]
             gr    == IF t.st = "pending" THEN t.gr ELSE t.fz
             tgt   == [dep[d].tgt EXCEPT ![n].st = "dispatched", ![n].fz = gr]
             row   == [dep[d] EXCEPT !.tgt = tgt, !.status = "running"]
  <2>1. /\ dep' = dep \/ dep' = [dep EXCEPT ![d] = row]
        /\ UNCHANGED <<node, draft>>
    BY <1>4 DEF ClaimTarget
  <2>2. \A m \in Node : /\ tgt[m].ost = dep[d].tgt[m].ost
                        /\ tgt[m].ep = dep[d].tgt[m].ep
    BY <1>1 DEF Target
  <2> HIDE DEF tgt
  <2>3. row.tgt = tgt
    BY <1>1 DEF DeploymentRow
  <2> HIDE DEF row
  <2>4. SameDebts(dep[d], row)
    BY <2>1, <2>2, <2>3 DEF SameDebts
  <2>5. CASE dep' = dep
    BY <2>1, <2>5 DEF Reachable
  <2>6. CASE dep' = [dep EXCEPT ![d] = row]
    BY <1>2, <2>1, <2>4, <2>6, RowOwed
  <2> QED
    BY <2>1, <2>5, <2>6 DEF Reachable
<1>5. ASSUME NEW result, Execute(n, result) \/ Crash(n, result)
      PROVE  Reachable'
  BY <1>5 DEF Execute, Crash, Reachable
<1>6. ASSUME NEW lost \in BOOLEAN, Deliver(n, lost)
      PROVE  Reachable'
  <2> DEFINE d == agent[n].dep
  <2>1. /\ SettleObligation(d, n) \/ SettleTarget(d, n) \/ RefuseReport(d, n)
        /\ agent[n].pc = "spool" /\ UNCHANGED draft
    BY <1>6 DEF Deliver
  <2>2. d \in DOMAIN dep
    BY <2>1 DEF Safe, Believes
  <2>3. CASE RefuseReport(d, n)
    BY <2>1, <2>3 DEF RefuseReport, Reachable
  <2>4. CASE SettleObligation(d, n)
    <3> DEFINE v   == Verdict(d, n, dep[d].tgt[n].ogr)
               tgt == [dep[d].tgt EXCEPT ![n].st = v, ![n].ost = v, ![n].fz = Null]
               row == [dep[d] EXCEPT !.tgt = tgt, !.settle = Settlement(tgt)]
    <3>1. /\ dep' = [dep EXCEPT ![d] = row] /\ node' = Observed(node, n)
          /\ dep[d].tgt[n].ost = "dispatched"
      BY <2>4 DEF SettleObligation, SettlesObligation, ForObligation
    <3>2. SameMachines(node, node')
      BY <3>1, ObservedRows
    <3>3. /\ dep[d] \in DeploymentRow
          /\ dep[d].tgt \in [Node -> Target] /\ dep[d].tgt[n] \in Target
      BY <1>1, <2>2
    <3> HIDE DEF v, d
    <3>4. \A m \in Node : /\ m # n => tgt[m] = dep[d].tgt[m]
                          /\ tgt[m].ep = dep[d].tgt[m].ep
      BY ONLY <3>3 DEF Target
    <3> HIDE DEF tgt
    <3>5. row.tgt = tgt
      BY ONLY <3>3 DEF DeploymentRow
    <3> HIDE DEF row
    <3>6. SameDebts(dep[d], row)
      BY <3>1, <3>4, <3>5 DEF SameDebts, Debt
    <3> QED
      BY ONLY <2>1, <2>2, <3>1, <3>2, <3>6, IInv, Reachable, RowOwed
  <2>5. CASE SettleTarget(d, n)
    <3>1. /\ DOMAIN dep' = DOMAIN dep
          /\ \A e \in DOMAIN dep \ {d} : dep'[e] = dep[e]
          /\ \A m \in Node \ {n} : dep'[d].tgt[m] = dep[d].tgt[m]
          /\ dep'[d].tgt[n].ost = dep[d].tgt[n].ost /\ dep'[d].tgt[n].ep = dep[d].tgt[n].ep
          /\ \A m \in Node : /\ node'[m].iso = node[m].iso /\ node'[m].epoch = node[m].epoch
                             /\ node'[m].phase = "active" => node[m].phase = "active"
      BY <2>1, <2>5, SettleTargetRows
    <3> HIDE DEF d
    <3>2. \A e \in DOMAIN dep, m \in Node :
             dep'[e].tgt[m].ost = dep[e].tgt[m].ost /\ dep'[e].tgt[m].ep = dep[e].tgt[m].ep
      BY <3>1
    <3> QED
      BY <2>1, <3>1, <3>2 DEF Reachable, Owed
  <2> QED
    BY <2>1, <2>3, <2>4, <2>5
<1> QED
  BY <1>3, <1>4, <1>5, <1>6 DEF Converge

LEMMA NextOwed ==
    ASSUME Requires = {}
    PROVE  (IInv /\ Safe /\ Reachable) /\ [Next]_vars => Reachable'
<1> SUFFICES ASSUME IInv, Safe, Reachable, [Next]_vars
             PROVE  Reachable'
  OBVIOUS
<1>1. CASE UNCHANGED vars
  BY <1>1 DEF vars, Reachable
<1>2. CASE Release
  BY <1>2, ReleaseOwed
<1>3. CASE Operate
  BY <1>3, OperateOwed
<1>4. CASE Lifecycle
  BY <1>4, LifecycleOwed DEF Lifecycle
<1>5. ASSUME NEW n \in Node, IssueToken(n)
      PROVE  Reachable'
  <2>1. node \in Nodes
    BY DEF IInv, NodesOK
  <2>2. SameMachines(node, node') /\ UNCHANGED <<dep, draft>>
    BY <1>5, <2>1 DEF IssueToken, SameMachines, Nodes, NodeRow
  <2>3. NoNewDebt(dep, dep)
    BY DEF NoNewDebt
  <2> QED
    BY <2>2, <2>3, SameOwed DEF Reachable
<1>6. ASSUME NEW n \in Node, Converge(n)
      PROVE  Reachable'
  BY <1>6, ConvergeOwed
<1> QED
  BY <1>1, <1>2, <1>3, <1>4, <1>5, <1>6 DEF Next

\* Where no machine dials a listener of another one, defer_listener_dependents
\* defers isolated machines only, and restore_node_service, isolate_node_inner
\* and the lifecycle never leave an active machine outside isolation with debt
\* that only the poll of an isolated machine reads.
THEOREM DebtIsDeliverable ==
    ASSUME Requires = {}
    PROVE  Spec => []NoOrphanedDebt
<1>1. Init => Reachable
  <2> SUFFICES ASSUME Init
               PROVE  Reachable
    OBVIOUS
  <2>1. dep = <<FirstRelease>> /\ draft = NoDraft
    BY DEF Init
  <2>2. \A n \in Node : FirstRelease.tgt[n].ost = "none" /\ NoDraft.tgt[n].st = "none"
    BY DEF FirstRelease, NoDraft, NoTarget
  <2> QED
    BY <2>1, <2>2 DEF Reachable, Owed, Fresh, Debt
<1>2. (IInv /\ Safe /\ Reachable) /\ [Next]_vars => (IInv /\ Safe /\ Reachable)'
  BY NextIInv, NextSafe, NextOwed
<1>3. IInv /\ Safe /\ Reachable => NoOrphanedDebt
  BY DEF Reachable, Owed, NoOrphanedDebt, CurrentDebt
<1>4. Init => IInv /\ Safe
  BY InitIInv, InitSafe
<1> QED
  BY <1>1, <1>2, <1>3, <1>4, PTL DEF Spec
----------------------------------------------------------------------------
(* Releases and isolation where no machine is ever retired.                *)

\* IsolatedNotBlocking, with the failed targets a retry sends back to a wave.
Clear(dp, nd) ==
    \A d \in DOMAIN dp, n \in Node :
        Open(dp, d) /\ Unsettled(dp[d].tgt[n]) => ~nd[n].iso

Unblocked ==
    /\ Clear(dep, node)
    /\ \A n \in Node : hist[Latest].topo[n] # 0

\* No release was reopened, and no target that had left its wave came back.
Leaves(r, q) ==
    q.status \in OpenDeployment =>
        /\ r.status \in OpenDeployment
        /\ \A n \in Node : Unsettled(q.tgt[n]) => Unsettled(r.tgt[n])

LEMMA LeavesClear ==
    ASSUME NEW dp, NEW dq, DOMAIN dq = DOMAIN dp,
           \A d \in DOMAIN dp : Leaves(dp[d], dq[d]), NEW nd, NEW ne,
           \A n \in Node : ne[n].iso => nd[n].iso, Clear(dp, nd)
    PROVE  Clear(dq, ne)
<1> QED
  BY DEF Leaves, Clear, Open

LEMMA QuietLeaves ==
    ASSUME NEW dp, NEW dq, Quiet(dp, dq)
    PROVE  DOMAIN dq = DOMAIN dp /\ \A d \in DOMAIN dp : Leaves(dp[d], dq[d])
<1> SUFFICES ASSUME NEW d \in DOMAIN dp
             PROVE  Leaves(dp[d], dq[d])
  BY DEF Quiet
<1>1. QuietRow(dp[d], dq[d])
  BY DEF Quiet
<1> QED
  BY <1>1 DEF QuietRow, Withdrawn, Unsettled, OpenTarget, Leaves

LEMMA RowClear ==
    ASSUME IInv, Unblocked, NEW d \in DOMAIN dep, NEW row,
           dep' = [dep EXCEPT ![d] = row], Leaves(dep[d], row),
           SameMachines(node, node'), UNCHANGED hist
    PROVE  Unblocked'
<1>1. /\ DOMAIN dep' = DOMAIN dep
      /\ \A e \in DOMAIN dep : dep'[e] = IF e = d THEN row ELSE dep[e]
  BY DEF IInv, DeploymentsOK, Table
<1>2. \A e \in DOMAIN dep : Leaves(dep[e], dep'[e])
  BY <1>1 DEF Leaves
<1>3. \A n \in Node : node'[n].iso => node[n].iso
  BY DEF SameMachines
<1>4. DOMAIN dep' = DOMAIN dep /\ Clear(dep, node)
  BY <1>1 DEF Unblocked
<1>5. Clear(dep', node')
  BY ONLY <1>2, <1>3, <1>4, LeavesClear
<1> QED
  BY <1>5 DEF Unblocked, Latest

LEMMA CreateFromPlanClear ==
    ASSUME IInv, Unblocked, NEW planned \in PlanRow, planned.rev \in DOMAIN hist,
           CreateFromPlan(planned)
    PROVE  Unblocked'
<1> DEFINE plan == MarkIsolated(planned, Isolated(node))
           d    == Len(dep) + 1
           new  == Inserted(dep, node, plan)
           S    == Planned(plan, "deferred")
           rows == Oblige(hist, new, d, S)
<1>1. plan \in PlanRow /\ plan.rev \in DOMAIN hist
  BY MarkIsolatedType
<1>2. /\ dep' = Insert(hist, dep, node, plan) /\ node' = InsertDirty(dep, node, plan)
      /\ UNCHANGED hist
  BY DEF CreateFromPlan
<1>3. \A n \in Node : plan.tgt[n].st = "pending" => ~node[n].iso
  BY IsolatedDeferred DEF Isolated
<1> HIDE DEF plan
<1>4. hist \in History /\ dep \in Table /\ node \in Nodes /\ Dated(hist, dep)
  BY DEF IInv, RevisionsOK, DeploymentsOK, NodesOK
<1>5. /\ new \in Table
      /\ DOMAIN new = DOMAIN dep \cup {d}
      /\ Open(new, d) /\ new[d].rev = plan.rev
      /\ \A e \in DOMAIN dep : new[e] = dep[e]
  BY <1>1, <1>4, InsertedType
<1>6. \A n \in Node : /\ new[d].tgt[n].st = plan.tgt[n].st
                      /\ plan.tgt[n].st \in {"none", "skipped", "pending", "deferred"}
  BY <1>1, <1>4, InsertedRows DEF PlanRow, PlanTarget
<1>7. S \in SUBSET Node /\ \A n \in S : new[d].tgt[n].st = "deferred"
  BY <1>6 DEF Planned
<1>8. dep' \in {rows, Refresh(rows, node, d)}
  BY <1>2 DEF Insert
<1>9. SameMachines(node, node')
  BY <1>2, <1>4, MarkDirtyRows DEF InsertDirty, SameMachines
<1> HIDE DEF d, new, S
<1>10. Clear(new, node)
  BY <1>3, <1>5, <1>6 DEF Clear, Unsettled, OpenTarget, Open, Unblocked
<1>11. rows \in Table
  <2>1. Dated(hist, new)
    BY <1>1, <1>4, <1>5 DEF Dated
  <2> QED
    BY <1>4, <1>5, <1>7, <2>1, ObligeType
<1>12. Quiet(new, rows)
  BY <1>5, <1>7, ObligeQuiet
<1>13. d \in DOMAIN rows /\ Open(rows, d)
  <2>1. ObligedTable(new, d, S, rows)
    BY <1>5, <1>7, ObligeRows
  <2> HIDE DEF rows
  <2> QED
    BY <1>5, <2>1 DEF ObligedTable, Open
<1> HIDE DEF rows
<1>14. Clear(rows, node)
  BY <1>10, <1>12, QuietLeaves, LeavesClear
<1>15. Clear(Refresh(rows, node, d), node)
  <2>1. Quiet(rows, Refresh(rows, node, d))
    BY <1>11, <1>13, RefreshQuiet
  <2> QED
    BY <1>14, <2>1, QuietLeaves, LeavesClear
<1>16. Clear(dep', node')
  BY <1>8, <1>9, <1>14, <1>15 DEF SameMachines, Clear
<1> QED
  BY <1>2, <1>16 DEF Unblocked, Latest

LEMMA ReleaseClear ==
    ASSUME IInv, Unblocked, Release
    PROVE  Unblocked'
<1>1. hist \in History /\ node \in Nodes
  BY DEF IInv, RevisionsOK, NodesOK
<1>2. ASSUME NEW plan \in PlanRow, plan.rev \in DOMAIN hist,
             PlanDeployment(plan) \/ CreateDeployment(plan)
      PROVE  Unblocked'
  <2>1. CASE CreateDeployment(plan)
    BY <1>2, <2>1, CreateFromPlanClear DEF CreateDeployment
  <2>2. CASE PlanDeployment(plan)
    BY <2>2 DEF PlanDeployment, Unblocked, Latest
  <2> QED
    BY <1>2, <2>1, <2>2
<1>3. ASSUME NEW r \in DOMAIN hist, NEW waves \in WaveFunctions,
             \/ PlanDeployment(ConfigPlan(hist, r, node, waves, HotSwap))
             \/ CreateDeployment(ConfigPlan(hist, r, node, waves, HotSwap))
      PROVE  Unblocked'
  BY <1>1, <1>2, <1>3, ConfigPlanType
<1>4. ASSUME NEW r \in DOMAIN hist,
             \/ PlanDeployment(GrantsPlan(hist, r, node))
             \/ CreateDeployment(GrantsPlan(hist, r, node))
      PROVE  Unblocked'
  BY <1>1, <1>2, <1>4, GrantsPlanType
<1>5. CASE SubmitPlan
  <2>1. draft \in PlanRow /\ draft.rev \in DOMAIN hist
    BY <1>5 DEF SubmitPlan, IInv, DraftOK
  <2> QED
    BY <1>5, <2>1, CreateFromPlanClear DEF SubmitPlan
<1>6. CASE RefusePlan
  BY <1>6 DEF RefusePlan, Unblocked, Latest
<1> QED
  BY <1>3, <1>4, <1>5, <1>6 DEF Release

LEMMA OperateClear ==
    ASSUME IInv, Safe, Unblocked, Operate
    PROVE  Unblocked'
<1>1. /\ hist \in History /\ dep \in Table /\ node \in Nodes
      /\ \A d \in DOMAIN dep : dep[d] \in DeploymentRow /\ dep[d].tgt \in [Node -> Target]
      /\ hist[Latest] \in RevisionRow /\ Latest \in Nat
  BY RowType, LatestRow DEF IInv, RevisionsOK, DeploymentsOK, NodesOK, DeploymentRow
<1>2. SameMachines(node, node)
  BY DEF SameMachines
<1>3. ASSUME NEW row \in RevisionRow, hist' = Append(hist, row), UNCHANGED <<dep, node>>,
             \A n \in Node : row.topo[n] # 0
      PROVE  Unblocked'
  <2>1. hist'[Latest'] = row
    BY <1>1, <1>3 DEF History, Latest
  <2> QED
    BY <1>3, <2>1 DEF Unblocked
<1>4. CASE EditPermissions
  <2> DEFINE row == [hist[Latest] EXCEPT !.perm = Latest + 1]
  <2>1. hist' = Append(hist, row) /\ UNCHANGED <<dep, node>>
    BY <1>4 DEF EditPermissions
  <2>2. row \in RevisionRow /\ \A n \in Node : row.topo[n] = hist[Latest].topo[n]
    BY <1>1 DEF RevisionRow
  <2> HIDE DEF row
  <2> QED
    BY <1>3, <2>1, <2>2 DEF Unblocked
<1>5. ASSUME NEW n \in Node, EditTopology(n)
      PROVE  Unblocked'
  <2> DEFINE row == [hist[Latest] EXCEPT !.topo[n] = Latest + 1]
  <2>1. hist' = Append(hist, row) /\ UNCHANGED <<dep, node>>
    BY <1>5 DEF EditTopology
  <2>2. /\ row \in RevisionRow
        /\ \A m \in Node : row.topo[m] \in {hist[Latest].topo[m], Latest + 1}
    BY <1>1 DEF RevisionRow
  <2>3. Latest + 1 # 0
    BY <1>1
  <2> HIDE DEF row
  <2> QED
    BY <1>3, <2>1, <2>2, <2>3 DEF Unblocked
<1>6. ASSUME NEW d \in DOMAIN dep, ConfirmWave(d)
      PROVE  Unblocked'
  <2> DEFINE row == [dep[d] EXCEPT !.confirmed = @ \cup {CurrentWave(dep, d)}]
  <2>1. dep' = [dep EXCEPT ![d] = row] /\ UNCHANGED <<node, hist>>
    BY <1>6 DEF ConfirmWave
  <2>2. row.tgt = dep[d].tgt /\ row.status = dep[d].status
    BY <1>1 DEF DeploymentRow
  <2> HIDE DEF row
  <2> QED
    BY <1>2, <2>1, <2>2, RowClear DEF Leaves
<1>7. ASSUME NEW d \in DOMAIN dep, HaltDeployment(d)
      PROVE  Unblocked'
  <2> DEFINE row == [dep[d] EXCEPT !.status = "halted"]
  <2>1. dep' = [dep EXCEPT ![d] = row] /\ UNCHANGED <<node, hist>>
        /\ dep[d].status \in OpenDeployment
    BY <1>7 DEF HaltDeployment, OpenDeployment
  <2>2. row.tgt = dep[d].tgt
    BY <1>1 DEF DeploymentRow
  <2> HIDE DEF row
  <2>3. Leaves(dep[d], row)
    BY <2>1, <2>2 DEF Leaves
  <2> QED
    BY <1>2, <2>1, <2>3, RowClear
<1>8. ASSUME NEW d \in DOMAIN dep, CancelDeployment(d)
      PROVE  Unblocked'
  <2>1. /\ dep' = Cancel(dep, {d}) /\ node' = CancelDirty(dep, node, {d})
        /\ UNCHANGED hist
    BY <1>8 DEF CancelDeployment
  <2>2. Quiet(dep, dep') /\ SameMachines(node, node')
    BY <1>1, <2>1, CancelQuiet, CancelCovered
  <2>3. Clear(dep', node')
    BY <2>2, QuietLeaves, LeavesClear DEF Unblocked, SameMachines
  <2> QED
    BY <2>1, <2>3 DEF Unblocked, Latest
<1>9. ASSUME NEW d \in DOMAIN dep, NEW n \in Node, RetryObligation(d, n)
      PROVE  Unblocked'
  <2> DEFINE tgt == [dep[d].tgt EXCEPT ![n].ost = "pending", ![n].st = "deferred"]
             row == [dep[d] EXCEPT !.tgt = tgt, !.settle = Settlement(tgt)]
  <2>1. dep' = [dep EXCEPT ![d] = row] /\ UNCHANGED <<node, hist>>
    BY <1>9 DEF RetryObligation
  <2>2. tgt[n].st = "deferred" /\ \A m \in Node : m # n => tgt[m] = dep[d].tgt[m]
    BY <1>1 DEF Target
  <2> HIDE DEF tgt
  <2>3. row.tgt = tgt /\ row.status = dep[d].status
    BY <1>1 DEF DeploymentRow
  <2> HIDE DEF row
  <2>4. Leaves(dep[d], row)
    BY <2>2, <2>3 DEF Leaves, Unsettled, OpenTarget
  <2> QED
    BY <1>2, <2>1, <2>4, RowClear
<1>10. ASSUME NEW d \in DOMAIN dep, NEW n \in Node, RetryTarget(d, n)
       PROVE  Unblocked'
  <2> DEFINE tgt == [dep[d].tgt EXCEPT ![n].st = "pending", ![n].fz = Null]
             row == [dep[d] EXCEPT !.tgt = tgt, !.status = "running"]
  <2>1. /\ dep' = [dep EXCEPT ![d] = row] /\ UNCHANGED <<node, hist>>
        /\ dep[d].status = "halted" /\ dep[d].tgt[n].st = "failed"
        /\ ~FailedDebt(d, n)
    BY <1>10 DEF RetryTarget
  <2>2. Unsettled(dep[d].tgt[n])
    BY <2>1 DEF Unsettled, FailedDebt, Safe, Sound, Held
  <2>3. \A m \in Node : m # n => tgt[m] = dep[d].tgt[m]
    BY <1>1 DEF Target
  <2> HIDE DEF tgt
  <2>4. row.tgt = tgt
    BY <1>1 DEF DeploymentRow
  <2> HIDE DEF row
  <2>5. Leaves(dep[d], row)
    BY <2>1, <2>2, <2>3, <2>4 DEF Leaves, OpenDeployment
  <2> QED
    BY <1>2, <2>1, <2>5, RowClear
<1>11. ASSUME NEW n \in Node, IsolateNode(n)
       PROVE  Unblocked'
  <2> DEFINE nd1 == [node EXCEPT ![n].iso = TRUE]
  <2>1. /\ Quiet(dep, dep') /\ SameMachines(nd1, node')
        /\ \A e \in DOMAIN dep : Open(dep, e) => ~Unsettled(dep'[e].tgt[n])
    BY <1>11, IsolateNodeRows
  <2>2. \A m \in Node : nd1[m].iso = (node[m].iso \/ m = n)
    BY <1>1 DEF Nodes, NodeRow
  <2> HIDE DEF nd1
  <2>3. DOMAIN dep' = DOMAIN dep /\ \A e \in DOMAIN dep : Leaves(dep[e], dep'[e])
    BY <2>1, QuietLeaves
  <2>4. Clear(dep', node')
    BY <2>1, <2>2, <2>3 DEF SameMachines, Leaves, Clear, Open, Unblocked
  <2>5. UNCHANGED hist
    BY <1>11 DEF IsolateNode
  <2> QED
    BY <2>4, <2>5 DEF Unblocked, Latest
<1>12. ASSUME NEW n \in Node, RestoreService(n)
       PROVE  Unblocked'
  <2>1. node' = [node EXCEPT ![n].iso = FALSE] /\ UNCHANGED <<dep, hist>>
    BY <1>12 DEF RestoreService
  <2>2. \A m \in Node : node'[m].iso => node[m].iso
    BY <1>1, <2>1 DEF Nodes, NodeRow
  <2> QED
    BY <2>1, <2>2 DEF Unblocked, Clear, Latest
<1> QED
  BY <1>4, <1>5, <1>6, <1>7, <1>8, <1>9, <1>10, <1>11, <1>12 DEF Operate

LEMMA ConvergeClear ==
    ASSUME IInv, Safe, Unblocked, NEW n \in Node, Converge(n)
    PROVE  Unblocked'
<1>1. /\ dep \in Table /\ node \in Nodes
      /\ \A d \in DOMAIN dep : dep[d] \in DeploymentRow /\ dep[d].tgt \in [Node -> Target]
  BY RowType DEF IInv, DeploymentsOK, NodesOK, DeploymentRow
<1>2. SameMachines(node, node)
  BY DEF SameMachines
<1>3. ASSUME NEW d \in DOMAIN dep, NEW lost \in BOOLEAN, ClaimObligation(n, d, lost)
      PROVE  Unblocked'
  <2> DEFINE t     == dep[d].tgt[n]
             claim == IF t.ost = "pending" THEN t.claim + 1 ELSE t.claim
             tgt   == [dep[d].tgt EXCEPT ![n].ost = "dispatched", ![n].claim = claim]
             row   == [dep[d] EXCEPT !.tgt = tgt]
  <2>1. /\ dep' = [dep EXCEPT ![d] = row] /\ UNCHANGED <<node, hist>>
        /\ t.ost \in OpenTarget
    BY <1>3 DEF ClaimObligation, CurrentDebt
  <2>2. /\ \A m \in Node \ {n} : tgt[m] = dep[d].tgt[m]
        /\ tgt[n].st = t.st /\ tgt[n].ost = "dispatched"
    BY <1>1 DEF Target
  <2> HIDE DEF tgt
  <2>3. row.tgt = tgt /\ row.status = dep[d].status
    BY <1>1 DEF DeploymentRow
  <2> HIDE DEF row
  <2>4. t.st \notin OpenTarget \cup {"failed"}
    BY <2>1 DEF Safe, Sound, SoundRow, Columns, OpenTarget
  <2>5. Leaves(dep[d], row)
    BY <2>2, <2>3, <2>4 DEF Leaves, Unsettled
  <2>6. dep' = [dep EXCEPT ![d] = row] /\ SameMachines(node, node') /\ UNCHANGED hist
    BY <1>2, <2>1
  <2> QED
    BY ONLY <2>5, <2>6, IInv, Unblocked, d \in DOMAIN dep, RowClear
<1>4. ASSUME NEW d \in DOMAIN dep, NEW lost \in BOOLEAN, ClaimTarget(n, d, lost)
      PROVE  Unblocked'
  <2> DEFINE t     == dep[d].tgt[n]
             gr    == IF t.st = "pending" THEN t.gr ELSE t.fz
             tgt   == [dep[d].tgt EXCEPT ![n].st = "dispatched", ![n].fz = gr]
             row   == [dep[d] EXCEPT !.tgt = tgt, !.status = "running"]
  <2>1. /\ dep' = dep \/ dep' = [dep EXCEPT ![d] = row]
        /\ UNCHANGED <<node, hist>>
        /\ dep[d].status \in {"planned", "running"} /\ t.st \in OpenTarget
    BY <1>4 DEF ClaimTarget, FirstOffer, Offers
  <2>2. \A m \in Node \ {n} : tgt[m] = dep[d].tgt[m]
    BY <1>1 DEF Target
  <2> HIDE DEF tgt
  <2>3. row.tgt = tgt
    BY <1>1 DEF DeploymentRow
  <2> HIDE DEF row
  <2>4. Leaves(dep[d], row)
    BY <2>1, <2>2, <2>3 DEF Leaves, Unsettled, OpenDeployment
  <2>5. CASE dep' = dep
    BY <2>1, <2>5 DEF Unblocked, Latest
  <2>6. CASE dep' = [dep EXCEPT ![d] = row]
    <3>1. SameMachines(node, node') /\ UNCHANGED hist
      BY <1>2, <2>1
    <3> QED
      BY ONLY <2>4, <2>6, <3>1, IInv, Unblocked, d \in DOMAIN dep, RowClear
  <2> QED
    BY <2>1, <2>5, <2>6
<1>5. ASSUME NEW result, Execute(n, result) \/ Crash(n, result)
      PROVE  Unblocked'
  BY <1>5 DEF Execute, Crash, Unblocked, Latest
<1>6. ASSUME NEW lost \in BOOLEAN, Deliver(n, lost)
      PROVE  Unblocked'
  <2> DEFINE d == agent[n].dep
  <2>1. /\ SettleObligation(d, n) \/ SettleTarget(d, n) \/ RefuseReport(d, n)
        /\ agent[n].pc = "spool" /\ UNCHANGED hist
    BY <1>6 DEF Deliver
  <2>2. d \in DOMAIN dep
    BY <2>1 DEF Safe, Believes
  <2>3. CASE RefuseReport(d, n)
    BY <2>1, <2>3 DEF RefuseReport, Unblocked, Latest
  <2>4. CASE SettleObligation(d, n)
    <3> DEFINE v   == Verdict(d, n, dep[d].tgt[n].ogr)
               tgt == [dep[d].tgt EXCEPT ![n].st = v, ![n].ost = v, ![n].fz = Null]
               row == [dep[d] EXCEPT !.tgt = tgt, !.settle = Settlement(tgt)]
    <3>1. /\ dep' = [dep EXCEPT ![d] = row] /\ node' = Observed(node, n)
      BY <2>4 DEF SettleObligation
    <3>2. SameMachines(node, node')
      BY <3>1, ObservedRows
    <3>3. v \in {"succeeded", "failed"}
      BY VerdictType
    <3>4. /\ dep[d] \in DeploymentRow
          /\ dep[d].tgt \in [Node -> Target] /\ dep[d].tgt[n] \in Target
      BY <1>1, <2>2
    <3> HIDE DEF v, d
    <3>5. /\ \A m \in Node \ {n} : tgt[m] = dep[d].tgt[m]
          /\ tgt[n].st = v /\ tgt[n].ost = v
      BY ONLY <3>4 DEF Target
    <3> HIDE DEF tgt
    <3>6. row.tgt = tgt /\ row.status = dep[d].status
      BY ONLY <3>4 DEF DeploymentRow
    <3> HIDE DEF row
    <3>7. Leaves(dep[d], row)
      BY <3>3, <3>5, <3>6 DEF Leaves, Unsettled, OpenTarget
    <3> QED
      BY ONLY <2>1, <2>2, <3>1, <3>2, <3>7, IInv, Unblocked, RowClear
  <2>5. CASE SettleTarget(d, n)
    <3>1. /\ DOMAIN dep' = DOMAIN dep
          /\ Open(dep, d) /\ dep[d].tgt[n].st \in OpenTarget
          /\ \A e \in DOMAIN dep \ {d} : dep'[e] = dep[e]
          /\ \A m \in Node \ {n} : dep'[d].tgt[m] = dep[d].tgt[m]
          /\ \A m \in Node : node'[m].iso = node[m].iso
      BY <2>1, <2>5, SettleTargetRows
    <3> HIDE DEF d
    <3>2. Leaves(dep[d], dep'[d])
      BY <3>1 DEF Leaves, Unsettled, Open
    <3>3. \A e \in DOMAIN dep : Leaves(dep[e], dep'[e])
      BY <3>1, <3>2 DEF Leaves
    <3>4. Clear(dep, node) /\ \A m \in Node : node'[m].iso => node[m].iso
      BY <3>1 DEF Unblocked
    <3>5. Clear(dep', node')
      BY ONLY <3>1, <3>3, <3>4, LeavesClear
    <3> QED
      BY <2>1, <3>5 DEF Unblocked, Latest
  <2> QED
    BY <2>1, <2>3, <2>4, <2>5
<1> QED
  BY <1>3, <1>4, <1>5, <1>6 DEF Converge

LEMMA NextClear ==
    ASSUME "retire" \notin Commands
    PROVE  (IInv /\ Safe /\ Unblocked) /\ [Next]_vars => Unblocked'
<1> SUFFICES ASSUME IInv, Safe, Unblocked, [Next]_vars
             PROVE  Unblocked'
  OBVIOUS
<1>1. CASE UNCHANGED vars
  BY <1>1 DEF vars, Unblocked, Latest
<1>2. CASE Release
  BY <1>2, ReleaseClear
<1>3. CASE Operate
  BY <1>3, OperateClear
<1>4. CASE Lifecycle
  <2>1. PICK n \in Node : Retire(n) \/ Reactivate(n) \/ RepairTeardown(n) \/ Abandon(n)
    BY <1>4 DEF Lifecycle
  <2>2. hist[Latest].topo[n] # 0 /\ node[n].phase = "active"
    BY DEF Unblocked, Safe, Off, Latest
  <2> QED
    BY <2>1, <2>2 DEF Retire, Reactivate, RepairTeardown, Abandon
<1>5. ASSUME NEW n \in Node, IssueToken(n)
      PROVE  Unblocked'
  <2>1. node \in Nodes
    BY DEF IInv, NodesOK
  <2>2. UNCHANGED <<dep, hist>> /\ \A m \in Node : node'[m].iso = node[m].iso
    BY <1>5, <2>1 DEF IssueToken, Nodes, NodeRow
  <2> QED
    BY <2>2 DEF Unblocked, Clear, Latest
<1>6. ASSUME NEW n \in Node, Converge(n)
      PROVE  Unblocked'
  BY <1>6, ConvergeClear
<1> QED
  BY <1>1, <1>2, <1>3, <1>4, <1>5, <1>6 DEF Next

\* Where no machine is retired, isolation never stalls a release:
\* isolate_node_inner takes the machine's open and failed targets out of every
\* wave, mark_isolated_targets keeps it out of the next plan, and no retry or
\* late report puts it back while the machine polls for its debt only.
THEOREM IsolationNeverBlocks ==
    ASSUME "retire" \notin Commands
    PROVE  Spec => []IsolatedNotBlocking
<1>1. Init => Unblocked
  <2> SUFFICES ASSUME Init
               PROVE  Unblocked
    OBVIOUS
  <2>1. /\ dep = <<FirstRelease>> /\ hist = <<[topo |-> [n \in Node |-> 1], perm |-> 1]>>
    BY DEF Init
  <2>2. FirstRelease.status = "succeeded"
    BY DEF FirstRelease
  <2>3. Clear(dep, node)
    BY <2>1, <2>2 DEF Clear, Open, OpenDeployment
  <2>4. Latest = 1 /\ hist[1] = [topo |-> [n \in Node |-> 1], perm |-> 1]
    BY <2>1 DEF Latest
  <2> QED
    BY <2>3, <2>4 DEF Unblocked
<1>2. (IInv /\ Safe /\ Unblocked) /\ [Next]_vars => (IInv /\ Safe /\ Unblocked)'
  BY NextIInv, NextSafe, NextClear
<1>3. IInv /\ Safe /\ Unblocked => IsolatedNotBlocking
  BY DEF Unblocked, Clear, IsolatedNotBlocking, Unsettled, Detached
<1>4. Init => IInv /\ Safe
  BY InitIInv, InitSafe
<1> QED
  BY <1>1, <1>2, <1>3, <1>4, PTL DEF Spec
----------------------------------------------------------------------------
(* Serving where no machine dials another one's listener, with isolation,  *)
(* retirement and plans computed before the transaction that inserts them. *)

\* No agent is about to change this machine's configuration.
Steadfast(ag, n) == ~(ag[n].pc = "work" /\ ag[n].kind = "config")

\* What an open configuration order was told has succeeded runs.
Landed(h, dp, ma, ag) ==
    \A d \in DOMAIN dp, n \in Node :
        Open(dp, d) /\ dp[d].kind = "config" /\ dp[d].tgt[n].st = "succeeded"
            => ma[n].cfg = h[dp[d].rev].topo[n] /\ Steadfast(ag, n)

\* ... and nothing else is due to be executed there while the order is open.
Concluded(dp, nd) ==
    \A d \in DOMAIN dp, n \in Node : Open(dp, d) /\ dp[d].kind = "config" =>
        /\ dp[d].tgt[n].st = "succeeded" /\ nd[n].phase = "active" =>
              \A e \in DOMAIN dp : dp[e].kind = "config" => dp[e].tgt[n].ost \notin Debt
        /\ dp[d].tgt[n].st = "dispatched" => ~Detached(nd, n)

Answered == Landed(hist, dep, mach, agent) /\ Concluded(dep, node)

\* No release of dq was reopened, none has a new answer, and all debt is old.
NothingNew(dp, dq) ==
    /\ DOMAIN dq = DOMAIN dp
    /\ \A e \in DOMAIN dp : dq[e].kind = dp[e].kind /\ dq[e].rev = dp[e].rev
    /\ \A e \in DOMAIN dp, n \in Node :
          /\ Open(dq, e) => /\ Open(dp, e)
                            /\ dq[e].tgt[n].st = "succeeded" => dp[e].tgt[n].st = "succeeded"
                            /\ dq[e].tgt[n].st = "dispatched" => dp[e].tgt[n].st = "dispatched"
          /\ dq[e].tgt[n].ost \in Debt => dp[e].tgt[n].ost \in Debt

\* The machines that became active or detached meanwhile: none.
NoneAttached(nd, ne) ==
    \A n \in Node : /\ ne[n].phase = "active" => nd[n].phase = "active"
                    /\ Detached(ne, n) => Detached(nd, n)

LEMMA StaysLanded ==
    ASSUME NEW dp, NEW dq, NothingNew(dp, dq), NEW h, NEW ma, NEW ag, Landed(h, dp, ma, ag)
    PROVE  Landed(h, dq, ma, ag)
<1> QED
  BY DEF NothingNew, Landed

LEMMA StaysConcluded ==
    ASSUME NEW dp, NEW dq, NothingNew(dp, dq), NEW nd, NEW ne, NoneAttached(nd, ne),
           Concluded(dp, nd)
    PROVE  Concluded(dq, ne)
<1> QED
  BY DEF NothingNew, NoneAttached, Concluded

LEMMA SameNoneAttached ==
    ASSUME NEW nd, NEW ne, SameMachines(nd, ne)
    PROVE  NoneAttached(nd, ne)
<1> QED
  BY DEF SameMachines, NoneAttached, Detached

LEMMA QuietNothingNew ==
    ASSUME NEW dp, NEW dq, Quiet(dp, dq), NEW d, Owes(dp, dq, d, {})
    PROVE  NothingNew(dp, dq)
<1>1. \A e \in DOMAIN dp : QuietRow(dp[e], dq[e])
  BY DEF Quiet
<1> QED
  BY <1>1 DEF Quiet, QuietRow, Withdrawn, Owes, NothingNew, Open

\* The transactions that write one row.
LEMMA RowNothingNew ==
    ASSUME NEW dp \in Table, NEW d \in DOMAIN dp, NEW row,
           row.kind = dp[d].kind, row.rev = dp[d].rev,
           row.status \in OpenDeployment => Open(dp, d),
           \A n \in Node :
              /\ row.tgt[n].st = "succeeded" => dp[d].tgt[n].st = "succeeded"
              /\ row.tgt[n].st = "dispatched" => dp[d].tgt[n].st = "dispatched"
              /\ row.tgt[n].ost \in Debt => dp[d].tgt[n].ost \in Debt
    PROVE  NothingNew(dp, [dp EXCEPT ![d] = row])
<1> DEFINE dq == [dp EXCEPT ![d] = row]
<1>1. /\ DOMAIN dq = DOMAIN dp
      /\ \A e \in DOMAIN dp : dq[e] = IF e = d THEN row ELSE dp[e]
  BY DEF Table
<1> HIDE DEF dq
<1>2. NothingNew(dp, dq)
  BY <1>1 DEF NothingNew, Open
<1> QED
  BY <1>2 DEF dq

\* A release that was just inserted has no answer and nothing out.
LEMMA InsertAnswered ==
    ASSUME NEW h \in History, NEW dp \in Table, Dated(h, dp), NEW nd \in Nodes,
           NEW plan \in PlanRow, plan.rev \in DOMAIN h
    PROVE  LET d   == Len(dp) + 1
               all == Insert(h, dp, nd, plan)
           IN  /\ DOMAIN all = DOMAIN dp \cup {d} /\ d \notin DOMAIN dp /\ Len(all) = d
               /\ all[d].kind = plan.kind
               /\ \A n \in Node : all[d].tgt[n].st \notin {"succeeded", "dispatched"}
               /\ \A e \in DOMAIN dp : QuietRow(dp[e], all[e])
               /\ \A e \in DOMAIN dp, n \in Node :
                     all[e].tgt[n].ost \in Debt => dp[e].tgt[n].ost \in Debt
<1> DEFINE d    == Len(dp) + 1
           new  == Inserted(dp, nd, plan)
           S    == Planned(plan, "deferred")
           rows == Oblige(h, new, d, S)
           all  == Insert(h, dp, nd, plan)
<1>1. /\ new \in Table
      /\ DOMAIN new = DOMAIN dp \cup {d}
      /\ Open(new, d) /\ new[d].rev = plan.rev /\ new[d].kind = plan.kind
      /\ \A e \in DOMAIN dp : new[e] = dp[e]
  BY InsertedType, ZenonT(60)
<1>2. \A n \in Node : /\ new[d].tgt[n].st = plan.tgt[n].st
                      /\ plan.tgt[n].st \in {"none", "skipped", "pending", "deferred"}
  BY InsertedRows DEF PlanRow, PlanTarget
<1>3. all = IF Planned(plan, "pending") # {} THEN rows ELSE Refresh(rows, nd, d)
  BY DEF Insert
<1>4. S \in SUBSET Node /\ \A n \in S : new[d].tgt[n].st = "deferred"
  BY <1>2 DEF Planned
<1>5. d \notin DOMAIN dp
  BY DEF Table
<1>6. all \in Table /\ DOMAIN all = 1..(Len(dp) + 1)
  BY InsertType
<1>7. Len(all) = d
  BY <1>6 DEF Table
<1> HIDE DEF d, new, S, all
<1>8. rows \in Table
  <2>1. Dated(h, new)
    BY <1>1 DEF Dated
  <2> QED
    BY <1>1, <1>4, <2>1, ObligeType
<1>9. /\ Quiet(new, rows) /\ Owes(new, rows, d, S)
      /\ DOMAIN rows = DOMAIN new /\ Open(rows, d)
  <2>1. Quiet(new, rows) /\ Owes(new, rows, d, S)
    BY <1>1, <1>4, ObligeQuiet
  <2>2. ObligedTable(new, d, S, rows)
    BY <1>1, <1>4, ObligeRows
  <2> HIDE DEF rows
  <2> QED
    BY <1>1, <2>1, <2>2 DEF ObligedTable, Open
<1> HIDE DEF rows
<1>10. Quiet(new, all) /\ \A e \in DOMAIN new \ {d} : all[e] = rows[e]
  <2>1. CASE all = rows
    BY <1>9, <2>1
  <2>2. CASE all = Refresh(rows, nd, d)
    <3>1. Quiet(rows, all)
      BY <1>1, <1>8, <1>9, <2>2, RefreshQuiet
    <3>2. \A e \in DOMAIN new \ {d} : all[e] = rows[e]
      BY <1>1, <1>8, <1>9, <2>2, RefreshRows
    <3> QED
      BY <1>9, <3>1, <3>2, QuietTransitive
  <2> QED
    BY <1>3, <2>1, <2>2
<1>11. QuietRow(new[d], all[d]) /\ \A e \in DOMAIN dp : QuietRow(dp[e], all[e])
  BY <1>1, <1>10 DEF Quiet
<1>12. \A n \in Node : all[d].tgt[n].st \notin {"succeeded", "dispatched"}
  BY <1>2, <1>11 DEF QuietRow, Withdrawn
<1>13. \A e \in DOMAIN dp, n \in Node :
          all[e].tgt[n].ost \in Debt => dp[e].tgt[n].ost \in Debt
  BY <1>1, <1>5, <1>9, <1>10 DEF Owes
<1>14. DOMAIN all = DOMAIN dp \cup {d} /\ all[d].kind = plan.kind
  BY <1>1, <1>10, <1>11 DEF Quiet, QuietRow
<1> QED
  BY <1>5, <1>7, <1>11, <1>12, <1>13, <1>14 DEF d, all

\* What one step does to the serving pointer.
Serves ==
    serving'.dep # serving.dep =>
        \A n \in Node : dep'[serving'.dep].tgt[n].st = "succeeded" =>
            mach'[n].cfg = hist'[dep'[serving'.dep].rev].topo[n]

LEMMA CreateFromPlanAnswered ==
    ASSUME IInv, Answered, NEW planned \in PlanRow, planned.rev \in DOMAIN hist,
           CreateFromPlan(planned)
    PROVE  Answered' /\ Serves
<1> DEFINE plan == MarkIsolated(planned, Isolated(node))
           d    == Len(dep) + 1
<1>1. plan \in PlanRow /\ plan.rev \in DOMAIN hist
  BY MarkIsolatedType
<1>2. /\ dep' = Insert(hist, dep, node, plan) /\ node' = InsertDirty(dep, node, plan)
      /\ serving' = Serve(serving, dep', node, Len(dep'))
      /\ UNCHANGED <<hist, mach, agent>>
      /\ ~Flying(plan.kind)
  BY DEF CreateFromPlan
<1> HIDE DEF plan
<1>3. hist \in History /\ dep \in Table /\ node \in Nodes /\ Dated(hist, dep)
  BY DEF IInv, RevisionsOK, DeploymentsOK, NodesOK
<1>4. /\ DOMAIN dep' = DOMAIN dep \cup {d} /\ d \notin DOMAIN dep /\ Len(dep') = d
      /\ dep'[d].kind = plan.kind
      /\ \A n \in Node : dep'[d].tgt[n].st \notin {"succeeded", "dispatched"}
      /\ \A e \in DOMAIN dep : QuietRow(dep[e], dep'[e])
      /\ \A e \in DOMAIN dep, n \in Node :
            dep'[e].tgt[n].ost \in Debt => dep[e].tgt[n].ost \in Debt
  <2> DEFINE all == Insert(hist, dep, node, plan)
  <2>1. /\ DOMAIN all = DOMAIN dep \cup {d} /\ d \notin DOMAIN dep /\ Len(all) = d
        /\ all[d].kind = plan.kind
        /\ \A n \in Node : all[d].tgt[n].st \notin {"succeeded", "dispatched"}
        /\ \A e \in DOMAIN dep : QuietRow(dep[e], all[e])
        /\ \A e \in DOMAIN dep, n \in Node :
              all[e].tgt[n].ost \in Debt => dep[e].tgt[n].ost \in Debt
    BY ONLY <1>1, <1>3, InsertAnswered
  <2> HIDE DEF all
  <2>2. dep' = all
    BY <1>2 DEF all
  <2> QED
    BY ONLY <2>1, <2>2
<1>5. SameMachines(node, node')
  BY <1>2, <1>3, MarkDirtyRows DEF InsertDirty, SameMachines
<1> HIDE DEF d
<1>6. ASSUME NEW e \in DOMAIN dep, NEW n \in Node, Open(dep', e), dep'[e].kind = "config"
      PROVE  /\ Open(dep, e) /\ dep[e].kind = "config" /\ dep'[e].rev = dep[e].rev
             /\ plan.kind # "config"
             /\ dep'[e].tgt[n].st = "succeeded" => dep[e].tgt[n].st = "succeeded"
             /\ dep'[e].tgt[n].st = "dispatched" => dep[e].tgt[n].st = "dispatched"
  <2>1. QuietRow(dep[e], dep'[e])
    BY <1>4
  <2>2. Open(dep, e) /\ dep[e].kind = "config"
    BY <1>6, <2>1 DEF QuietRow, Open
  <2>3. plan.kind # "config"
    BY <1>2, <2>2 DEF Flying
  <2> QED
    BY <1>6, <2>1, <2>2, <2>3 DEF QuietRow, Withdrawn
<1>7. Landed(hist, dep', mach, agent)
  <2> SUFFICES ASSUME NEW e \in DOMAIN dep', NEW n \in Node, Open(dep', e),
                      dep'[e].kind = "config", dep'[e].tgt[n].st = "succeeded"
               PROVE  mach[n].cfg = hist[dep'[e].rev].topo[n] /\ Steadfast(agent, n)
    BY DEF Landed
  <2>1. e \in DOMAIN dep
    BY <1>4
  <2> QED
    BY <1>6, <2>1 DEF Answered, Landed
<1>8. Concluded(dep', node')
  <2> SUFFICES ASSUME NEW e \in DOMAIN dep', NEW n \in Node, Open(dep', e),
                      dep'[e].kind = "config"
               PROVE  /\ dep'[e].tgt[n].st = "succeeded" /\ node'[n].phase = "active" =>
                            \A f \in DOMAIN dep' : dep'[f].kind = "config"
                                => dep'[f].tgt[n].ost \notin Debt
                      /\ dep'[e].tgt[n].st = "dispatched" => ~Detached(node', n)
    BY DEF Concluded
  <2>1. CASE e = d
    BY <1>4, <2>1
  <2>2. CASE e \in DOMAIN dep
    <3>1. \A f \in DOMAIN dep : dep'[f].kind = dep[f].kind
      BY <1>4 DEF QuietRow
    <3>2. \A f \in DOMAIN dep' : dep'[f].kind = "config" => f \in DOMAIN dep
      BY <1>4, <1>6, <2>2
    <3>3. node'[n].phase = node[n].phase /\ (Detached(node', n) => Detached(node, n))
      BY <1>5 DEF SameMachines, Detached
    <3> QED
      BY <1>4, <1>6, <2>2, <3>1, <3>2, <3>3 DEF Answered, Concluded
  <2> QED
    BY <1>4, <2>1, <2>2
<1>9. Serves
  <2>1. serving' = serving \/ serving'.dep = d
    BY <1>2, <1>4 DEF Serve
  <2> QED
    BY <1>4, <2>1 DEF Serves
<1> QED
  BY <1>2, <1>7, <1>8, <1>9 DEF Answered

LEMMA ReleaseAnswered ==
    ASSUME IInv, Answered, Release
    PROVE  Answered' /\ Serves
<1>1. hist \in History /\ node \in Nodes
  BY DEF IInv, RevisionsOK, NodesOK
<1>2. ASSUME NEW plan \in PlanRow, plan.rev \in DOMAIN hist,
             PlanDeployment(plan) \/ CreateDeployment(plan)
      PROVE  Answered' /\ Serves
  <2>1. CASE CreateDeployment(plan)
    BY <1>2, <2>1, CreateFromPlanAnswered DEF CreateDeployment
  <2>2. CASE PlanDeployment(plan)
    BY <2>2 DEF PlanDeployment, Answered, Serves
  <2> QED
    BY <1>2, <2>1, <2>2
<1>3. ASSUME NEW r \in DOMAIN hist, NEW waves \in WaveFunctions,
             \/ PlanDeployment(ConfigPlan(hist, r, node, waves, HotSwap))
             \/ CreateDeployment(ConfigPlan(hist, r, node, waves, HotSwap))
      PROVE  Answered' /\ Serves
  BY <1>1, <1>2, <1>3, ConfigPlanType
<1>4. ASSUME NEW r \in DOMAIN hist,
             \/ PlanDeployment(GrantsPlan(hist, r, node))
             \/ CreateDeployment(GrantsPlan(hist, r, node))
      PROVE  Answered' /\ Serves
  BY <1>1, <1>2, <1>4, GrantsPlanType
<1>5. CASE SubmitPlan
  <2>1. draft \in PlanRow /\ draft.rev \in DOMAIN hist
    BY <1>5 DEF SubmitPlan, IInv, DraftOK
  <2> QED
    BY <1>5, <2>1, CreateFromPlanAnswered DEF SubmitPlan
<1>6. CASE RefusePlan
  BY <1>6 DEF RefusePlan, Answered, Serves
<1> QED
  BY <1>3, <1>4, <1>5, <1>6 DEF Release

\* A transaction that answers and obliges nothing.
LEMMA NothingAnswered ==
    ASSUME Answered, NothingNew(dep, dep'), NoneAttached(node, node'),
           UNCHANGED <<hist, mach, agent>>
    PROVE  Answered'
<1> QED
  BY StaysLanded, StaysConcluded DEF Answered

LEMMA OperateAnswered ==
    ASSUME IInv, Safe, Answered, Operate
    PROVE  Answered' /\ Serves
<1>1. /\ hist \in History /\ dep \in Table /\ node \in Nodes /\ Dated(hist, dep)
      /\ Single(dep) /\ serving \in ServingRow
      /\ \A d \in DOMAIN dep : dep[d] \in DeploymentRow /\ dep[d].tgt \in [Node -> Target]
  BY RowType DEF IInv, RevisionsOK, DeploymentsOK, NodesOK, DeploymentRow
<1>2. NoneAttached(node, node)
  BY DEF NoneAttached
<1>3. ASSUME NEW row, hist' = Append(hist, row),
             UNCHANGED <<dep, node, serving, mach, agent>>
      PROVE  Answered' /\ Serves
  <2>1. \A d \in DOMAIN dep : hist'[dep[d].rev] = hist[dep[d].rev]
    BY <1>1, <1>3 DEF Dated, History
  <2>2. Landed(hist', dep, mach, agent)
    BY <2>1 DEF Answered, Landed
  <2> QED
    BY <1>3, <2>2 DEF Answered, Serves
<1>4. CASE EditPermissions
  BY <1>3, <1>4 DEF EditPermissions
<1>5. ASSUME NEW n \in Node, EditTopology(n)
      PROVE  Answered' /\ Serves
  BY <1>3, <1>5 DEF EditTopology
<1>6. ASSUME NEW d \in DOMAIN dep, ConfirmWave(d)
      PROVE  Answered' /\ Serves
  <2> DEFINE row == [dep[d] EXCEPT !.confirmed = @ \cup {CurrentWave(dep, d)}]
  <2>1. dep' = [dep EXCEPT ![d] = row] /\ UNCHANGED <<hist, node, serving, mach, agent>>
    BY <1>6 DEF ConfirmWave
  <2>2. /\ row.tgt = dep[d].tgt /\ row.status = dep[d].status
        /\ row.kind = dep[d].kind /\ row.rev = dep[d].rev
    BY <1>1 DEF DeploymentRow
  <2> HIDE DEF row
  <2>3. NothingNew(dep, dep')
    BY <1>1, <2>1, <2>2, RowNothingNew DEF Open
  <2> QED
    BY <1>2, <2>1, <2>3, NothingAnswered DEF Serves
<1>7. ASSUME NEW d \in DOMAIN dep, HaltDeployment(d)
      PROVE  Answered' /\ Serves
  <2> DEFINE row == [dep[d] EXCEPT !.status = "halted"]
  <2>1. /\ dep' = [dep EXCEPT ![d] = row] /\ UNCHANGED <<hist, node, serving, mach, agent>>
        /\ Open(dep, d)
    BY <1>7 DEF HaltDeployment, Open, OpenDeployment
  <2>2. row.tgt = dep[d].tgt /\ row.kind = dep[d].kind /\ row.rev = dep[d].rev
    BY <1>1 DEF DeploymentRow
  <2> HIDE DEF row
  <2>3. NothingNew(dep, dep')
    BY <1>1, <2>1, <2>2, RowNothingNew
  <2> QED
    BY <1>2, <2>1, <2>3, NothingAnswered DEF Serves
<1>8. ASSUME NEW d \in DOMAIN dep, CancelDeployment(d)
      PROVE  Answered' /\ Serves
  <2>1. /\ dep' = Cancel(dep, {d}) /\ node' = CancelDirty(dep, node, {d})
        /\ UNCHANGED <<hist, serving, mach, agent>>
    BY <1>8 DEF CancelDeployment
  <2>2. Quiet(dep, dep') /\ Owes(dep, dep', 0, {}) /\ SameMachines(node, node')
    BY <1>1, <2>1, CancelQuiet, CancelCovered
  <2>3. NothingNew(dep, dep') /\ NoneAttached(node, node')
    BY <2>2, QuietNothingNew, SameNoneAttached
  <2> QED
    BY <2>1, <2>3, NothingAnswered DEF Serves
<1>9. ASSUME NEW d \in DOMAIN dep, NEW n \in Node, RetryObligation(d, n)
      PROVE  Answered' /\ Serves
  <2> DEFINE tgt == [dep[d].tgt EXCEPT ![n].ost = "pending", ![n].st = "deferred"]
             row == [dep[d] EXCEPT !.tgt = tgt, !.settle = Settlement(tgt)]
  <2>1. /\ dep' = [dep EXCEPT ![d] = row] /\ UNCHANGED <<hist, node, serving, mach, agent>>
        /\ dep[d].tgt[n].ost = "failed"
    BY <1>9 DEF RetryObligation, FailedDebt
  <2>2. tgt[n].st = "deferred" /\ \A m \in Node \ {n} : tgt[m] = dep[d].tgt[m]
    BY <1>1 DEF Target
  <2> HIDE DEF tgt
  <2>3. /\ row.tgt = tgt /\ row.status = dep[d].status
        /\ row.kind = dep[d].kind /\ row.rev = dep[d].rev
    BY <1>1 DEF DeploymentRow
  <2> HIDE DEF row
  <2>4. NothingNew(dep, dep')
    BY <1>1, <2>1, <2>2, <2>3, RowNothingNew DEF Open, Debt
  <2> QED
    BY <1>2, <2>1, <2>4, NothingAnswered DEF Serves
<1>10. ASSUME NEW d \in DOMAIN dep, NEW n \in Node, RetryTarget(d, n)
       PROVE  Answered' /\ Serves
  <2> DEFINE tgt == [dep[d].tgt EXCEPT ![n].st = "pending", ![n].fz = Null]
             row == [dep[d] EXCEPT !.tgt = tgt, !.status = "running"]
  <2>1. /\ dep' = [dep EXCEPT ![d] = row] /\ UNCHANGED <<hist, node, serving, mach, agent>>
        /\ Open(dep, d)
    BY <1>10 DEF RetryTarget, Open, OpenDeployment
  <2>2. /\ tgt[n].st = "pending" /\ tgt[n].ost = dep[d].tgt[n].ost
        /\ \A m \in Node \ {n} : tgt[m] = dep[d].tgt[m]
    BY <1>1 DEF Target
  <2> HIDE DEF tgt
  <2>3. row.tgt = tgt /\ row.kind = dep[d].kind /\ row.rev = dep[d].rev
    BY <1>1 DEF DeploymentRow
  <2> HIDE DEF row
  <2>4. NothingNew(dep, dep')
    BY <1>1, <2>1, <2>2, <2>3, RowNothingNew
  <2> QED
    BY <1>2, <2>1, <2>4, NothingAnswered DEF Serves
<1>11. ASSUME NEW n \in Node, IsolateNode(n)
       PROVE  Answered' /\ Serves
  <2> DEFINE nd1 == [node EXCEPT ![n].iso = TRUE]
  <2>1. /\ Quiet(dep, dep') /\ SameMachines(nd1, node')
        /\ \A e \in DOMAIN dep, m \in Node : dep'[e].tgt[m].ost \in Debt =>
              \/ dep[e].tgt[m].ost \in Debt
              \/ m = n /\ Open(dep, e) /\ dep[e].tgt[n].st \in Debt
        /\ \A e \in DOMAIN dep : Open(dep, e) => ~Unsettled(dep'[e].tgt[n])
        /\ \/ serving'.dep = serving.dep
           \/ /\ serving'.dep \in DOMAIN dep /\ Open(dep, serving'.dep)
              /\ dep[serving'.dep].kind = "config"
    BY <1>11, IsolateNodeRows
  <2>2. UNCHANGED <<hist, mach, agent>>
    BY <1>11 DEF IsolateNode
  <2>3. \A m \in Node : /\ nd1[m].phase = node[m].phase
                        /\ nd1[m].iso = (node[m].iso \/ m = n)
    BY <1>1 DEF Nodes, NodeRow
  <2> HIDE DEF nd1
  <2>4. \A m \in Node : /\ node'[m].phase = node[m].phase
                        /\ node'[m].iso => node[m].iso \/ m = n
    BY <2>1, <2>3 DEF SameMachines
  <2>5. ASSUME NEW e \in DOMAIN dep, NEW m \in Node
        PROVE  /\ dep'[e].kind = dep[e].kind /\ dep'[e].rev = dep[e].rev
               /\ dep'[e].tgt[m].st = "succeeded" => dep[e].tgt[m].st = "succeeded"
               /\ dep'[e].tgt[m].st = "dispatched" => dep[e].tgt[m].st = "dispatched"
               /\ Open(dep', e) => Open(dep, e)
    <3>1. QuietRow(dep[e], dep'[e])
      BY <2>1 DEF Quiet
    <3> QED
      BY <3>1 DEF QuietRow, Withdrawn, Open
  <2>6. DOMAIN dep' = DOMAIN dep
    BY <2>1 DEF Quiet
  <2>7. Landed(hist, dep', mach, agent)
    BY <2>5, <2>6 DEF Answered, Landed
  <2>8. Concluded(dep', node')
    <3> SUFFICES ASSUME NEW e \in DOMAIN dep, NEW m \in Node, Open(dep', e),
                        dep'[e].kind = "config"
                 PROVE  /\ dep'[e].tgt[m].st = "succeeded" /\ node'[m].phase = "active" =>
                              \A f \in DOMAIN dep : dep'[f].kind = "config"
                                  => dep'[f].tgt[m].ost \notin Debt
                        /\ dep'[e].tgt[m].st = "dispatched" => ~Detached(node', m)
      BY <2>6 DEF Concluded
    <3>1. Open(dep, e) /\ dep[e].kind = "config"
      BY <2>5
    <3>2. ASSUME dep'[e].tgt[m].st = "succeeded", node'[m].phase = "active",
                 NEW f \in DOMAIN dep, dep'[f].kind = "config", dep'[f].tgt[m].ost \in Debt
          PROVE  FALSE
      <4>1. dep[e].tgt[m].st = "succeeded" /\ dep[f].kind = "config"
        BY <2>5, <3>2
      <4>2. dep[f].tgt[m].ost \notin Debt
        BY <2>4, <3>1, <3>2, <4>1 DEF Answered, Concluded
      <4>3. Open(dep, f) /\ dep[f].tgt[m].st \in Debt
        BY <2>1, <3>2, <4>2
      <4>4. e = f
        BY <1>1, <3>1, <4>1, <4>3 DEF Single
      <4> QED
        BY <4>1, <4>3, <4>4 DEF Debt
    <3>3. ASSUME dep'[e].tgt[m].st = "dispatched"
          PROVE  ~Detached(node', m)
      <4>1. dep[e].tgt[m].st = "dispatched"
        BY <2>5, <3>3
      <4>2. ~Detached(node, m)
        BY <3>1, <4>1 DEF Answered, Concluded
      <4>3. m # n
        BY <2>1, <3>1, <3>3 DEF Unsettled, OpenTarget
      <4> QED
        BY <2>4, <4>2, <4>3 DEF Detached
    <3> QED
      BY <3>2, <3>3
  <2>9. Serves
    <3> SUFFICES ASSUME serving'.dep # serving.dep, NEW m \in Node,
                        dep'[serving'.dep].tgt[m].st = "succeeded"
                 PROVE  mach'[m].cfg = hist'[dep'[serving'.dep].rev].topo[m]
      BY DEF Serves
    <3> DEFINE d == serving'.dep
    <3>1. d \in DOMAIN dep /\ Open(dep, d) /\ dep[d].kind = "config"
      BY <2>1
    <3>2. dep[d].tgt[m].st = "succeeded" /\ dep'[d].rev = dep[d].rev
      BY <2>5, <3>1
    <3> QED
      BY <2>2, <3>1, <3>2 DEF Answered, Landed
  <2> QED
    BY <2>2, <2>7, <2>8, <2>9 DEF Answered
<1>12. ASSUME NEW n \in Node, RestoreService(n)
       PROVE  Answered' /\ Serves
  <2>1. /\ node' = [node EXCEPT ![n].iso = FALSE] /\ UNCHANGED <<hist, dep, mach, agent>>
        /\ serving' = [serving EXCEPT !.iso = Isolated(node')]
    BY <1>12 DEF RestoreService
  <2>2. \A m \in Node : node'[m].phase = node[m].phase /\ (node'[m].iso => node[m].iso)
    BY <1>1, <2>1 DEF Nodes, NodeRow
  <2>3. NoneAttached(node, node')
    BY <2>2 DEF NoneAttached, Detached
  <2>4. NothingNew(dep, dep)
    BY DEF NothingNew
  <2>5. serving'.dep = serving.dep
    BY <1>1, <2>1 DEF ServingRow
  <2> QED
    BY <2>1, <2>3, <2>4, <2>5, NothingAnswered DEF Serves
<1> QED
  BY <1>4, <1>5, <1>6, <1>7, <1>8, <1>9, <1>10, <1>11, <1>12 DEF Operate

LEMMA ReplanAnswered ==
    ASSUME NEW n \in Node, NEW h \in History, Len(h) \in DOMAIN h,
           NEW dp \in Table, Dated(h, dp), NEW nd \in Nodes, NEW isolated,
           Replan(n, h, dp, nd, isolated)
    PROVE  Answered' /\ Serves
<1> DEFINE D   == ActiveIds(dp)
           dp1 == Cancel(dp, D)
           nd1 == CancelDirty(dp, nd, D)
<1>1. /\ dp1 \in Table /\ Dated(h, dp1)
      /\ \A d \in DOMAIN dp1 : ~Open(dp1, d)
  BY ReplanRows
<1>2. PICK waves \in WaveFunctions, nd2 \in Nodes :
         Replanned(h, dp1, nd1, nd2, waves, isolated)
  BY ReplanRows
<1> DEFINE plan == MarkIsolated(ConfigPlan(h, Len(h), nd1, waves, {}), isolated)
           d    == Len(dp1) + 1
           all  == Insert(h, dp1, nd2, plan)
<1> HIDE DEF D, dp1, nd1
<1>3. \/ dep' = dp1 /\ serving' = serving
      \/ dep' = all /\ serving' = Serve(serving, dep', nd2, d)
  BY <1>2 DEF Replanned
<1>8. plan \in PlanRow /\ plan.rev \in DOMAIN h
  BY <1>2 DEF Replanned
<1> HIDE DEF plan
<1>4. /\ DOMAIN all = DOMAIN dp1 \cup {d}
      /\ \A m \in Node : all[d].tgt[m].st \notin {"succeeded", "dispatched"}
      /\ \A e \in DOMAIN dp1 : QuietRow(dp1[e], all[e])
  <2>1. dp1 \in Table /\ Dated(h, dp1)
    BY <1>1
  <2>2. /\ DOMAIN all = DOMAIN dp1 \cup {d} /\ d \notin DOMAIN dp1 /\ Len(all) = d
        /\ all[d].kind = plan.kind
        /\ \A m \in Node : all[d].tgt[m].st \notin {"succeeded", "dispatched"}
        /\ \A e \in DOMAIN dp1 : QuietRow(dp1[e], all[e])
        /\ \A e \in DOMAIN dp1, m \in Node :
              all[e].tgt[m].ost \in Debt => dp1[e].tgt[m].ost \in Debt
    BY ONLY <1>8, <2>1, h \in History, nd2 \in Nodes, InsertAnswered
  <2> QED
    BY ONLY <2>2
<1> HIDE DEF all, d
<1>5. ASSUME NEW e \in DOMAIN dep', Open(dep', e), NEW m \in Node
      PROVE  dep'[e].tgt[m].st \notin {"succeeded", "dispatched"}
  <2>1. dep' = all
    BY <1>1, <1>3, <1>5
  <2>2. e \notin DOMAIN dp1
    BY <1>1, <1>4, <1>5, <2>1 DEF QuietRow, Open
  <2> QED
    BY <1>4, <2>1, <2>2
<1>6. Answered'
  BY <1>5 DEF Answered, Landed, Concluded
<1>7. Serves
  <2>1. serving' = serving \/ (dep' = all /\ serving'.dep = d)
    BY <1>3 DEF Serve
  <2> QED
    BY <1>4, <2>1 DEF Serves
<1> QED
  BY <1>6, <1>7

LEMMA LifecycleAnswered ==
    ASSUME IInv, NEW n \in Node,
           Retire(n) \/ Reactivate(n) \/ RepairTeardown(n) \/ Abandon(n)
    PROVE  Answered' /\ Serves
<1>1. /\ hist \in History /\ dep \in Table /\ node \in Nodes /\ Dated(hist, dep)
      /\ Len(hist) \in DOMAIN hist /\ hist[Len(hist)] \in RevisionRow /\ Len(hist) \in Nat
  BY LatestRow DEF IInv, RevisionsOK, DeploymentsOK, NodesOK, Latest
<1>2. ASSUME NEW row \in RevisionRow
      PROVE  /\ Append(hist, row) \in History
             /\ Len(Append(hist, row)) \in DOMAIN Append(hist, row)
             /\ DOMAIN hist \subseteq DOMAIN Append(hist, row)
  BY <1>1 DEF History
<1>3. AdvanceDirty(dep, node, n) \in Nodes
  BY <1>1, AdvanceDirtyType
<1>4. AdvanceIntent(dep, n) \in Table /\ Dated(hist, AdvanceIntent(dep, n))
  BY <1>1, AdvanceIntentType, KeepsDated
<1>5. ASSUME NEW row \in RevisionRow, NEW phase \in {"retiring", "active"}, NEW isolated,
             Replan(n, Append(hist, row), AdvanceIntent(dep, n),
                    Advanced(AdvanceDirty(dep, node, n), n, phase), isolated)
      PROVE  Answered' /\ Serves
  <2> DEFINE dp == AdvanceIntent(dep, n)
             ad == AdvanceDirty(dep, node, n)
             nd == Advanced(ad, n, phase)
             h  == Append(hist, row)
  <2>1. phase \in Participating \cup {"retired", "abandoned"}
    BY DEF Participating
  <2>2. nd \in Nodes
    BY <1>3, <2>1, AdvancedType
  <2>3. h \in History /\ Len(h) \in DOMAIN h /\ Dated(h, dp) /\ dp \in Table
    BY <1>2, <1>4 DEF Dated
  <2>4. Replan(n, h, dp, nd, isolated)
    BY <1>5
  <2> HIDE DEF dp, ad, nd, h
  <2> QED
    BY <2>2, <2>3, <2>4, ReplanAnswered
<1>6. CASE Retire(n)
  <2> DEFINE row == [hist[Latest] EXCEPT !.topo[n] = 0]
  <2>1. row \in RevisionRow
    BY <1>1 DEF RevisionRow, Latest
  <2>2. Replan(n, Append(hist, row), AdvanceIntent(dep, n),
               Advanced(AdvanceDirty(dep, node, n), n, "retiring"), {})
    BY <1>6 DEF Retire
  <2> HIDE DEF row
  <2> QED
    BY <1>5, <2>1, <2>2
<1>7. CASE Reactivate(n)
  <2> DEFINE row == [hist[Latest] EXCEPT !.topo[n] = Latest + 1]
  <2>1. row \in RevisionRow
    BY <1>1 DEF RevisionRow, Latest
  <2>2. Replan(n, Append(hist, row), AdvanceIntent(dep, n),
               Advanced(AdvanceDirty(dep, node, n), n, "active"), Isolated(node))
    BY <1>7 DEF Reactivate
  <2> HIDE DEF row
  <2> QED
    BY <1>5, <2>1, <2>2
<1>8. CASE RepairTeardown(n)
  <2>1. Replan(n, hist, dep, AdvanceDirty(dep, node, n), {})
    BY <1>8 DEF RepairTeardown
  <2> QED
    BY <1>1, <1>3, <2>1, ReplanAnswered
<1>9. CASE Abandon(n)
  <2> DEFINE ad == Advanced(node, n, "abandoned")
             nd == [ad EXCEPT ![n].tok = FALSE]
  <2>1. Replan(n, hist, dep, nd, {})
    BY <1>9 DEF Abandon
  <2>2. ad \in Nodes
    BY <1>1, AdvancedType
  <2> HIDE DEF ad
  <2>3. nd \in Nodes
    BY <2>2 DEF Nodes, NodeRow
  <2> HIDE DEF nd
  <2> QED
    BY <1>1, <2>1, <2>3, ReplanAnswered
<1> QED
  BY <1>6, <1>7, <1>8, <1>9

\* The report that completes a release: what it counts as succeeded runs it.
LEMMA SettleTargetAnswered ==
    ASSUME IInv, Safe, Owed(dep, node), Answered, NEW n \in Node, agent[n].pc = "spool",
           SettleTarget(agent[n].dep, n), UNCHANGED <<hist, draft, mach>>,
           \A m \in Node : agent'[m] = agent[m] \/ agent'[m].pc # "work"
    PROVE  Answered' /\ Serves
<1> DEFINE d == agent[n].dep
           v == Verdict(d, n, dep[d].tgt[n].fz)
<1>1. /\ d \in DOMAIN dep /\ Open(dep, d) /\ dep[d].tgt[n].st \in OpenTarget
      /\ DOMAIN dep' = DOMAIN dep
      /\ \A e \in DOMAIN dep \ {d} : dep'[e] = dep[e]
      /\ dep'[d].kind = dep[d].kind /\ dep'[d].rev = dep[d].rev
      /\ \A m \in Node \ {n} : dep'[d].tgt[m] = dep[d].tgt[m]
      /\ dep'[d].tgt[n].st = v /\ dep'[d].tgt[n].ost = dep[d].tgt[n].ost
      /\ \A m \in Node : /\ node'[m].iso = node[m].iso
                         /\ node'[m].phase = "active" => node[m].phase = "active"
      /\ \/ serving' = serving
         \/ \E dp \in Table :
               /\ d \in DOMAIN dp /\ Len(dp) = Len(dep)
               /\ dep' = Refresh(dp, node', d) /\ dp[d].tgt = dep'[d].tgt
               /\ dp[d].kind = dep[d].kind /\ dp[d].activation = dep[d].activation
               /\ serving' = Serve(serving, dep', node', d)
  BY SettleTargetRows
<1>2. agent[n].kind = dep[d].kind /\ (agent[n].kind = "config" => agent[n].cfg = mach[n].cfg)
  BY DEF Safe, Believes
<1>3. v = "succeeded" /\ dep[d].kind = "config" => mach[n].cfg = hist[dep[d].rev].topo[n]
  BY <1>2 DEF Verdict
<1>4. v \in {"succeeded", "failed"}
  BY VerdictType
<1>5. dep[d].activation = "waiting" /\ (dep[d].tgt[n].st = "pending" => dep[d].tgt[n].fz = Null)
  BY <1>1 DEF Safe, Sound, SoundRow, Columns, Open
<1>6. dep[d].tgt[n].st = "dispatched"
  BY <1>1, <1>5 DEF SettleTarget, SettlesTarget, OpenTarget
<1>7. \A m \in Node : Steadfast(agent, m) => Steadfast(agent', m)
  BY DEF Steadfast
<1>8. Steadfast(agent, n)
  BY DEF Steadfast
<1> HIDE DEF d, v
<1>9. dep[d].kind = "config" /\ node[n].phase = "active" =>
         \A e \in DOMAIN dep : dep[e].tgt[n].ost \notin Debt
  BY <1>1, <1>6 DEF Answered, Concluded, Detached, Owed
<1>10. ASSUME NEW m \in Node, dep'[d].kind = "config", dep'[d].tgt[m].st = "succeeded"
       PROVE  mach[m].cfg = hist[dep[d].rev].topo[m] /\ Steadfast(agent, m)
  BY <1>1, <1>3, <1>4, <1>8, <1>10 DEF Answered, Landed
<1>11. Landed(hist, dep', mach, agent)
  BY <1>1, <1>10 DEF Answered, Landed, Open
<1>12. Landed(hist, dep', mach, agent')
  BY <1>7, <1>11 DEF Landed
<1>13. \A e \in DOMAIN dep, m \in Node :
          dep'[e].kind = dep[e].kind /\ dep'[e].tgt[m].ost = dep[e].tgt[m].ost
  BY <1>1
<1>14. ASSUME NEW e \in DOMAIN dep, NEW m \in Node, Open(dep', e), dep'[e].kind = "config"
       PROVE  /\ dep'[e].tgt[m].st = "succeeded" /\ node'[m].phase = "active" =>
                    \A f \in DOMAIN dep : dep[f].kind = "config"
                        => dep[f].tgt[m].ost \notin Debt
              /\ dep'[e].tgt[m].st = "dispatched" => ~Detached(node', m)
  <2>1. dep[e].kind = "config" /\ node'[m].iso = node[m].iso
        /\ (node'[m].phase = "active" => node[m].phase = "active")
    BY <1>1, <1>13, <1>14
  <2>2. CASE e # d \/ m # n
    <3>1. Open(dep, e) /\ dep'[e].tgt[m] = dep[e].tgt[m]
      BY <1>1, <1>14, <2>2 DEF Open
    <3> QED
      BY <1>1, <2>1, <3>1 DEF Answered, Concluded, Detached
  <2>3. CASE e = d /\ m = n
    BY <1>1, <1>4, <1>9, <2>1, <2>3
  <2> QED
    BY <2>2, <2>3
<1>15. Concluded(dep', node')
  BY <1>1, <1>13, <1>14 DEF Concluded
<1>16. Serves
  <2> SUFFICES ASSUME serving'.dep # serving.dep, NEW m \in Node,
                      dep'[serving'.dep].tgt[m].st = "succeeded"
               PROVE  mach[m].cfg = hist[dep'[serving'.dep].rev].topo[m]
    BY DEF Serves
  <2>1. PICK dp \in Table :
               /\ d \in DOMAIN dp
               /\ dep' = Refresh(dp, node', d)
               /\ dp[d].kind = dep[d].kind /\ dp[d].activation = dep[d].activation
               /\ serving' = Serve(serving, dep', node', d)
    BY <1>1
  <2>2. serving'.dep = d /\ dep[d].kind = "config"
    <3>1. \/ serving' = serving
          \/ serving'.dep = d /\ dp[d].kind = "config"
      BY <1>5, <2>1, RefreshServes
    <3> QED
      BY <2>1, <3>1
  <2> QED
    BY <1>1, <1>10, <2>2
<1> QED
  BY <1>12, <1>15, <1>16 DEF Answered

LEMMA ConvergeAnswered ==
    ASSUME IInv, Safe, Owed(dep, node), Answered, NEW n \in Node, Converge(n)
    PROVE  Answered' /\ Serves
<1>1. /\ dep \in Table /\ node \in Nodes /\ agent \in Agents /\ Single(dep)
      /\ mach \in [Node -> Contents]
      /\ \A d \in DOMAIN dep : dep[d] \in DeploymentRow /\ dep[d].tgt \in [Node -> Target]
  BY RowType DEF IInv, DeploymentsOK, NodesOK, MachinesOK, DeploymentRow
<1>2. ASSUME NEW d \in DOMAIN dep, NEW work, work.kind = dep[d].kind,
             agent' = agent \/ agent' = [agent EXCEPT ![n] = work],
             dep[d].kind = "config" =>
                \A e \in DOMAIN dep' : Open(dep', e) /\ dep'[e].kind = "config"
                    => dep'[e].tgt[n].st # "succeeded",
             Landed(hist, dep', mach, agent)
      PROVE  Landed(hist, dep', mach, agent')
  <2> SUFFICES ASSUME NEW e \in DOMAIN dep', NEW m \in Node, Open(dep', e),
                      dep'[e].kind = "config", dep'[e].tgt[m].st = "succeeded"
               PROVE  mach[m].cfg = hist[dep'[e].rev].topo[m] /\ Steadfast(agent', m)
    BY DEF Landed
  <2>1. mach[m].cfg = hist[dep'[e].rev].topo[m] /\ Steadfast(agent, m)
    BY <1>2 DEF Landed
  <2>2. CASE m # n \/ agent' = agent
    BY <1>1, <1>2, <2>1, <2>2 DEF Steadfast, Agents
  <2>3. CASE m = n /\ agent' = [agent EXCEPT ![n] = work]
    <3>1. agent'[m] = work /\ dep[d].kind # "config"
      BY <1>1, <1>2, <2>3 DEF Agents
    <3> QED
      BY <1>2, <2>1, <3>1 DEF Steadfast
  <2> QED
    BY <1>2, <2>2, <2>3
<1>3. ASSUME NEW d \in DOMAIN dep, NEW lost \in BOOLEAN, ClaimObligation(n, d, lost)
      PROVE  Answered' /\ Serves
  <2> DEFINE t     == dep[d].tgt[n]
             claim == IF t.ost = "pending" THEN t.claim + 1 ELSE t.claim
             tgt   == [dep[d].tgt EXCEPT ![n].ost = "dispatched", ![n].claim = claim]
             row   == [dep[d] EXCEPT !.tgt = tgt]
             work  == Work(d, n, claim, t.ogr)
  <2>1. /\ dep' = [dep EXCEPT ![d] = row] /\ UNCHANGED <<hist, node, serving, mach>>
        /\ agent' = agent \/ agent' = [agent EXCEPT ![n] = work]
        /\ t.ost \in OpenTarget /\ node[n].phase = "active"
    BY <1>3 DEF ClaimObligation, CurrentDebt, Handed, Detached
  <2>2. /\ \A m \in Node \ {n} : tgt[m] = dep[d].tgt[m]
        /\ tgt[n].st = t.st /\ tgt[n].ost = "dispatched"
    BY <1>1 DEF Target
  <2>3. work.kind = dep[d].kind
    BY DEF Work
  <2> HIDE DEF tgt, work
  <2>4. /\ row.tgt = tgt /\ row.status = dep[d].status
        /\ row.kind = dep[d].kind /\ row.rev = dep[d].rev
    BY <1>1 DEF DeploymentRow
  <2> HIDE DEF row
  <2>5. NothingNew(dep, dep')
    <3>1. row.status \in OpenDeployment => Open(dep, d)
      BY <2>4 DEF Open
    <3>2. ASSUME NEW m \in Node
          PROVE  /\ row.tgt[m].st = "succeeded" => dep[d].tgt[m].st = "succeeded"
                 /\ row.tgt[m].st = "dispatched" => dep[d].tgt[m].st = "dispatched"
                 /\ row.tgt[m].ost \in Debt => dep[d].tgt[m].ost \in Debt
      <4>1. CASE m = n
        BY <2>1, <2>2, <2>4, <4>1 DEF Debt, OpenTarget
      <4>2. CASE m # n
        BY <2>2, <2>4, <4>2
      <4> QED
        BY <4>1, <4>2
    <3>3. NothingNew(dep, [dep EXCEPT ![d] = row])
      BY ONLY <1>1, <2>4, <3>1, <3>2, RowNothingNew
    <3> QED
      BY <2>1, <3>3
  <2>6. NoneAttached(node, node')
    BY <2>1 DEF NoneAttached
  <2>7. Landed(hist, dep', mach, agent) /\ Concluded(dep', node')
    BY <2>5, <2>6, StaysLanded, StaysConcluded DEF Answered
  <2>8. dep[d].kind = "config" =>
           \A e \in DOMAIN dep' : Open(dep', e) /\ dep'[e].kind = "config"
               => dep'[e].tgt[n].st # "succeeded"
    <3> SUFFICES ASSUME dep[d].kind = "config", NEW e \in DOMAIN dep', Open(dep', e),
                        dep'[e].kind = "config", dep'[e].tgt[n].st = "succeeded"
                 PROVE  FALSE
      OBVIOUS
    <3>1. /\ e \in DOMAIN dep /\ Open(dep, e) /\ dep[e].kind = "config"
          /\ dep[e].tgt[n].st = "succeeded"
      BY <2>5 DEF NothingNew
    <3>2. dep[d].tgt[n].ost \notin Debt
      BY <2>1, <3>1 DEF Answered, Concluded
    <3> QED
      BY <2>1, <3>2 DEF Debt, OpenTarget
  <2>9. Landed(hist, dep', mach, agent')
    BY <1>2, <2>1, <2>3, <2>7, <2>8
  <2> QED
    BY <2>1, <2>7, <2>9 DEF Answered, Serves
<1>4. ASSUME NEW d \in DOMAIN dep, NEW lost \in BOOLEAN, ClaimTarget(n, d, lost)
      PROVE  Answered' /\ Serves
  <2> DEFINE t     == dep[d].tgt[n]
             gr    == IF t.st = "pending" THEN t.gr ELSE t.fz
             tgt   == [dep[d].tgt EXCEPT ![n].st = "dispatched", ![n].fz = gr]
             row   == [dep[d] EXCEPT !.tgt = tgt, !.status = "running"]
             work  == Work(d, n, 0, gr)
  <2>1. /\ dep' = dep \/ dep' = [dep EXCEPT ![d] = row]
        /\ agent' = agent \/ agent' = [agent EXCEPT ![n] = work]
        /\ UNCHANGED <<hist, node, serving, mach>>
        /\ Open(dep, d) /\ t.st \in OpenTarget /\ ~Detached(node, n)
    BY <1>4 DEF ClaimTarget, FirstOffer, Offers, Handed, Open, OpenDeployment
  <2>2. /\ tgt[n].st = "dispatched" /\ tgt[n].ost = t.ost
        /\ \A m \in Node \ {n} : tgt[m] = dep[d].tgt[m]
    BY <1>1 DEF Target
  <2>3. work.kind = dep[d].kind
    BY DEF Work
  <2> HIDE DEF tgt, gr, work
  <2>4. row.tgt = tgt /\ row.kind = dep[d].kind /\ row.rev = dep[d].rev
    BY <1>1 DEF DeploymentRow
  <2> HIDE DEF row
  <2>5. /\ DOMAIN dep' = DOMAIN dep
        /\ \A e \in DOMAIN dep : e # d => dep'[e] = dep[e]
        /\ dep'[d] = dep[d] \/ dep'[d] = row
    BY <1>1, <2>1 DEF Table
  <2>6. ASSUME NEW e \in DOMAIN dep, NEW m \in Node
        PROVE  /\ dep'[e].kind = dep[e].kind /\ dep'[e].rev = dep[e].rev
               /\ dep'[e].tgt[m].ost = dep[e].tgt[m].ost
               /\ Open(dep', e) => Open(dep, e)
               /\ dep'[e].tgt[m].st = "succeeded" => dep[e].tgt[m].st = "succeeded"
               /\ dep'[e].tgt[m].st = "dispatched" =>
                     dep[e].tgt[m].st = "dispatched" \/ ~Detached(node, m)
    <3>1. CASE dep'[e] = dep[e]
      BY <3>1 DEF Open
    <3>2. CASE e = d /\ dep'[d] = row
      <4>1. CASE m = n
        BY <2>1, <2>2, <2>4, <3>2, <4>1
      <4>2. CASE m # n
        BY <2>1, <2>2, <2>4, <3>2, <4>2
      <4> QED
        BY <4>1, <4>2
    <3> QED
      BY <2>5, <3>1, <3>2
  <2>7. Landed(hist, dep', mach, agent)
    BY <2>5, <2>6 DEF Answered, Landed
  <2>8. Concluded(dep', node')
    BY <2>1, <2>5, <2>6 DEF Answered, Concluded
  <2>9. dep[d].kind = "config" =>
           \A e \in DOMAIN dep' : Open(dep', e) /\ dep'[e].kind = "config"
               => dep'[e].tgt[n].st # "succeeded"
    <3> SUFFICES ASSUME dep[d].kind = "config", NEW e \in DOMAIN dep', Open(dep', e),
                        dep'[e].kind = "config", dep'[e].tgt[n].st = "succeeded"
                 PROVE  FALSE
      OBVIOUS
    <3>1. /\ e \in DOMAIN dep /\ Open(dep, e) /\ dep[e].kind = "config"
          /\ dep[e].tgt[n].st = "succeeded"
      BY <2>5, <2>6
    <3>2. e = d
      BY <1>1, <2>1, <3>1 DEF Single
    <3> QED
      BY <2>1, <3>1, <3>2 DEF OpenTarget
  <2>10. Landed(hist, dep', mach, agent')
    BY <1>2, <2>1, <2>3, <2>7, <2>9
  <2> QED
    BY <2>1, <2>8, <2>10 DEF Answered, Serves
<1>5. ASSUME NEW result \in {"applied", "recovered", "dirty"}, Execute(n, result) \/ Crash(n, result)
      PROVE  Answered' /\ Serves
  <2>1. /\ agent[n].pc = "work" /\ mach' = [mach EXCEPT ![n] = Outcomes(n)[result]]
        /\ UNCHANGED <<hist, dep, node, serving>>
    BY <1>5 DEF Execute, Crash
  <2>2. \A m \in Node : Steadfast(agent, m) => Steadfast(agent', m)
    BY <1>1, <1>5 DEF Execute, Crash, Steadfast, Agents, Idle
  <2>3. \A m \in Node : Steadfast(agent, m) => mach'[m].cfg = mach[m].cfg
    <3>1. Steadfast(agent, n) => agent[n].kind # "config"
      BY <2>1 DEF Steadfast
    <3> QED
      BY <1>1, <2>1, <3>1, OutcomesRows
  <2>4. Landed(hist, dep, mach', agent')
    BY <2>2, <2>3 DEF Answered, Landed
  <2> QED
    BY <2>1, <2>4 DEF Answered, Serves
<1>6. ASSUME NEW lost \in BOOLEAN, Deliver(n, lost)
      PROVE  Answered' /\ Serves
  <2> DEFINE d == agent[n].dep
  <2>1. /\ SettleObligation(d, n) \/ SettleTarget(d, n) \/ RefuseReport(d, n)
        /\ agent[n].pc = "spool" /\ UNCHANGED <<hist, draft, mach>>
        /\ agent' = IF lost THEN agent ELSE [agent EXCEPT ![n] = Idle]
    BY <1>6 DEF Deliver
  <2>2. \A m \in Node : agent'[m] = agent[m] \/ agent'[m].pc # "work"
    BY <1>1, <2>1 DEF Agents, Idle
  <2>3. \A m \in Node : Steadfast(agent, m) => Steadfast(agent', m)
    BY <2>2 DEF Steadfast
  <2>4. /\ d \in DOMAIN dep /\ agent[n].kind = dep[d].kind
        /\ agent[n].kind = "config" => agent[n].cfg = mach[n].cfg
    BY <2>1 DEF Safe, Believes
  <2>5. CASE RefuseReport(d, n)
    <3>1. Landed(hist, dep, mach, agent')
      BY <2>3 DEF Answered, Landed
    <3> QED
      BY <2>1, <2>5, <3>1 DEF RefuseReport, Answered, Serves
  <2>6. CASE SettleTarget(d, n)
    BY <2>1, <2>2, <2>6, SettleTargetAnswered
  <2>7. CASE SettleObligation(d, n)
    <3> DEFINE v   == Verdict(d, n, dep[d].tgt[n].ogr)
               tgt == [dep[d].tgt EXCEPT ![n].st = v, ![n].ost = v, ![n].fz = Null]
               row == [dep[d] EXCEPT !.tgt = tgt, !.settle = Settlement(tgt)]
    <3>1. /\ dep' = [dep EXCEPT ![d] = row] /\ node' = Observed(node, n) /\ UNCHANGED serving
          /\ dep[d].tgt[n].ost = "dispatched" /\ dep[d].tgt[n].ep = node[n].epoch
          /\ node[n].phase = "active"
      BY <2>7 DEF SettleObligation, SettlesObligation, ForObligation
    <3>2. v \in {"succeeded", "failed"}
      BY VerdictType
    <3>3. v = "succeeded" /\ dep[d].kind = "config" => mach[n].cfg = hist[dep[d].rev].topo[n]
      BY <2>4 DEF Verdict
    <3>4. Steadfast(agent, n)
      BY <2>1 DEF Steadfast
    <3>5. SameMachines(node, node')
      BY <3>1, ObservedRows
    <3>6. /\ dep[d] \in DeploymentRow
          /\ dep[d].tgt \in [Node -> Target] /\ dep[d].tgt[n] \in Target
      BY <1>1, <2>4
    <3> HIDE DEF v, d
    <3>7. /\ \A m \in Node \ {n} : tgt[m] = dep[d].tgt[m]
          /\ tgt[n].st = v /\ tgt[n].ost = v
      BY ONLY <3>6 DEF Target
    <3> HIDE DEF tgt
    <3>8. /\ row.tgt = tgt /\ row.status = dep[d].status
          /\ row.kind = dep[d].kind /\ row.rev = dep[d].rev
      BY ONLY <3>6 DEF DeploymentRow
    <3> HIDE DEF row
    <3>9. /\ DOMAIN dep' = DOMAIN dep
          /\ \A e \in DOMAIN dep : dep'[e] = IF e = d THEN row ELSE dep[e]
      BY <1>1, <3>1 DEF Table
    <3>10. ASSUME NEW e \in DOMAIN dep, NEW m \in Node
           PROVE  /\ dep'[e].kind = dep[e].kind /\ dep'[e].rev = dep[e].rev
                  /\ Open(dep', e) <=> Open(dep, e)
                  /\ e # d \/ m # n => dep'[e].tgt[m] = dep[e].tgt[m]
                  /\ dep'[e].tgt[m].ost \in Debt => dep[e].tgt[m].ost \in Debt
      BY <3>1, <3>2, <3>7, <3>8, <3>9 DEF Open, Debt
    <3>11. dep'[d].tgt[n].st = v /\ dep'[d].tgt[n].ost = v
      BY <2>4, <3>7, <3>8, <3>9
    <3>12. \A e \in DOMAIN dep : e # d /\ dep[e].kind = dep[d].kind => dep[e].tgt[n].ost \notin Debt
      BY <2>4, <3>1 DEF Owed, Safe, Sound, Alone, Debt
    <3>13. Landed(hist, dep', mach, agent)
      <4> SUFFICES ASSUME NEW e \in DOMAIN dep, NEW m \in Node, Open(dep', e),
                          dep'[e].kind = "config", dep'[e].tgt[m].st = "succeeded"
                   PROVE  mach[m].cfg = hist[dep'[e].rev].topo[m] /\ Steadfast(agent, m)
        BY <3>9 DEF Landed
      <4>1. CASE e = d /\ m = n
        BY <3>3, <3>4, <3>10, <3>11, <4>1
      <4>2. CASE e # d \/ m # n
        BY <3>10, <4>2 DEF Answered, Landed
      <4> QED
        BY <4>1, <4>2
    <3>14. Concluded(dep', node')
      <4> SUFFICES ASSUME NEW e \in DOMAIN dep, NEW m \in Node, Open(dep', e),
                          dep'[e].kind = "config"
                   PROVE  /\ dep'[e].tgt[m].st = "succeeded" /\ node'[m].phase = "active" =>
                                \A f \in DOMAIN dep : dep'[f].kind = "config"
                                    => dep'[f].tgt[m].ost \notin Debt
                          /\ dep'[e].tgt[m].st = "dispatched" => ~Detached(node', m)
        BY <3>9 DEF Concluded
      <4>1. node'[m].phase = node[m].phase /\ (Detached(node', m) => Detached(node, m))
        BY <3>5 DEF SameMachines, Detached
      <4>2. Open(dep, e) /\ dep[e].kind = "config"
        BY <3>10
      <4>3. CASE e = d /\ m = n
        <5>1. dep'[e].tgt[m].st # "dispatched"
          BY <3>2, <3>11, <4>3
        <5>2. ASSUME dep'[e].tgt[m].st = "succeeded", NEW f \in DOMAIN dep,
                     dep'[f].kind = "config"
              PROVE  dep'[f].tgt[m].ost \notin Debt
          <6>1. CASE f = d
            BY <3>11, <4>3, <5>2, <6>1 DEF Debt
          <6>2. CASE f # d
            BY <3>10, <3>12, <4>2, <4>3, <5>2, <6>2
          <6> QED
            BY <6>1, <6>2
        <5> QED
          BY <5>1, <5>2
      <4>4. CASE e # d \/ m # n
        BY <3>10, <4>1, <4>2, <4>4 DEF Answered, Concluded
      <4> QED
        BY <4>3, <4>4
    <3>15. Landed(hist, dep', mach, agent')
      BY <2>3, <3>13 DEF Landed
    <3> QED
      BY <2>1, <3>1, <3>14, <3>15 DEF Answered, Serves
  <2> QED
    BY <2>1, <2>5, <2>6, <2>7
<1> QED
  BY <1>3, <1>4, <1>5, <1>6 DEF Converge

LEMMA NextAnswered ==
    (IInv /\ Safe /\ Reachable /\ Answered) /\ [Next]_vars
        => Answered' /\ (Serves \/ UNCHANGED vars)
<1> SUFFICES ASSUME IInv, Safe, Reachable, Answered, [Next]_vars
             PROVE  Answered' /\ (Serves \/ UNCHANGED vars)
  OBVIOUS
<1>1. CASE UNCHANGED vars
  BY <1>1 DEF vars, Answered
<1>2. CASE Release
  BY <1>2, ReleaseAnswered
<1>3. CASE Operate
  BY <1>3, OperateAnswered
<1>4. CASE Lifecycle
  BY <1>4, LifecycleAnswered DEF Lifecycle
<1>5. ASSUME NEW n \in Node, IssueToken(n)
      PROVE  Answered' /\ Serves
  <2>1. node \in Nodes
    BY DEF IInv, NodesOK
  <2>2. UNCHANGED <<hist, dep, serving, mach, agent>> /\ SameMachines(node, node')
    BY <1>5, <2>1 DEF IssueToken, Nodes, NodeRow, SameMachines
  <2>3. NothingNew(dep, dep) /\ NoneAttached(node, node')
    BY <2>2, SameNoneAttached DEF NothingNew
  <2> QED
    BY <2>2, <2>3, NothingAnswered DEF Serves
<1>6. ASSUME NEW n \in Node, Converge(n)
      PROVE  Answered' /\ Serves
  BY <1>6, ConvergeAnswered DEF Reachable
<1> QED
  BY <1>1, <1>2, <1>3, <1>4, <1>5, <1>6 DEF Next

\* Where no machine dials a listener of another one, the subscription pointer
\* (activate_deployment_tx) never moves to a release while a machine that the
\* release counts as succeeded runs something else, whatever is isolated, retired,
\* re-planned or retried meanwhile and however late the reports come: the report of
\* a target is accepted only while nothing else may be executing there.
THEOREM SucceededIsRunning ==
    ASSUME Requires = {}
    PROVE  Spec => [][serving'.dep # serving.dep =>
                        \A n \in Node : dep'[serving'.dep].tgt[n].st = "succeeded" =>
                            mach'[n].cfg = hist'[dep'[serving'.dep].rev].topo[n]]_vars
<1>1. Init => Reachable /\ Answered
  <2> SUFFICES ASSUME Init
               PROVE  Reachable /\ Answered
    OBVIOUS
  <2>1. dep = <<FirstRelease>> /\ draft = NoDraft
    BY DEF Init
  <2>2. /\ FirstRelease.status = "succeeded"
        /\ \A n \in Node : FirstRelease.tgt[n].ost = "none" /\ NoDraft.tgt[n].st = "none"
    BY DEF FirstRelease, NoDraft, NoTarget
  <2>3. Reachable
    BY <2>1, <2>2 DEF Reachable, Owed, Fresh, Debt
  <2>4. Answered
    BY <2>1, <2>2 DEF Answered, Landed, Concluded, Open, OpenDeployment
  <2> QED
    BY <2>3, <2>4
<1>2. (IInv /\ Safe /\ Reachable /\ Answered) /\ [Next]_vars
          => (IInv /\ Safe /\ Reachable /\ Answered)'
  BY NextIInv, NextSafe, NextOwed, NextAnswered
<1>3. (IInv /\ Safe /\ Reachable /\ Answered) /\ [Next]_vars =>
          [serving'.dep # serving.dep =>
              \A n \in Node : dep'[serving'.dep].tgt[n].st = "succeeded" =>
                  mach'[n].cfg = hist'[dep'[serving'.dep].rev].topo[n]]_vars
  BY NextAnswered DEF Serves
<1>4. Init => IInv /\ Safe
  BY InitIInv, InitSafe
<1> QED
  BY <1>1, <1>2, <1>3, <1>4, PTL DEF Spec
=============================================================================
