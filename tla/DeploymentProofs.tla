--------------------------- MODULE DeploymentProofs ---------------------------
(***************************************************************************)
(* The release control plane, for every fleet and every bound.  Two        *)
(* layers, each an inductive invariant on top of the one before:           *)
(*                                                                         *)
(*  IInv   every table is well typed and single flight holds;              *)
(*  Safe   what the rows of a release say of each other (Sound), what the  *)
(*         control plane believes of a machine and its agent (Believes),   *)
(*         and that a retired machine is off (Off).                        *)
(*                                                                         *)
(* The transactions are compositions of functions on the deployments       *)
(* table.  Each function gets lemmas of its own: what it does to a row     *)
(* (Rows), that it keeps identities and opens nothing (Keeps), that it     *)
(* only withdraws (Quiet) and that it forgets no executing agent           *)
(* (Covered).  The actions only combine the lemmas.                        *)
(***************************************************************************)
EXTENDS Deployment, NumberLemmas, SequenceTheorems

RevisionRow == [topo : [Node -> Nat], perm : Nat]
ServingRow  == [dep : Nat, perm : Nat, iso : SUBSET Node]
PlanTarget  == {t \in Target : /\ t.st \in {"none", "skipped", "pending", "deferred"}
                               /\ t.ost = "none" /\ t.fz = Null}
PlanRow     == [kind : Kind, rev : Nat, tgt : [Node -> PlanTarget]]
Nodes       == [Node -> NodeRow]
History     == Seq(RevisionRow)
Table       == Seq(DeploymentRow)

\* Every deployment is one of a revision that exists.
Dated(h, dp) == \A d \in DOMAIN dp : dp[d].rev \in DOMAIN h

\* The permission list of an order that is out is frozen in its target.
Frozen(dp) ==
    \A d \in DOMAIN dp, n \in Node :
        dp[d].tgt[n].st = "dispatched" => dp[d].tgt[n].fz \in Nat

\* No order of q went out since r.
SameOrders(r, q) ==
    \A n \in Node : q.tgt[n].st = "dispatched" =>
        r.tgt[n].st = "dispatched" /\ q.tgt[n].fz = r.tgt[n].fz

\* dq is dp after rows changed: none was renamed, reopened or sent out.
Keeps(dp, dq) ==
    /\ DOMAIN dq = DOMAIN dp
    /\ \A d \in DOMAIN dp : /\ dq[d].kind = dp[d].kind
                            /\ dq[d].rev = dp[d].rev
                            /\ Open(dq, d) => Open(dp, d)
                            /\ SameOrders(dp[d], dq[d])

\* No order of a kind is open.
NoneOpen(dp, kind) == \A d \in DOMAIN dp : Open(dp, d) => dp[d].kind # kind

\* SingleFlight of a table that is not yet dep.
Single(dp) ==
    \A d, e \in DOMAIN dp :
        Open(dp, d) /\ Open(dp, e) /\ dp[d].kind = dp[e].kind => d = e

LEMMA KeepsTransitive ==
    ASSUME NEW dp, NEW dq, NEW dr, Keeps(dp, dq), Keeps(dq, dr)
    PROVE  Keeps(dp, dr)
<1> QED
  BY DEF Keeps, SameOrders

LEMMA KeepsDated ==
    ASSUME NEW h, NEW dp, NEW dq, Keeps(dp, dq), Dated(h, dp)
    PROVE  Dated(h, dq)
<1> QED
  BY DEF Keeps, Dated

LEMMA KeepsSingle ==
    ASSUME NEW dp, NEW dq, Keeps(dp, dq), Single(dp)
    PROVE  Single(dq)
<1> QED
  BY DEF Keeps, Single

LEMMA KeepsFrozen ==
    ASSUME NEW dp, NEW dq, Keeps(dp, dq), Frozen(dp)
    PROVE  Frozen(dq)
<1> QED
  BY DEF Keeps, SameOrders, Frozen

\* A function on an interval is a sequence.
LEMMA Rows ==
    ASSUME NEW T, NEW dp \in Seq(T), NEW U, NEW f \in [DOMAIN dp -> U]
    PROVE  f \in Seq(U) /\ DOMAIN f = DOMAIN dp /\ DOMAIN dp = 1..Len(dp)
<1>1. DOMAIN dp = 1..Len(dp) /\ Len(dp) \in Nat
  OBVIOUS
<1> QED
  BY <1>1, SeqDef

LEMMA RowType ==
    ASSUME NEW dp \in Table, NEW d \in DOMAIN dp
    PROVE  dp[d] \in DeploymentRow /\ \A n \in Node : dp[d].tgt[n] \in Target
<1>1. dp[d] \in DeploymentRow
  BY DEF Table
<1> QED
  BY <1>1 DEF DeploymentRow
----------------------------------------------------------------------------
(* Planning.                                                               *)

LEMMA NoTargetType == NoTarget \in PlanTarget /\ NoTarget \in Target
<1> QED
  BY DEF NoTarget, Target, PlanTarget, Null

LEMMA GrantsAtType ==
    ASSUME NEW h \in History, NEW r \in DOMAIN h, NEW n \in Node
    PROVE  GrantsAt(h, r, n) \in Nat /\ h[r].topo[n] \in Nat /\ h[r].perm \in Nat
<1>1. h[r] \in RevisionRow
  BY DEF History
<1> QED
  BY <1>1 DEF RevisionRow, GrantsAt

LEMMA ConfigPlanType ==
    ASSUME NEW h \in History, NEW r \in DOMAIN h, NEW nd \in Nodes,
           NEW waves \in WaveFunctions, NEW told
    PROVE  ConfigPlan(h, r, nd, waves, told) \in PlanRow
           /\ ConfigPlan(h, r, nd, waves, told).kind = "config"
           /\ ConfigPlan(h, r, nd, waves, told).rev = r
<1>1. r \in Nat
  BY DEF History
<1>2. Cardinality(Node) \in Nat
  BY NodeAssumption, FS_CardinalityType
<1>3. \A n \in Node : waves[n] \in Nat
  BY <1>2 DEF WaveFunctions
<1>4. \A n \in Node : Disruptive(h, r, nd, told, n) \in BOOLEAN
  BY DEF Disruptive
<1> DEFINE pending(n) == [NoTarget EXCEPT !.st = "pending", !.wave = waves[n],
                                          !.disr = Disruptive(h, r, nd, told, n),
                                          !.gr = GrantsAt(h, r, n)]
           skipped == [NoTarget EXCEPT !.st = "skipped"]
           tgt == [n \in Node |->
                      IF n \in Changing(h, r, nd) THEN pending(n)
                      ELSE IF nd[n].phase \in Participating /\ n \notin TornDown(h, r)
                      THEN skipped ELSE NoTarget]
<1>5. ASSUME NEW n \in Node
      PROVE  pending(n) \in PlanTarget
  BY <1>3, <1>4, GrantsAtType, NoTargetType DEF Target, PlanTarget
<1>6. skipped \in PlanTarget
  BY NoTargetType DEF Target, PlanTarget
<1> HIDE DEF pending, skipped
<1>7. tgt \in [Node -> PlanTarget]
  BY <1>5, <1>6, NoTargetType
<1>8. ConfigPlan(h, r, nd, waves, told) = [kind |-> "config", rev |-> r, tgt |-> tgt]
  BY DEF ConfigPlan, pending, skipped
<1> QED
  BY <1>1, <1>7, <1>8 DEF PlanRow, Kind

LEMMA GrantsPlanType ==
    ASSUME NEW h \in History, NEW r \in DOMAIN h, NEW nd \in Nodes
    PROVE  GrantsPlan(h, r, nd) \in PlanRow /\ GrantsPlan(h, r, nd).rev = r
<1>1. r \in Nat
  BY DEF History
<1> DEFINE owed == {n \in Node : /\ nd[n].phase \in Participating
                                 /\ h[r].topo[n] # 0
                                 /\ nd[n].cfg = h[r].topo[n]
                                 /\ nd[n].gr # h[r].perm}
           pending == [NoTarget EXCEPT !.st = "pending", !.gr = h[r].perm]
           tgt == [n \in Node |-> IF n \in owed THEN pending ELSE NoTarget]
<1>2. ASSUME NEW n \in Node
      PROVE  pending \in PlanTarget
  BY GrantsAtType, NoTargetType DEF Target, PlanTarget
<1> HIDE DEF pending, owed
<1>3. tgt \in [Node -> PlanTarget]
  BY <1>2, NoTargetType
<1>4. GrantsPlan(h, r, nd) = [kind |-> "grants", rev |-> r, tgt |-> tgt]
  BY DEF GrantsPlan, pending, owed
<1> QED
  BY <1>1, <1>3, <1>4 DEF PlanRow, Kind

LEMMA MarkIsolatedType ==
    ASSUME NEW plan \in PlanRow, NEW isolated
    PROVE  /\ MarkIsolated(plan, isolated) \in PlanRow
           /\ MarkIsolated(plan, isolated).kind = plan.kind
           /\ MarkIsolated(plan, isolated).rev = plan.rev
<1> DEFINE late == DeferredBy(plan, isolated)
           put(n) == [plan.tgt[n] EXCEPT !.st = "deferred"]
           tgt == [n \in Node |-> IF n \in late THEN put(n) ELSE plan.tgt[n]]
<1>1. plan.tgt \in [Node -> PlanTarget]
  BY DEF PlanRow
<1>2. ASSUME NEW n \in Node
      PROVE  put(n) \in PlanTarget
  BY <1>1 DEF Target, PlanTarget
<1> HIDE DEF late, put
<1>3. tgt \in [Node -> PlanTarget]
  BY <1>1, <1>2
<1>4. MarkIsolated(plan, isolated) = [plan EXCEPT !.tgt = tgt]
  BY DEF MarkIsolated, put, late
<1> QED
  BY <1>3, <1>4 DEF PlanRow
----------------------------------------------------------------------------
(* The functions on the tables.                                            *)

LEMMA MarkDirtyType ==
    ASSUME NEW nd \in Nodes, NEW S, NEW kind
    PROVE  MarkDirty(nd, S, kind) \in Nodes
<1> DEFINE put(n) == [nd[n] EXCEPT !.cfg = IF kind = "config" THEN Unsure ELSE @,
                                   !.gr = Unsure]
<1>1. ASSUME NEW n \in Node
      PROVE  nd[n] \in NodeRow /\ put(n) \in NodeRow
  BY DEF Nodes, NodeRow, Content, Unsure
<1>2. MarkDirty(nd, S, kind) = [n \in Node |-> IF n \notin S THEN nd[n] ELSE put(n)]
  BY DEF MarkDirty
<1> HIDE DEF put
<1> QED
  BY <1>1, <1>2 DEF Nodes

LEMMA SettlementType ==
    ASSUME NEW tgt
    PROVE  Settlement(tgt) \in {"converged", "debt", "uncertain"}
<1> QED
  BY DEF Settlement

\* New targets and a new settlement keep everything else of a row.
Settled(r, tgt, settle) == [r EXCEPT !.tgt = tgt, !.settle = settle]

LEMMA SettledType ==
    ASSUME NEW r \in DeploymentRow, NEW tgt \in [Node -> Target],
           NEW settle \in {"converged", "debt", "uncertain"}
    PROVE  /\ Settled(r, tgt, settle) \in DeploymentRow
           /\ Settled(r, tgt, settle).kind = r.kind
           /\ Settled(r, tgt, settle).rev = r.rev
           /\ Settled(r, tgt, settle).status = r.status
           /\ Settled(r, tgt, settle).tgt = tgt
<1> QED
  BY DEF DeploymentRow, Settled

LEMMA ObligeType ==
    ASSUME NEW h \in History, NEW dp \in Table, Dated(h, dp), NEW d \in DOMAIN dp,
           NEW S \in SUBSET Node
    PROVE  Oblige(h, dp, d, S) \in Table /\ Keeps(dp, Oblige(h, dp, d, S))
<1> DEFINE hit(e) == {n \in S : e \in Replaced(dp, d, n)}
           close(e, n) ==
              [dp[e].tgt[n] EXCEPT
                  !.ost = "superseded",
                  !.st = IF @ \in {"deferred", "failed"} THEN "superseded" ELSE @]
           closed(e) == [n \in Node |-> IF n \notin hit(e) THEN dp[e].tgt[n]
                                        ELSE close(e, n)]
           owe(n) ==
              [closed(d)[n] EXCEPT
                  !.ost = "pending", !.claim = 0,
                  !.ogr = IF dp[d].kind = "config"
                          THEN GrantsAt(h, dp[d].rev, n) ELSE dp[d].tgt[n].gr]
           owing == [n \in Node |-> IF n \notin S THEN closed(d)[n] ELSE owe(n)]
           row(e) == IF e = d THEN [dp[d] EXCEPT !.tgt = owing]
                     ELSE IF hit(e) = {} THEN dp[e]
                     ELSE [dp[e] EXCEPT !.tgt = closed(e),
                                        !.settle = Settlement(closed(e))]
<1>1. ASSUME NEW e \in DOMAIN dp
      PROVE  /\ closed(e) \in [Node -> Target]
             /\ \A n \in Node : /\ closed(e)[n].st = "dispatched" => dp[e].tgt[n].st = "dispatched"
                                /\ closed(e)[n].fz = dp[e].tgt[n].fz
  <2>1. ASSUME NEW n \in Node
        PROVE  /\ dp[e].tgt[n] \in Target /\ close(e, n) \in Target
               /\ close(e, n).st = "dispatched" => dp[e].tgt[n].st = "dispatched"
               /\ close(e, n).fz = dp[e].tgt[n].fz
    <3>1. dp[e].tgt[n] \in Target
      BY RowType
    <3> QED
      BY <3>1 DEF Target
  <2> HIDE DEF close, hit
  <2> QED
    BY <2>1
<1>2. ASSUME NEW n \in Node
      PROVE  /\ owe(n) \in Target
             /\ owe(n).st = closed(d)[n].st /\ owe(n).fz = closed(d)[n].fz
  <2>1. closed(d)[n] \in Target /\ dp[d].tgt[n].gr \in Nat
    <3>1. dp[d].tgt[n] \in Target
      BY RowType
    <3> HIDE DEF closed
    <3> QED
      BY <1>1, <3>1 DEF Target
  <2>2. GrantsAt(h, dp[d].rev, n) \in Nat
    BY GrantsAtType DEF Dated
  <2> HIDE DEF closed
  <2> QED
    BY <2>1, <2>2 DEF Target
<1>3. /\ owing \in [Node -> Target]
      /\ \A n \in Node : /\ owing[n].st = closed(d)[n].st
                         /\ owing[n].fz = closed(d)[n].fz
  <2> HIDE DEF closed, owe
  <2> QED
    BY <1>1, <1>2
<1>4. ASSUME NEW e \in DOMAIN dp
      PROVE  /\ row(e) \in DeploymentRow
             /\ row(e).kind = dp[e].kind /\ row(e).rev = dp[e].rev
             /\ row(e).status = dp[e].status
             /\ SameOrders(dp[e], row(e))
  <2>1. dp[e] \in DeploymentRow
    BY RowType
  <2>2. Settlement(closed(e)) \in {"converged", "debt", "uncertain"}
    BY SettlementType
  <2>3. closed(e) \in [Node -> Target] /\ owing \in [Node -> Target]
    BY <1>1, <1>3
  <2> HIDE DEF closed, owing, hit
  <2>4. CASE e = d
    <3>1. /\ row(e) \in DeploymentRow
          /\ row(e).kind = dp[e].kind /\ row(e).rev = dp[e].rev
          /\ row(e).status = dp[e].status /\ row(e).tgt = owing
      BY <2>1, <2>3, <2>4 DEF DeploymentRow
    <3> HIDE DEF row
    <3> QED
      BY <1>1, <1>3, <2>4, <3>1 DEF SameOrders
  <2>5. CASE e # d /\ hit(e) = {}
    BY <2>1, <2>5 DEF SameOrders
  <2>6. CASE e # d /\ hit(e) # {}
    <3>1. /\ row(e) \in DeploymentRow
          /\ row(e).kind = dp[e].kind /\ row(e).rev = dp[e].rev
          /\ row(e).status = dp[e].status /\ row(e).tgt = closed(e)
      <4>1. row(e) = Settled(dp[e], closed(e), Settlement(closed(e)))
        BY <2>6 DEF Settled
      <4> HIDE DEF row
      <4> QED
        BY <2>1, <2>2, <2>3, <4>1, SettledType
    <3> HIDE DEF row
    <3> QED
      BY <1>1, <3>1 DEF SameOrders
  <2> QED
    BY <2>4, <2>5, <2>6
<1>5. Oblige(h, dp, d, S) = [e \in DOMAIN dp |-> row(e)]
  BY DEF Oblige
<1> HIDE DEF row
<1>6. [e \in DOMAIN dp |-> row(e)] \in [DOMAIN dp -> DeploymentRow]
  BY <1>4
<1> QED
  BY <1>4, <1>5, <1>6, Rows DEF Keeps, Open, Table

LEMMA RefreshType ==
    ASSUME NEW dp \in Table, NEW nd, NEW d \in DOMAIN dp
    PROVE  /\ Refresh(dp, nd, d) \in Table
           /\ Open(dp, d) => Keeps(dp, Refresh(dp, nd, d))
           /\ DOMAIN Refresh(dp, nd, d) = DOMAIN dp
           /\ \A e \in DOMAIN dp :
                 /\ Refresh(dp, nd, d)[e].kind = dp[e].kind
                 /\ Refresh(dp, nd, d)[e].rev = dp[e].rev
                 /\ Refresh(dp, nd, d)[e].tgt = dp[e].tgt
                 /\ e # d => Refresh(dp, nd, d)[e].status = dp[e].status
<1> DEFINE t == dp[d].tgt
           activation == IF CoversFleet(dp, nd, d) THEN "activated" ELSE dp[d].activation
           settle == IF \E n \in Node : t[n].ost \in Debt THEN "debt" ELSE dp[d].settle
           failed == \E n \in Node : t[n].st = "failed"
           over   == OpenNodes(dp, d) = {}
<1>1. dp[d] \in DeploymentRow
  BY RowType
<1>2. /\ Settlement(t) \in {"converged", "debt", "uncertain"}
      /\ settle \in {"converged", "debt", "uncertain"}
      /\ activation \in {"waiting", "activated", "rejected"}
  BY <1>1, SettlementType DEF DeploymentRow
<1>3. Refreshed(dp, nd, d) =
        IF failed THEN [dp[d] EXCEPT !.status = "halted", !.settle = "uncertain"]
        ELSE IF over
        THEN [dp[d] EXCEPT !.status = "succeeded", !.settle = Settlement(t),
                           !.activation = activation]
        ELSE [dp[d] EXCEPT !.status = "running", !.settle = settle]
  BY DEF Refreshed
<1> HIDE DEF t, activation, settle, failed, over
<1>4. /\ Refreshed(dp, nd, d) \in DeploymentRow
      /\ Refreshed(dp, nd, d).kind = dp[d].kind
      /\ Refreshed(dp, nd, d).rev = dp[d].rev
      /\ Refreshed(dp, nd, d).tgt = dp[d].tgt
  <2>1. CASE failed
    BY <1>1, <1>3, <2>1 DEF DeploymentRow, OpenDeployment
  <2>2. CASE ~failed /\ over
    <3>1. Settlement(t) \in {"converged", "debt", "uncertain"}
          /\ activation \in {"waiting", "activated", "rejected"}
      BY <1>2
    <3>2. Refreshed(dp, nd, d) =
            [dp[d] EXCEPT !.status = "succeeded", !.settle = Settlement(t),
                          !.activation = activation]
      BY <1>3, <2>2
    <3> QED
      BY <1>1, <3>1, <3>2 DEF DeploymentRow
  <2>3. CASE ~failed /\ ~over
    BY <1>1, <1>2, <1>3, <2>3 DEF DeploymentRow, OpenDeployment
  <2> QED
    BY <2>1, <2>2, <2>3
<1>5. \A e \in DOMAIN dp : dp[e] \in DeploymentRow
  BY RowType
<1>6. Refresh(dp, nd, d) \in [DOMAIN dp -> DeploymentRow]
  BY <1>4, <1>5 DEF Refresh
<1>7. /\ DOMAIN Refresh(dp, nd, d) = DOMAIN dp
      /\ \A e \in DOMAIN dp :
            Refresh(dp, nd, d)[e] = IF e = d THEN Refreshed(dp, nd, d) ELSE dp[e]
  BY DEF Refresh
<1>8. Refresh(dp, nd, d) \in Table
  BY <1>6, Rows DEF Table
<1> QED
  BY <1>4, <1>7, <1>8 DEF Keeps, Open, SameOrders

LEMMA CancelType ==
    ASSUME NEW dp \in Table, NEW D
    PROVE  /\ Cancel(dp, D) \in Table
           /\ Keeps(dp, Cancel(dp, D))
           /\ \A d \in D \cap DOMAIN dp : ~Open(Cancel(dp, D), d)
<1> DEFINE put(d, n) ==
              [dp[d].tgt[n] EXCEPT !.ost = IF @ \in Debt THEN "canceled" ELSE @,
                                   !.st = IF @ \in OpenTarget \cup {"deferred"}
                                          THEN "canceled" ELSE @,
                                   !.fz = Null]
           tgt(d) == [n \in Node |-> put(d, n)]
           row(d) == IF d \notin D THEN dp[d]
                     ELSE [dp[d] EXCEPT !.status = "canceled", !.activation = "rejected",
                                        !.settle = "converged", !.tgt = tgt(d)]
<1>1. ASSUME NEW d \in DOMAIN dp
      PROVE  /\ tgt(d) \in [Node -> Target]
             /\ \A n \in Node : tgt(d)[n].st # "dispatched"
  <2>1. ASSUME NEW n \in Node
        PROVE  put(d, n) \in Target /\ put(d, n).st # "dispatched"
    <3>1. dp[d].tgt[n] \in Target
      BY RowType
    <3> QED
      BY <3>1 DEF Target, OpenTarget
  <2> HIDE DEF put
  <2> QED
    BY <2>1
<1>2. ASSUME NEW d \in DOMAIN dp
      PROVE  /\ row(d) \in DeploymentRow
             /\ row(d).kind = dp[d].kind /\ row(d).rev = dp[d].rev
             /\ SameOrders(dp[d], row(d))
             /\ row(d).status = IF d \in D THEN "canceled" ELSE dp[d].status
  <2>1. dp[d] \in DeploymentRow
    BY RowType
  <2> HIDE DEF tgt
  <2> QED
    BY <1>1, <2>1 DEF DeploymentRow, SameOrders
<1>3. Cancel(dp, D) = [d \in DOMAIN dp |-> row(d)]
  BY DEF Cancel
<1> HIDE DEF row
<1>4. [d \in DOMAIN dp |-> row(d)] \in [DOMAIN dp -> DeploymentRow]
  BY <1>2
<1>5. /\ DOMAIN Cancel(dp, D) = DOMAIN dp
      /\ \A d \in DOMAIN dp : Cancel(dp, D)[d] = row(d)
  BY <1>3
<1>6. Cancel(dp, D) \in Table
  BY <1>3, <1>4, Rows DEF Table
<1>7. \A d \in DOMAIN dp : Open(Cancel(dp, D), d) => d \notin D /\ Open(dp, d)
  BY <1>2, <1>5 DEF Open, OpenDeployment
<1> QED
  BY <1>2, <1>5, <1>6, <1>7 DEF Keeps

LEMMA AdvanceIntentType ==
    ASSUME NEW dp \in Table, NEW n \in Node
    PROVE  AdvanceIntent(dp, n) \in Table /\ Keeps(dp, AdvanceIntent(dp, n))
<1> DEFINE close(d) ==
              [dp[d].tgt[n] EXCEPT
                  !.ost = "canceled",
                  !.st = IF @ \in {"deferred", "failed"} THEN "canceled" ELSE @]
           tgt(d) == IF dp[d].tgt[n].ost \notin Debt THEN dp[d].tgt
                     ELSE [dp[d].tgt EXCEPT ![n] = close(d)]
           row(d) == IF dp[d].tgt[n].ost = "none" THEN dp[d]
                     ELSE [dp[d] EXCEPT !.tgt = tgt(d), !.settle = Settlement(tgt(d))]
<1>1. ASSUME NEW d \in DOMAIN dp
      PROVE  /\ tgt(d) \in [Node -> Target]
             /\ \A m \in Node : /\ tgt(d)[m].st = "dispatched" => dp[d].tgt[m].st = "dispatched"
                                /\ tgt(d)[m].fz = dp[d].tgt[m].fz
  <2>1. dp[d].tgt[n] \in Target /\ dp[d].tgt \in [Node -> Target]
    BY RowType DEF DeploymentRow
  <2>2. /\ close(d) \in Target
        /\ close(d).st = "dispatched" => dp[d].tgt[n].st = "dispatched"
        /\ close(d).fz = dp[d].tgt[n].fz
    BY <2>1 DEF Target
  <2> HIDE DEF close
  <2> QED
    BY <2>1, <2>2
<1>2. ASSUME NEW d \in DOMAIN dp
      PROVE  /\ row(d) \in DeploymentRow
             /\ row(d).kind = dp[d].kind /\ row(d).rev = dp[d].rev
             /\ row(d).status = dp[d].status
             /\ SameOrders(dp[d], row(d))
  <2>1. dp[d] \in DeploymentRow
    BY RowType
  <2>2. Settlement(tgt(d)) \in {"converged", "debt", "uncertain"}
    BY SettlementType
  <2> HIDE DEF tgt
  <2> QED
    BY <1>1, <2>1, <2>2 DEF DeploymentRow, SameOrders
<1>3. AdvanceIntent(dp, n) = [d \in DOMAIN dp |-> row(d)]
  BY DEF AdvanceIntent
<1> HIDE DEF row
<1>4. [d \in DOMAIN dp |-> row(d)] \in [DOMAIN dp -> DeploymentRow]
  BY <1>2
<1> QED
  BY <1>2, <1>3, <1>4, Rows DEF Keeps, Open, Table

LEMMA InsertedType ==
    ASSUME NEW dp \in Table, NEW nd \in Nodes, NEW plan \in PlanRow
    PROVE  LET rows == Inserted(dp, nd, plan)
               id   == Len(dp) + 1
           IN  /\ rows \in Table
               /\ DOMAIN rows = DOMAIN dp \cup {id}
               /\ id \notin DOMAIN dp
               /\ rows[id].kind = plan.kind /\ rows[id].rev = plan.rev
               /\ Open(rows, id)
               /\ \A n \in Node : rows[id].tgt[n].st # "dispatched"
               /\ \A d \in DOMAIN dp : rows[d] = dp[d]
<1> DEFINE put(n) == [plan.tgt[n] EXCEPT !.ep = nd[n].epoch]
           tgt == [n \in Node |-> IF plan.tgt[n].st = "none" THEN NoTarget ELSE put(n)]
           row == [kind |-> plan.kind, rev |-> plan.rev, status |-> "planned",
                   settle |-> "converged", activation |-> "waiting", confirmed |-> {},
                   tgt |-> tgt]
<1>1. ASSUME NEW n \in Node
      PROVE  put(n) \in Target /\ put(n).st # "dispatched"
  <2>1. nd[n].epoch \in Nat
    BY DEF Nodes, NodeRow
  <2>2. plan.tgt[n] \in Target /\ plan.tgt[n].st # "dispatched"
    BY DEF PlanRow, PlanTarget
  <2> QED
    BY <2>1, <2>2 DEF Target
<1> HIDE DEF put
<1>2. tgt \in [Node -> Target] /\ \A n \in Node : tgt[n].st # "dispatched"
  BY <1>1, NoTargetType DEF NoTarget
<1> HIDE DEF tgt
<1>3. row \in DeploymentRow
  BY <1>2 DEF DeploymentRow, PlanRow, OpenDeployment
<1>4. Inserted(dp, nd, plan) = Append(dp, row)
  BY DEF Inserted, tgt, put
<1>5. /\ row.kind = plan.kind /\ row.rev = plan.rev /\ row.status = "planned"
      /\ \A n \in Node : row.tgt[n].st # "dispatched"
  BY <1>2
<1> HIDE DEF row
<1>6. /\ Append(dp, row) \in Table
      /\ DOMAIN dp = 1..Len(dp) /\ Len(dp) \in Nat
      /\ DOMAIN Append(dp, row) = 1..(Len(dp) + 1)
      /\ Append(dp, row)[Len(dp) + 1] = row
      /\ \A d \in DOMAIN dp : Append(dp, row)[d] = dp[d]
  BY <1>3 DEF Table
<1> QED
  BY <1>4, <1>5, <1>6 DEF Open, OpenDeployment

\* One more deployment of a kind of which none was open.
LEMMA InsertType ==
    ASSUME NEW h \in History, NEW dp \in Table, Dated(h, dp), NEW nd \in Nodes,
           NEW plan \in PlanRow, plan.rev \in DOMAIN h
    PROVE  /\ Insert(h, dp, nd, plan) \in Table
           /\ Dated(h, Insert(h, dp, nd, plan))
           /\ Frozen(dp) => Frozen(Insert(h, dp, nd, plan))
           /\ Len(Insert(h, dp, nd, plan)) \in DOMAIN Insert(h, dp, nd, plan)
           /\ DOMAIN Insert(h, dp, nd, plan) = 1..(Len(dp) + 1)
           /\ Single(dp) /\ NoneOpen(dp, plan.kind)
                => Single(Insert(h, dp, nd, plan))
<1> DEFINE d    == Len(dp) + 1
           new  == Inserted(dp, nd, plan)
           S    == Planned(plan, "deferred")
           rows == Oblige(h, new, d, S)
           all  == Insert(h, dp, nd, plan)
<1>1. /\ new \in Table
      /\ DOMAIN new = DOMAIN dp \cup {d}
      /\ d \notin DOMAIN dp
      /\ new[d].kind = plan.kind /\ new[d].rev = plan.rev
      /\ Open(new, d)
      /\ \A n \in Node : new[d].tgt[n].st # "dispatched"
      /\ \A e \in DOMAIN dp : new[e] = dp[e]
  BY InsertedType
<1>2. DOMAIN dp = 1..Len(dp) /\ Len(dp) \in Nat
  BY DEF Table
<1>3. all = IF Planned(plan, "pending") # {} THEN rows ELSE Refresh(rows, nd, d)
  BY DEF Insert
<1> HIDE DEF d, new, all
<1>4. Dated(h, new)
  BY <1>1 DEF Dated
<1>5. S \in SUBSET Node /\ d \in DOMAIN new
  BY <1>1 DEF Planned
<1>6. rows \in Table /\ Keeps(new, rows)
  BY <1>1, <1>4, <1>5, ObligeType
<1> HIDE DEF rows
<1>7. DOMAIN rows = DOMAIN new
  BY <1>6 DEF Keeps
<1>8. /\ Refresh(rows, nd, d) \in Table
      /\ DOMAIN Refresh(rows, nd, d) = DOMAIN rows
      /\ \A e \in DOMAIN rows :
            /\ Refresh(rows, nd, d)[e].kind = rows[e].kind
            /\ Refresh(rows, nd, d)[e].rev = rows[e].rev
            /\ Refresh(rows, nd, d)[e].tgt = rows[e].tgt
            /\ e # d => Refresh(rows, nd, d)[e].status = rows[e].status
  BY <1>5, <1>6, <1>7, RefreshType
<1>9. /\ all \in Table
      /\ DOMAIN all = DOMAIN new
      /\ \A e \in DOMAIN new :
            /\ all[e].kind = new[e].kind /\ all[e].rev = new[e].rev
            /\ SameOrders(new[e], all[e])
            /\ e # d => (Open(all, e) => Open(new, e))
  <2>1. CASE Planned(plan, "pending") # {}
    BY <2>1, <1>3, <1>6, <1>7 DEF Keeps
  <2>2. CASE Planned(plan, "pending") = {}
    <3>1. all = Refresh(rows, nd, d)
      BY <2>2, <1>3
    <3> QED
      BY <3>1, <1>6, <1>7, <1>8 DEF Keeps, Open, SameOrders
  <2> QED
    BY <2>1, <2>2
<1>10. Dated(h, all)
  BY <1>4, <1>9 DEF Dated
<1>11. ASSUME Frozen(dp)
       PROVE  Frozen(all)
  <2>1. Frozen(new)
    BY <1>11, <1>1 DEF Frozen
  <2> QED
    BY <2>1, <1>9 DEF Frozen, SameOrders
<1>12. DOMAIN all = 1..(Len(dp) + 1) /\ Len(all) \in DOMAIN all
  <2>1. DOMAIN all = 1..(Len(dp) + 1)
    BY <1>1, <1>2, <1>9 DEF d
  <2>2. DOMAIN all = 1..Len(all) /\ Len(all) \in Nat
    BY <1>9 DEF Table
  <2> QED
    BY <2>1, <2>2, <1>2
<1>13. ASSUME Single(dp), NoneOpen(dp, plan.kind)
       PROVE  Single(all)
  <2> SUFFICES ASSUME NEW e \in DOMAIN all, NEW f \in DOMAIN all,
                      Open(all, e), Open(all, f), all[e].kind = all[f].kind, e # f
               PROVE  FALSE
    BY DEF Single
  <2>1. ASSUME NEW g \in DOMAIN dp, Open(all, g)
        PROVE  Open(dp, g) /\ all[g].kind = dp[g].kind
    BY <2>1, <1>1, <1>9 DEF Open
  <2>2. all[d].kind = plan.kind
    BY <1>1, <1>9
  <2>3. CASE e = d
    BY <2>3, <2>1, <2>2, <1>1, <1>9, <1>13 DEF NoneOpen
  <2>4. CASE f = d
    BY <2>4, <2>1, <2>2, <1>1, <1>9, <1>13 DEF NoneOpen
  <2>5. CASE e # d /\ f # d
    BY <2>5, <2>1, <1>1, <1>9, <1>13 DEF Single
  <2> QED
    BY <2>3, <2>4, <2>5
<1> QED
  BY <1>9, <1>10, <1>12, <1>13, <1>11 DEF all

LEMMA ServeType ==
    ASSUME NEW sv \in ServingRow, NEW dp \in Table, NEW nd, NEW d \in DOMAIN dp
    PROVE  Serve(sv, dp, nd, d) \in ServingRow
<1>1. d \in Nat
  BY DEF Table
<1>2. dp[d].rev \in Nat
  BY RowType DEF DeploymentRow
<1>3. Isolated(nd) \in SUBSET Node
  BY DEF Isolated
<1> QED
  BY <1>1, <1>2, <1>3 DEF Serve, ServingRow

\* One row changes and keeps its identity.
LEMMA RowUpdate ==
    ASSUME NEW dp \in Table, NEW d \in DOMAIN dp, NEW row \in DeploymentRow,
           row.kind = dp[d].kind, row.rev = dp[d].rev,
           row.status \in OpenDeployment => Open(dp, d)
    PROVE  /\ [dp EXCEPT ![d] = row] \in Table
           /\ SameOrders(dp[d], row) => Keeps(dp, [dp EXCEPT ![d] = row])
           /\ DOMAIN [dp EXCEPT ![d] = row] = DOMAIN dp
           /\ \A e \in DOMAIN dp : [dp EXCEPT ![d] = row][e] = IF e = d THEN row ELSE dp[e]
<1> DEFINE dq == [dp EXCEPT ![d] = row]
<1>1. /\ DOMAIN dq = DOMAIN dp
      /\ \A e \in DOMAIN dp : dq[e] = IF e = d THEN row ELSE dp[e]
  BY DEF Table
<1>2. dq \in Table
  BY DEF Table
<1> HIDE DEF dq
<1>3. SameOrders(dp[d], row) => Keeps(dp, dq)
  BY <1>1 DEF Keeps, Open, SameOrders
<1> QED
  BY <1>1, <1>2, <1>3 DEF dq
----------------------------------------------------------------------------
(* The inductive invariant.  Types alone are not inductive: an agent's     *)
(* work must name a deployment that exists, the list of an order that is   *)
(* out must be frozen, and a plan waiting to be inserted must not claim    *)
(* that orders are out already.                                            *)

Contents == [cfg : Content, gr : Content]
Agents   == [Node -> [pc : {"idle", "work", "spool"}, dep : Nat, claim : Nat,
                      kind : Kind \cup {"none"}, ok : BOOLEAN,
                      cfg : Content, gr : Content]]

RevisionsOK   == hist \in History /\ Latest \in DOMAIN hist
DeploymentsOK == dep \in Table /\ Dated(hist, dep) /\ Single(dep) /\ Frozen(dep)
NodesOK       == node \in Nodes /\ serving \in ServingRow
DraftOK       == draft # NoDraft => draft \in PlanRow /\ draft.rev \in DOMAIN hist
MachinesOK    == /\ mach \in [Node -> Contents]
                 /\ agent \in Agents
                 /\ \A n \in Node : agent[n].pc # "idle" => agent[n].dep \in DOMAIN dep

IInv == RevisionsOK /\ DeploymentsOK /\ NodesOK /\ DraftOK /\ MachinesOK

LEMMA IInvImplies == IInv => TypeOK /\ SingleFlight
<1> SUFFICES ASSUME IInv
             PROVE  TypeOK /\ SingleFlight
  OBVIOUS
<1>1. NoDraft \in [kind : Kind \cup {"none"}, rev : Nat, tgt : [Node -> Target]]
  BY NoTargetType DEF NoDraft
<1>2. draft \in [kind : Kind \cup {"none"}, rev : Nat, tgt : [Node -> Target]]
  <2>1. CASE draft = NoDraft
    BY <2>1, <1>1
  <2>2. CASE draft # NoDraft
    <3>1. PlanTarget \subseteq Target
      BY DEF PlanTarget
    <3> QED
      BY <2>2, <3>1 DEF IInv, DraftOK, PlanRow
  <2> QED
    BY <2>1, <2>2
<1>3. draft # NoDraft => draft.kind \in Kind /\ draft.rev \in DOMAIN hist
  BY DEF IInv, DraftOK, PlanRow
<1>4. SingleFlight
  BY DEF IInv, DeploymentsOK, Single, SingleFlight
<1>5. /\ hist \in Seq([topo : [Node -> Nat], perm : Nat])
      /\ dep \in Seq(DeploymentRow)
      /\ \A d \in DOMAIN dep : dep[d].rev \in DOMAIN hist
      /\ node \in [Node -> NodeRow]
      /\ serving \in [dep : Nat, perm : Nat, iso : SUBSET Node]
      /\ mach \in [Node -> [cfg : Content, gr : Content]]
      /\ agent \in [Node -> [pc : {"idle", "work", "spool"}, dep : Nat, claim : Nat,
                             kind : Kind \cup {"none"}, ok : BOOLEAN,
                             cfg : Content, gr : Content]]
  BY DEF IInv, RevisionsOK, DeploymentsOK, NodesOK, MachinesOK, History, RevisionRow,
         Table, Dated, Nodes, ServingRow, Contents, Agents
<1> QED
  BY <1>2, <1>3, <1>4, <1>5 DEF TypeOK

LEMMA InitIInv == Init => IInv
<1> SUFFICES ASSUME Init
             PROVE  IInv
  OBVIOUS
<1> DEFINE first == [topo |-> [n \in Node |-> 1], perm |-> 1]
<1>1. first \in RevisionRow
  BY DEF RevisionRow
<1>2. hist = <<first>>
  BY DEF Init
<1> HIDE DEF first
<1>3. RevisionsOK
  BY <1>1, <1>2 DEF RevisionsOK, History, Latest
<1>4. DOMAIN hist = 1..1
  BY <1>2
<1>5. /\ FirstRelease \in DeploymentRow
      /\ FirstRelease.rev = 1 /\ FirstRelease.status = "succeeded"
      /\ \A n \in Node : FirstRelease.tgt[n].st # "dispatched"
  <2> DEFINE done == [NoTarget EXCEPT !.st = "succeeded", !.gr = 1]
  <2>1. done \in Target /\ done.st # "dispatched"
    BY NoTargetType DEF Target
  <2>2. FirstRelease = [kind |-> "config", rev |-> 1, status |-> "succeeded",
                        settle |-> "converged", activation |-> "activated",
                        confirmed |-> {}, tgt |-> [n \in Node |-> done]]
    BY DEF FirstRelease
  <2> HIDE DEF done
  <2> QED
    BY <2>1, <2>2 DEF DeploymentRow, Kind
<1>6. dep = <<FirstRelease>>
  BY DEF Init
<1>7. dep \in Table /\ DOMAIN dep = {1} /\ dep[1] = FirstRelease
  BY <1>5, <1>6 DEF Table
<1>8. DeploymentsOK
  BY <1>4, <1>5, <1>7 DEF DeploymentsOK, Dated, Single, Frozen, Open
<1>9. NodesOK
  BY DEF Init, NodesOK, Nodes, NodeRow, ServingRow, Participating, Content
<1>10. DraftOK
  BY DEF Init, DraftOK
<1>11. MachinesOK
  BY DEF Init, MachinesOK, Contents, Content, Agents, Idle
<1> QED
  BY <1>3, <1>8, <1>9, <1>10, <1>11 DEF IInv

\* A step that only changes rows and the machines' columns.
LEMMA RowStep ==
    ASSUME IInv, UNCHANGED <<hist, draft, mach, agent>>,
           dep' \in Table, Keeps(dep, dep'), node' \in Nodes, serving' \in ServingRow
    PROVE  IInv'
<1> USE DEF IInv
<1>1. Dated(hist, dep) /\ Single(dep) /\ Frozen(dep)
  BY DEF DeploymentsOK
<1>2. Dated(hist, dep') /\ Single(dep') /\ Frozen(dep')
  BY <1>1, KeepsDated, KeepsSingle, KeepsFrozen
<1>3. DeploymentsOK'
  BY <1>2 DEF DeploymentsOK
<1>4. DOMAIN dep' = DOMAIN dep
  BY DEF Keeps
<1>5. RevisionsOK' /\ NodesOK'
  BY DEF RevisionsOK, NodesOK, Latest
<1>6. DraftOK'
  BY DEF DraftOK
<1>7. MachinesOK'
  BY <1>4 DEF MachinesOK
<1> QED
  BY <1>3, <1>5, <1>6, <1>7

\* A step that leaves the tables alone keeps their rows.
LEMMA KeepsSelf ==
    ASSUME NEW dp
    PROVE  Keeps(dp, dp)
<1> QED
  BY DEF Keeps, SameOrders
----------------------------------------------------------------------------
(* Operators of the console.                                               *)

LEMMA RevisionStep ==
    ASSUME IInv, UNCHANGED <<dep, node, serving, draft, mach, agent>>,
           NEW row \in RevisionRow, hist' = Append(hist, row)
    PROVE  IInv'
<1> USE DEF IInv
<1>1. RevisionsOK' /\ DOMAIN hist \subseteq DOMAIN hist'
  BY DEF RevisionsOK, History, Latest
<1>2. DeploymentsOK'
  BY <1>1 DEF DeploymentsOK, Dated
<1>3. DraftOK'
  BY <1>1 DEF DraftOK
<1>4. NodesOK' /\ MachinesOK'
  BY DEF NodesOK, MachinesOK
<1> QED
  BY <1>1, <1>2, <1>3, <1>4

LEMMA LatestRow == IInv => hist[Latest] \in RevisionRow /\ Latest \in Nat
<1> QED
  BY DEF IInv, RevisionsOK, History, Latest

LEMMA EditTopologyStep ==
    ASSUME IInv, NEW n \in Node, EditTopology(n)
    PROVE  IInv'
<1>1. [hist[Latest] EXCEPT !.topo[n] = Latest + 1] \in RevisionRow
  BY LatestRow DEF RevisionRow
<1> QED
  BY <1>1, RevisionStep DEF EditTopology

LEMMA EditPermissionsStep ==
    ASSUME IInv, EditPermissions
    PROVE  IInv'
<1>1. [hist[Latest] EXCEPT !.perm = Latest + 1] \in RevisionRow
  BY LatestRow DEF RevisionRow
<1> QED
  BY <1>1, RevisionStep DEF EditPermissions

LEMMA CancelDirtyType ==
    ASSUME NEW dp, NEW nd \in Nodes, NEW D
    PROVE  CancelDirty(dp, nd, D) \in Nodes
<1>1. MarkDirty(nd, Executing(dp, D, "config"), "config") \in Nodes
  BY MarkDirtyType
<1> QED
  BY <1>1, MarkDirtyType DEF CancelDirty

LEMMA AdvanceDirtyType ==
    ASSUME NEW dp, NEW nd \in Nodes, NEW n
    PROVE  AdvanceDirty(dp, nd, n) \in Nodes
<1> DEFINE owed(kind) == IF \E d \in DOMAIN dp : /\ dp[d].kind = kind
                                                 /\ dp[d].tgt[n].ost = "dispatched"
                         THEN {n} ELSE {}
<1>1. MarkDirty(nd, owed("config"), "config") \in Nodes
  BY MarkDirtyType
<1>2. MarkDirty(MarkDirty(nd, owed("config"), "config"), owed("grants"), "grants") \in Nodes
  BY <1>1, MarkDirtyType
<1> QED
  BY <1>2 DEF AdvanceDirty

LEMMA InsertDirtyType ==
    ASSUME NEW dp, NEW nd \in Nodes, NEW plan
    PROVE  InsertDirty(dp, nd, plan) \in Nodes
<1> QED
  BY MarkDirtyType DEF InsertDirty

LEMMA DetachDirtyType ==
    ASSUME NEW dp, NEW nd \in Nodes, NEW d, NEW n
    PROVE  DetachDirty(dp, nd, d, n) \in Nodes
<1> QED
  BY MarkDirtyType DEF DetachDirty

\* The console's single-row commands.
LEMMA ConfirmWaveStep ==
    ASSUME IInv, NEW d \in DOMAIN dep, ConfirmWave(d)
    PROVE  IInv'
<1> DEFINE w   == CurrentWave(dep, d)
           row == [dep[d] EXCEPT !.confirmed = @ \cup {w}]
<1>1. dep \in Table /\ dep[d] \in DeploymentRow
  BY RowType DEF IInv, DeploymentsOK
<1>2. w \in Nat
  <2>1. PICK n \in Node : dep[d].tgt[n].wave = w
    BY DEF ConfirmWave, RequiresConfirmation, OpenNodes
  <2> QED
    BY <1>1, <2>1, RowType DEF Target
<1>3. dep' = [dep EXCEPT ![d] = row]
  BY DEF ConfirmWave
<1> HIDE DEF w
<1>4. /\ row \in DeploymentRow /\ row.kind = dep[d].kind /\ row.rev = dep[d].rev
      /\ row.status = dep[d].status /\ row.tgt = dep[d].tgt
  BY <1>1, <1>2 DEF DeploymentRow
<1> HIDE DEF row
<1>5. dep' \in Table /\ Keeps(dep, dep')
  BY <1>1, <1>3, <1>4, RowUpdate DEF Open, SameOrders
<1> QED
  BY <1>5, RowStep DEF ConfirmWave, IInv, NodesOK

LEMMA HaltDeploymentStep ==
    ASSUME IInv, NEW d \in DOMAIN dep, HaltDeployment(d)
    PROVE  IInv'
<1> DEFINE row == [dep[d] EXCEPT !.status = "halted"]
<1>1. dep \in Table /\ dep[d] \in DeploymentRow
  BY RowType DEF IInv, DeploymentsOK
<1>2. /\ row \in DeploymentRow /\ row.kind = dep[d].kind /\ row.rev = dep[d].rev
      /\ row.tgt = dep[d].tgt /\ Open(dep, d)
  BY <1>1 DEF HaltDeployment, DeploymentRow, OpenDeployment, Open
<1>3. dep' = [dep EXCEPT ![d] = row]
  BY DEF HaltDeployment
<1>4. dep' \in Table /\ Keeps(dep, dep')
  BY <1>1, <1>2, <1>3, RowUpdate DEF SameOrders
<1> QED
  BY <1>4, RowStep DEF HaltDeployment, IInv, NodesOK

LEMMA CancelDeploymentStep ==
    ASSUME IInv, NEW d \in DOMAIN dep, CancelDeployment(d)
    PROVE  IInv'
<1>1. dep' \in Table /\ Keeps(dep, dep')
  BY CancelType DEF CancelDeployment, IInv, DeploymentsOK
<1>2. node' \in Nodes
  BY CancelDirtyType DEF CancelDeployment, IInv, NodesOK
<1> QED
  BY <1>1, <1>2, RowStep DEF CancelDeployment, IInv, NodesOK

LEMMA RetryObligationStep ==
    ASSUME IInv, NEW d \in DOMAIN dep, NEW n \in Node, RetryObligation(d, n)
    PROVE  IInv'
<1> DEFINE tgt == [dep[d].tgt EXCEPT ![n].ost = "pending", ![n].st = "deferred"]
           row == [dep[d] EXCEPT !.tgt = tgt, !.settle = Settlement(tgt)]
<1>1. /\ dep \in Table /\ dep[d] \in DeploymentRow
      /\ dep[d].tgt[n] \in Target /\ dep[d].tgt \in [Node -> Target]
  BY RowType DEF IInv, DeploymentsOK, DeploymentRow
<1>2. [dep[d].tgt[n] EXCEPT !.ost = "pending", !.st = "deferred"] \in Target
  BY <1>1 DEF Target
<1>3. /\ tgt \in [Node -> Target]
      /\ \A m \in Node : tgt[m].st = "dispatched" => tgt[m] = dep[d].tgt[m]
  BY <1>1, <1>2 DEF Target
<1>4. Settlement(tgt) \in {"converged", "debt", "uncertain"}
  BY SettlementType
<1>5. dep' = [dep EXCEPT ![d] = row]
  BY DEF RetryObligation
<1> HIDE DEF tgt
<1>6. /\ row \in DeploymentRow /\ row.kind = dep[d].kind /\ row.rev = dep[d].rev
      /\ row.tgt = tgt /\ row.status = dep[d].status
  <2>1. row = Settled(dep[d], tgt, Settlement(tgt))
    BY DEF Settled
  <2> HIDE DEF row
  <2>2. dep[d] \in DeploymentRow /\ tgt \in [Node -> Target]
    BY <1>1, <1>3
  <2>3. /\ Settled(dep[d], tgt, Settlement(tgt)) \in DeploymentRow
        /\ Settled(dep[d], tgt, Settlement(tgt)).kind = dep[d].kind
        /\ Settled(dep[d], tgt, Settlement(tgt)).rev = dep[d].rev
        /\ Settled(dep[d], tgt, Settlement(tgt)).status = dep[d].status
        /\ Settled(dep[d], tgt, Settlement(tgt)).tgt = tgt
    BY <1>4, <2>2, SettledType, Zenon
  <2> QED
    BY <2>1, <2>3, Zenon
<1> HIDE DEF row
<1>7. SameOrders(dep[d], row) /\ (row.status \in OpenDeployment => Open(dep, d))
  BY <1>3, <1>6 DEF SameOrders, Open
<1>8. dep' \in Table /\ Keeps(dep, dep')
  BY <1>1, <1>5, <1>6, <1>7, RowUpdate, Zenon
<1> QED
  BY <1>8, RowStep DEF RetryObligation, IInv, NodesOK

LEMMA RetryTargetStep ==
    ASSUME IInv, NEW d \in DOMAIN dep, NEW n \in Node, RetryTarget(d, n)
    PROVE  IInv'
<1> DEFINE put == [dep[d].tgt[n] EXCEPT !.st = "pending", !.fz = Null]
           tgt == [dep[d].tgt EXCEPT ![n].st = "pending", ![n].fz = Null]
           row == [dep[d] EXCEPT !.tgt = tgt, !.status = "running"]
<1>1. /\ dep \in Table /\ dep[d] \in DeploymentRow
      /\ dep[d].tgt[n] \in Target /\ dep[d].tgt \in [Node -> Target]
  BY RowType DEF IInv, DeploymentsOK, DeploymentRow
<1>2. put \in Target /\ put.st # "dispatched"
  BY <1>1 DEF Target
<1>3. dep' = [dep EXCEPT ![d] = row]
  BY DEF RetryTarget
<1>4. /\ tgt \in [Node -> Target]
      /\ \A m \in Node : tgt[m].st = "dispatched" => tgt[m] = dep[d].tgt[m]
  BY <1>1, <1>2 DEF Target
<1> HIDE DEF tgt
<1>5. /\ row \in DeploymentRow /\ row.kind = dep[d].kind /\ row.rev = dep[d].rev
      /\ row.tgt = tgt /\ Open(dep, d)
  BY <1>1, <1>4 DEF DeploymentRow, RetryTarget, Open, OpenDeployment
<1> HIDE DEF row
<1>6. SameOrders(dep[d], row)
  BY <1>4, <1>5 DEF SameOrders
<1>7. dep' \in Table /\ Keeps(dep, dep')
  BY <1>1, <1>3, <1>5, <1>6, RowUpdate, Zenon
<1> QED
  BY <1>7, RowStep DEF RetryTarget, IInv, NodesOK
----------------------------------------------------------------------------
(* Inserting deployments.                                                  *)

\* A step that adds a deployment.
LEMMA InsertStep ==
    ASSUME IInv, UNCHANGED <<mach, agent>>, RevisionsOK', NodesOK', DraftOK',
           dep' \in Table, Dated(hist', dep'), Single(dep'), Frozen(dep'),
           DOMAIN dep \subseteq DOMAIN dep'
    PROVE  IInv'
<1>1. DeploymentsOK'
  BY DEF DeploymentsOK
<1>2. MachinesOK'
  BY DEF IInv, MachinesOK
<1> QED
  BY <1>1, <1>2 DEF IInv

LEMMA CreateFromPlanStep ==
    ASSUME IInv, NEW planned \in PlanRow, planned.rev \in DOMAIN hist,
           CreateFromPlan(planned), draft' \in {draft, NoDraft}
    PROVE  IInv'
<1> DEFINE plan == MarkIsolated(planned, Isolated(node))
           rows == Insert(hist, dep, node, plan)
<1> USE DEF IInv
<1>1. plan \in PlanRow /\ plan.rev \in DOMAIN hist
  BY MarkIsolatedType
<1>2. /\ hist' = hist /\ mach' = mach /\ agent' = agent
      /\ dep' = rows
      /\ node' = InsertDirty(dep, node, plan)
      /\ serving' = Serve(serving, rows, node, Len(rows))
      /\ ~Flying(plan.kind)
  BY DEF CreateFromPlan
<1> HIDE DEF plan
<1>3. /\ hist \in History /\ dep \in Table /\ node \in Nodes /\ serving \in ServingRow
      /\ Dated(hist, dep) /\ Single(dep) /\ Frozen(dep)
  BY DEF RevisionsOK, DeploymentsOK, NodesOK
<1>4. NoneOpen(dep, plan.kind)
  BY <1>2 DEF Flying, NoneOpen
<1>5. /\ rows \in Table
      /\ Dated(hist, rows) /\ Single(rows) /\ Frozen(rows)
      /\ Len(rows) \in DOMAIN rows
      /\ DOMAIN rows = 1..(Len(dep) + 1)
  BY <1>1, <1>3, <1>4, InsertType
<1> HIDE DEF rows
<1>6. NodesOK'
  BY <1>2, <1>3, <1>5, InsertDirtyType, ServeType DEF NodesOK
<1>7. RevisionsOK'
  BY <1>2 DEF RevisionsOK, Latest
<1>8. DraftOK'
  BY <1>2 DEF DraftOK
<1>9. DOMAIN dep \subseteq DOMAIN dep'
  BY <1>2, <1>3, <1>5 DEF Table
<1> HIDE DEF IInv
<1> QED
  BY <1>2, <1>5, <1>6, <1>7, <1>8, <1>9, InsertStep

\* What an operator may submit: a plan of either kind for a revision.
LEMMA PlanStep ==
    ASSUME IInv, NEW plan \in PlanRow, plan.rev \in DOMAIN hist,
           PlanDeployment(plan) \/ CreateDeployment(plan)
    PROVE  IInv'
<1>1. CASE CreateDeployment(plan)
  BY <1>1, CreateFromPlanStep DEF CreateDeployment
<1>2. CASE PlanDeployment(plan)
  <2> USE <1>2 DEF PlanDeployment
  <2>1. DraftOK'
    BY DEF DraftOK
  <2>2. dep' \in Table /\ Keeps(dep, dep')
    BY KeepsSelf DEF IInv, DeploymentsOK
  <2> QED
    BY <2>1 DEF IInv, RevisionsOK, DeploymentsOK, NodesOK, MachinesOK, Latest
<1> QED
  BY <1>1, <1>2

LEMMA SubmitPlanStep ==
    ASSUME IInv, SubmitPlan
    PROVE  IInv'
<1>1. draft \in PlanRow /\ draft.rev \in DOMAIN hist
  BY DEF SubmitPlan, IInv, DraftOK
<1> QED
  BY <1>1, CreateFromPlanStep DEF SubmitPlan

LEMMA RefusePlanStep ==
    ASSUME IInv, RefusePlan
    PROVE  IInv'
<1> USE DEF RefusePlan
<1>1. DraftOK'
  BY DEF DraftOK
<1> QED
  BY <1>1 DEF IInv, RevisionsOK, DeploymentsOK, NodesOK, MachinesOK, Latest

LEMMA ReleaseStep ==
    ASSUME IInv, Release
    PROVE  IInv'
<1>1. hist \in History /\ node \in Nodes
  BY DEF IInv, RevisionsOK, NodesOK
<1>2. ASSUME NEW r \in DOMAIN hist, NEW waves \in WaveFunctions,
             \/ PlanDeployment(ConfigPlan(hist, r, node, waves, HotSwap))
             \/ CreateDeployment(ConfigPlan(hist, r, node, waves, HotSwap))
      PROVE  IInv'
  BY <1>1, <1>2, ConfigPlanType, PlanStep
<1>3. ASSUME NEW r \in DOMAIN hist,
             \/ PlanDeployment(GrantsPlan(hist, r, node))
             \/ CreateDeployment(GrantsPlan(hist, r, node))
      PROVE  IInv'
  BY <1>1, <1>3, GrantsPlanType, PlanStep
<1> QED
  BY <1>2, <1>3, SubmitPlanStep, RefusePlanStep DEF Release
----------------------------------------------------------------------------
(* Isolation.                                                              *)

LEMMA DetachType ==
    ASSUME NEW dp \in Table, Dated(hist, dp), hist \in History,
           NEW d \in DOMAIN dp, NEW n \in Node
    PROVE  Detach(dp, d, n) \in Table /\ Keeps(dp, Detach(dp, d, n))
<1> DEFINE tgt == [dp[d].tgt EXCEPT ![n].st = "deferred", ![n].fz = Null]
           row == [dp[d] EXCEPT !.tgt = tgt]
           dq  == [dp EXCEPT ![d] = row]
<1>1. /\ dp[d] \in DeploymentRow
      /\ dp[d].tgt[n] \in Target /\ dp[d].tgt \in [Node -> Target]
  BY RowType DEF DeploymentRow
<1>2. [dp[d].tgt[n] EXCEPT !.st = "deferred", !.fz = Null] \in Target
  BY <1>1 DEF Target
<1>3. /\ tgt \in [Node -> Target]
      /\ \A m \in Node : tgt[m].st = "dispatched" => tgt[m] = dp[d].tgt[m]
  BY <1>1, <1>2 DEF Target
<1>4. Detach(dp, d, n) = Oblige(hist, dq, d, {n})
  BY DEF Detach
<1> HIDE DEF tgt
<1>5. /\ row \in DeploymentRow /\ row.kind = dp[d].kind /\ row.rev = dp[d].rev
      /\ row.tgt = tgt /\ row.status = dp[d].status
  BY <1>1, <1>3 DEF DeploymentRow
<1> HIDE DEF row
<1>6. dq \in Table /\ Keeps(dp, dq) /\ DOMAIN dq = DOMAIN dp
  BY <1>3, <1>5, RowUpdate DEF SameOrders, Open
<1> HIDE DEF dq
<1>7. Dated(hist, dq)
  BY <1>6, KeepsDated
<1>8. Oblige(hist, dq, d, {n}) \in Table /\ Keeps(dq, Oblige(hist, dq, d, {n}))
  BY <1>6, <1>7, ObligeType
<1> QED
  BY <1>4, <1>6, <1>8, KeepsTransitive

\* A release that was open may be refreshed after other rows changed.
LEMMA RefreshKeeps ==
    ASSUME NEW dp, NEW dq \in Table, Keeps(dp, dq), NEW nd,
           NEW d \in DOMAIN dp, Open(dp, d)
    PROVE  Refresh(dq, nd, d) \in Table /\ Keeps(dp, Refresh(dq, nd, d))
<1> DEFINE dr == Refresh(dq, nd, d)
<1>1. DOMAIN dq = DOMAIN dp
  BY DEF Keeps
<1>2. /\ dr \in Table
      /\ DOMAIN dr = DOMAIN dq
      /\ \A e \in DOMAIN dq : /\ dr[e].kind = dq[e].kind
                              /\ dr[e].rev = dq[e].rev
                              /\ dr[e].tgt = dq[e].tgt
                              /\ e # d => dr[e].status = dq[e].status
  BY <1>1, RefreshType
<1> HIDE DEF dr
<1>3. Keeps(dp, dr)
  BY <1>1, <1>2 DEF Keeps, Open, SameOrders
<1> QED
  BY <1>2, <1>3 DEF dr

LEMMA IsolateNodeStep ==
    ASSUME IInv, NEW n \in Node, IsolateNode(n)
    PROVE  IInv'
<1> DEFINE rows == {d \in DOMAIN dep : Open(dep, d) /\ dep[d].tgt[n].st \in Debt}
           lo   == CHOOSE d \in rows : \A e \in rows : d <= e
           hi   == CHOOSE d \in rows : \A e \in rows : e <= d
           one  == IF rows = {} THEN dep ELSE Detach(dep, lo, n)
           both == IF lo = hi THEN one ELSE Detach(one, hi, n)
           nd1  == [node EXCEPT ![n].iso = TRUE]
           nd2  == DetachDirty(dep, nd1, lo, n)
           nd3  == IF lo = hi THEN nd2 ELSE DetachDirty(one, nd2, hi, n)
           dp1  == Refresh(both, nd1, lo)
           dp2  == IF lo = hi THEN dp1 ELSE Refresh(dp1, nd1, hi)
           sv1  == Serve(serving, dp1, nd1, lo)
           sv2  == IF lo = hi THEN sv1 ELSE Serve(sv1, dp2, nd1, hi)
<1>1. /\ hist \in History /\ dep \in Table /\ node \in Nodes /\ serving \in ServingRow
      /\ Dated(hist, dep)
  BY DEF IInv, RevisionsOK, DeploymentsOK, NodesOK
<1>2. /\ dep' = IF rows = {} THEN dep ELSE dp2
      /\ node' = IF rows = {} THEN nd1 ELSE nd3
      /\ serving' = [(IF rows = {} THEN serving ELSE sv2) EXCEPT !.iso = Isolated(nd1)]
      /\ UNCHANGED <<hist, draft, mach, agent>>
  BY DEF IsolateNode
<1>3. nd1 \in Nodes /\ Isolated(nd1) \in SUBSET Node
  BY <1>1 DEF Nodes, NodeRow, Isolated
<1>4. CASE rows = {}
  <2> HIDE DEF rows, nd1
  <2>1. dep' \in Table /\ Keeps(dep, dep') /\ node' \in Nodes
    BY <1>1, <1>2, <1>3, <1>4, KeepsSelf
  <2>2. serving' \in ServingRow
    BY <1>1, <1>2, <1>3, <1>4 DEF ServingRow
  <2> QED
    BY <1>2, <2>1, <2>2, RowStep
<1>5. CASE rows # {}
  <2>1. rows \subseteq 1..Len(dep) /\ Len(dep) \in Nat /\ rows \subseteq Nat
    BY <1>1 DEF Table
  <2>2. lo \in rows
    <3>1. \E d \in rows : \A e \in rows : d <= e
      BY <1>5, <2>1, SmallestNumber
    <3> QED
      BY <3>1
  <2>3. hi \in rows
    <3>1. \E d \in rows : \A e \in rows : e <= d
      BY <1>5, <2>1, LargestNumber
    <3> QED
      BY <3>1
  <2>4. /\ lo \in DOMAIN dep /\ Open(dep, lo)
        /\ hi \in DOMAIN dep /\ Open(dep, hi)
    BY <2>2, <2>3
  <2> HIDE DEF rows, lo, hi, nd1
  <2>5. one \in Table /\ Keeps(dep, one)
    BY <1>1, <1>5, <2>4, DetachType
  <2> HIDE DEF one
  <2>6. hi \in DOMAIN one /\ Dated(hist, one)
    BY <1>1, <2>4, <2>5, KeepsDated DEF Keeps
  <2>7. both \in Table /\ Keeps(dep, both)
    <3>1. CASE lo = hi
      BY <2>5, <3>1
    <3>2. CASE lo # hi
      <4>1. Detach(one, hi, n) \in Table /\ Keeps(one, Detach(one, hi, n))
        BY <1>1, <2>5, <2>6, DetachType
      <4> QED
        BY <2>5, <3>2, <4>1, KeepsTransitive
    <3> QED
      BY <3>1, <3>2
  <2> HIDE DEF both
  <2>8. dp1 \in Table /\ Keeps(dep, dp1)
    BY <2>4, <2>7, RefreshKeeps
  <2> HIDE DEF dp1
  <2>9. dp2 \in Table /\ Keeps(dep, dp2)
    BY <2>4, <2>8, RefreshKeeps
  <2>10. /\ lo \in DOMAIN dp1 /\ hi \in DOMAIN dp2
    BY <2>4, <2>8, <2>9 DEF Keeps
  <2> HIDE DEF dp2
  <2>11. sv1 \in ServingRow
    BY <1>1, <2>8, <2>10, ServeType
  <2> HIDE DEF sv1
  <2>12. sv2 \in ServingRow
    BY <2>9, <2>10, <2>11, ServeType
  <2> HIDE DEF sv2
  <2>13. serving' \in ServingRow
    BY <1>2, <1>3, <1>5, <2>12 DEF ServingRow
  <2>14. nd2 \in Nodes
    BY <1>3, DetachDirtyType
  <2> HIDE DEF nd2
  <2>15. nd3 \in Nodes
    BY <2>14, DetachDirtyType
  <2> HIDE DEF nd3
  <2> QED
    BY <1>2, <1>5, <2>9, <2>13, <2>15, RowStep
<1> QED
  BY <1>4, <1>5

LEMMA RestoreServiceStep ==
    ASSUME IInv, NEW n \in Node, RestoreService(n)
    PROVE  IInv'
<1>1. dep' \in Table /\ Keeps(dep, dep')
  BY KeepsSelf DEF IInv, DeploymentsOK, RestoreService
<1>2. node' \in Nodes
  BY DEF IInv, NodesOK, RestoreService, Nodes, NodeRow
<1>3. Isolated(node') \in SUBSET Node
  BY DEF Isolated
<1>4. serving' \in ServingRow
  BY <1>3 DEF IInv, NodesOK, RestoreService, ServingRow
<1> QED
  BY <1>1, <1>2, <1>4, RowStep DEF RestoreService
----------------------------------------------------------------------------
(* The node lifecycle.                                                     *)

\* The shared tail: everything open is canceled before a deployment is added,
\* so the new one is alone, whatever was open before.
LEMMA ReplanStep ==
    ASSUME IInv, NEW n \in Node, NEW h \in History, Len(h) \in DOMAIN h,
           DOMAIN hist \subseteq DOMAIN h, NEW dp \in Table, Keeps(dep, dp),
           NEW nd \in Nodes, NEW isolated, Replan(n, h, dp, nd, isolated)
    PROVE  IInv'
<1> DEFINE D   == ActiveIds(dp)
           dp1 == Cancel(dp, D)
           nd1 == CancelDirty(dp, nd, D)
           id  == Len(dp) + 1
<1>1. PICK waves \in {WavesFor(h, Len(h), nd1)} \cap WaveFunctions :
        LET plan    == MarkIsolated(ConfigPlan(h, Len(h), nd1, waves, {}), isolated)
            moved   == Planned(plan, "pending") \cup Planned(plan, "deferred")
            pending == n \in Planned(plan, "pending")
            torn    == nd1[n].phase = "retiring" /\ ~pending
            nd2     == [nd1 EXCEPT ![n].phase = IF torn THEN "retired" ELSE @,
                                   ![n].tok = @ /\ ~torn]
            rows    == Insert(h, dp1, nd2, plan)
        IN  /\ moved # {} => Len(dp) < MaxDep
            /\ hist' = h
            /\ dep' = IF moved = {} THEN dp1 ELSE rows
            /\ node' = IF moved = {} THEN nd2
                       ELSE [InsertDirty(dp1, nd2, plan) EXCEPT
                                ![n].life = IF nd2[n].phase = "retiring" /\ pending
                                            THEN id ELSE @]
            /\ serving' = IF moved = {} THEN serving ELSE Serve(serving, rows, nd2, id)
            /\ UNCHANGED <<draft, mach, agent>>
  BY DEF Replan
<1> DEFINE plan    == MarkIsolated(ConfigPlan(h, Len(h), nd1, waves, {}), isolated)
           moved   == Planned(plan, "pending") \cup Planned(plan, "deferred")
           pending == n \in Planned(plan, "pending")
           torn    == nd1[n].phase = "retiring" /\ ~pending
           nd2     == [nd1 EXCEPT ![n].phase = IF torn THEN "retired" ELSE @,
                                  ![n].tok = @ /\ ~torn]
           nd3     == InsertDirty(dp1, nd2, plan)
           life    == IF nd2[n].phase = "retiring" /\ pending THEN id ELSE nd3[n].life
           rows    == Insert(h, dp1, nd2, plan)
<1>2. /\ hist' = h
      /\ dep' = IF moved = {} THEN dp1 ELSE rows
      /\ node' = IF moved = {} THEN nd2 ELSE [nd3 EXCEPT ![n].life = life]
      /\ serving' = IF moved = {} THEN serving ELSE Serve(serving, rows, nd2, id)
      /\ UNCHANGED <<draft, mach, agent>>
  BY <1>1
<1>3. /\ Dated(hist, dep) /\ Frozen(dep) /\ serving \in ServingRow
      /\ draft # NoDraft => draft \in PlanRow /\ draft.rev \in DOMAIN hist
  BY DEF IInv, DeploymentsOK, NodesOK, DraftOK
<1>4. Dated(h, dp) /\ Frozen(dp) /\ DOMAIN dp = DOMAIN dep /\ DOMAIN dp = 1..Len(dp)
      /\ Len(dp) \in Nat
  <2>1. Dated(hist, dp) /\ Frozen(dp)
    BY <1>3, KeepsDated, KeepsFrozen
  <2> QED
    BY <2>1 DEF Dated, Keeps, Table
<1>5. nd1 \in Nodes /\ dp1 \in Table /\ Keeps(dp, dp1)
  BY CancelDirtyType, CancelType
<1>6. \A d \in DOMAIN dp1 : ~Open(dp1, d)
  BY <1>5, CancelType DEF ActiveIds, Keeps
<1>7. plan \in PlanRow /\ plan.rev \in DOMAIN h
  <2> DEFINE full == ConfigPlan(h, Len(h), nd1, waves, {})
  <2>1. full \in PlanRow /\ full.rev = Len(h)
    BY <1>1, <1>5, ConfigPlanType
  <2> HIDE DEF full
  <2>2. MarkIsolated(full, isolated) \in PlanRow
        /\ MarkIsolated(full, isolated).rev = full.rev
    BY <2>1, MarkIsolatedType
  <2> QED
    BY <2>1, <2>2 DEF full
<1> HIDE DEF D, dp1, nd1, plan
<1>8. Dated(h, dp1) /\ Frozen(dp1) /\ Single(dp1) /\ DOMAIN dp1 = 1..Len(dp)
      /\ Len(dp1) = Len(dp)
  <2>1. Dated(h, dp1) /\ Frozen(dp1)
    BY <1>4, <1>5, KeepsDated, KeepsFrozen
  <2>2. Single(dp1)
    BY <1>6 DEF Single
  <2>3. DOMAIN dp1 = DOMAIN dp
    BY <1>5 DEF Keeps
  <2>4. Len(dp1) = Len(dp)
    BY <1>4, <1>5, <2>3 DEF Table
  <2> QED
    BY <1>4, <2>1, <2>2, <2>3, <2>4
<1>9. nd2 \in Nodes
  <2> HIDE DEF torn
  <2>1. torn \in BOOLEAN
    BY DEF torn
  <2>2. nd1[n] \in NodeRow
    BY <1>5 DEF Nodes
  <2>3. [nd1[n] EXCEPT !.phase = IF torn THEN "retired" ELSE @, !.tok = @ /\ ~torn]
            \in NodeRow
    BY <2>1, <2>2 DEF NodeRow
  <2> QED
    BY <1>5, <2>1, <2>2, <2>3 DEF Nodes, NodeRow
<1> HIDE DEF torn, nd2, pending
<1>10. nd3 \in Nodes
  BY <1>9, InsertDirtyType
<1>11. life \in Nat
  <2> HIDE DEF nd3
  <2>1. nd3[n].life \in Nat
    BY <1>10 DEF Nodes, NodeRow
  <2> QED
    BY <2>1, <1>4
<1> HIDE DEF nd3, life
<1>12. [nd3 EXCEPT ![n].life = life] \in Nodes
  <2>1. nd3[n] \in NodeRow
    BY <1>10 DEF Nodes
  <2>2. [nd3[n] EXCEPT !.life = life] \in NodeRow
    BY <1>11, <2>1 DEF NodeRow
  <2>3. [nd3 EXCEPT ![n].life = life] = [nd3 EXCEPT ![n] = [nd3[n] EXCEPT !.life = life]]
    BY <1>10 DEF Nodes
  <2> QED
    BY <1>10, <2>2, <2>3 DEF Nodes
<1>13. /\ rows \in Table /\ Dated(h, rows) /\ Frozen(rows) /\ Single(rows)
       /\ DOMAIN rows = 1..(Len(dp1) + 1)
  <2>1. NoneOpen(dp1, plan.kind)
    BY <1>6 DEF NoneOpen
  <2>2. /\ rows \in Table /\ Dated(h, rows)
        /\ Frozen(dp1) => Frozen(rows)
        /\ DOMAIN rows = 1..(Len(dp1) + 1)
        /\ Single(dp1) /\ NoneOpen(dp1, plan.kind) => Single(rows)
    <3>1. /\ dp1 \in Table /\ Dated(h, dp1) /\ nd2 \in Nodes
          /\ plan \in PlanRow /\ plan.rev \in DOMAIN h
      BY <1>5, <1>7, <1>8, <1>9
    <3> QED
      BY <3>1, InsertType
  <2> QED
    BY <1>8, <2>1, <2>2
<1> HIDE DEF rows, moved
<1>14. id \in DOMAIN rows /\ DOMAIN dep \subseteq DOMAIN rows /\ DOMAIN dep = DOMAIN dp1
  BY <1>4, <1>8, <1>13
<1>15. Serve(serving, rows, nd2, id) \in ServingRow
  BY <1>3, <1>13, <1>14, ServeType
<1>16. NodesOK'
  BY <1>2, <1>3, <1>9, <1>12, <1>15 DEF NodesOK
<1>17. RevisionsOK'
  BY <1>2 DEF RevisionsOK, Latest
<1>18. DraftOK'
  BY <1>2, <1>3 DEF DraftOK
<1>19. /\ dep' \in Table /\ Dated(hist', dep') /\ Frozen(dep') /\ Single(dep')
       /\ DOMAIN dep \subseteq DOMAIN dep'
  BY <1>2, <1>5, <1>8, <1>13, <1>14
<1> QED
  BY <1>2, <1>16, <1>17, <1>18, <1>19, InsertStep

LEMMA AdvancedType ==
    ASSUME NEW nd \in Nodes, NEW n \in Node,
           NEW phase \in Participating \cup {"retired", "abandoned"}
    PROVE  Advanced(nd, n, phase) \in Nodes
<1>1. nd[n] \in NodeRow
  BY DEF Nodes
<1> DEFINE Phase == Participating \cup {"retired", "abandoned"}
           epoch == nd[n].epoch + 1
<1>2. phase \in Phase /\ epoch \in Nat
  BY <1>1 DEF NodeRow
<1>3. NodeRow = [iso : BOOLEAN, phase : Phase, epoch : Nat, life : Nat, tok : BOOLEAN,
                 cfg : Content, gr : Content]
  BY DEF NodeRow
<1> HIDE DEF Phase, epoch
<1>4. [nd[n] EXCEPT !.phase = phase, !.life = 0, !.epoch = epoch] \in NodeRow
  BY <1>1, <1>2, <1>3
<1> QED
  BY <1>4 DEF Advanced, Nodes, epoch

LEMMA LifecycleStep ==
    ASSUME IInv, NEW n \in Node,
           Retire(n) \/ Reactivate(n) \/ RepairTeardown(n) \/ Abandon(n)
    PROVE  IInv'
<1>1. /\ hist \in History /\ dep \in Table /\ node \in Nodes
      /\ Len(hist) \in DOMAIN hist /\ hist[Len(hist)] \in RevisionRow /\ Len(hist) \in Nat
  BY LatestRow DEF IInv, RevisionsOK, DeploymentsOK, NodesOK, Latest
<1>2. ASSUME NEW row \in RevisionRow
      PROVE  /\ Append(hist, row) \in History
             /\ Len(Append(hist, row)) \in DOMAIN Append(hist, row)
             /\ DOMAIN hist \subseteq DOMAIN Append(hist, row)
  BY <1>1 DEF History
<1>3. AdvanceDirty(dep, node, n) \in Nodes
  BY <1>1, AdvanceDirtyType
<1>4. AdvanceIntent(dep, n) \in Table /\ Keeps(dep, AdvanceIntent(dep, n))
  BY <1>1, AdvanceIntentType
<1>5. "retiring" \in Participating /\ "active" \in Participating
  BY DEF Participating
<1>6. CASE Retire(n)
  <2>1. [hist[Latest] EXCEPT !.topo[n] = 0] \in RevisionRow
    BY <1>1 DEF RevisionRow, Latest
  <2>2. Advanced(AdvanceDirty(dep, node, n), n, "retiring") \in Nodes
    BY <1>3, <1>5, AdvancedType
  <2> QED
    BY <1>2, <1>4, <1>6, <2>1, <2>2, ReplanStep DEF Retire
<1>7. CASE Reactivate(n)
  <2>1. [hist[Latest] EXCEPT !.topo[n] = Latest + 1] \in RevisionRow
    BY <1>1 DEF RevisionRow, Latest
  <2>2. Advanced(AdvanceDirty(dep, node, n), n, "active") \in Nodes
    BY <1>3, <1>5, AdvancedType
  <2> QED
    BY <1>2, <1>4, <1>7, <2>1, <2>2, ReplanStep DEF Reactivate
<1>8. CASE RepairTeardown(n)
  BY <1>1, <1>3, <1>8, KeepsSelf, ReplanStep DEF RepairTeardown
<1>9. CASE Abandon(n)
  <2>1. Advanced(node, n, "abandoned") \in Nodes
    BY <1>1, AdvancedType
  <2>2. [Advanced(node, n, "abandoned") EXCEPT ![n].tok = FALSE] \in Nodes
    BY <2>1 DEF Nodes, NodeRow
  <2> QED
    BY <1>1, <1>9, <2>2, KeepsSelf, ReplanStep DEF Abandon
<1> QED
  BY <1>6, <1>7, <1>8, <1>9

LEMMA IssueTokenStep ==
    ASSUME IInv, NEW n \in Node, IssueToken(n)
    PROVE  IInv'
<1>1. dep' \in Table /\ Keeps(dep, dep')
  BY KeepsSelf DEF IInv, DeploymentsOK, IssueToken
<1>2. node' \in Nodes
  BY DEF IInv, NodesOK, IssueToken, Nodes, NodeRow
<1> QED
  BY <1>1, <1>2, RowStep DEF IssueToken, IInv, NodesOK
----------------------------------------------------------------------------
(* The agent.                                                              *)

AgentRow == [pc : {"idle", "work", "spool"}, dep : Nat, claim : Nat,
             kind : Kind \cup {"none"}, ok : BOOLEAN, cfg : Content, gr : Content]

\* A step of the agent of machine n.
LEMMA AgentStep ==
    ASSUME IInv, UNCHANGED <<hist, draft>>, NodesOK',
           dep' \in Table, Dated(hist, dep'), Single(dep'), Frozen(dep'),
           DOMAIN dep' = DOMAIN dep, mach' \in [Node -> Contents],
           NEW n \in Node, NEW a \in AgentRow, agent' = [agent EXCEPT ![n] = a],
           a.pc # "idle" => a.dep \in DOMAIN dep
    PROVE  IInv'
<1> USE DEF IInv
<1>1. RevisionsOK' /\ DraftOK'
  BY DEF RevisionsOK, DraftOK, Latest
<1>2. DeploymentsOK'
  BY DEF DeploymentsOK
<1>3. agent \in [Node -> AgentRow]
  BY DEF MachinesOK, Agents, AgentRow
<1>4. agent' \in [Node -> AgentRow]
      /\ \A m \in Node : agent'[m] = IF m = n THEN a ELSE agent[m]
  BY <1>3
<1>5. MachinesOK'
  BY <1>4 DEF MachinesOK, Agents, AgentRow
<1> QED
  BY <1>1, <1>2, <1>5

LEMMA AgentType ==
    ASSUME IInv, NEW n \in Node
    PROVE  /\ agent[n] \in AgentRow
           /\ agent = [agent EXCEPT ![n] = agent[n]]
           /\ agent[n].pc # "idle" => agent[n].dep \in DOMAIN dep
           /\ mach[n] \in Contents
<1>1. agent \in [Node -> AgentRow]
  BY DEF IInv, MachinesOK, Agents, AgentRow
<1> QED
  BY <1>1 DEF IInv, MachinesOK

LEMMA IdleType == Idle \in AgentRow /\ Idle.pc = "idle"
<1> QED
  BY DEF Idle, AgentRow, Content

LEMMA WorkType ==
    ASSUME IInv, NEW d \in DOMAIN dep, NEW n \in Node, NEW claim \in Nat, NEW gr \in Nat
    PROVE  Work(d, n, claim, gr) \in AgentRow /\ Work(d, n, claim, gr).dep = d
<1>a. dep \in Table
  BY DEF IInv, DeploymentsOK
<1>b. d \in Nat
  BY <1>a DEF Table
<1>c. dep[d] \in DeploymentRow
  BY <1>a, RowType
<1>1. d \in Nat /\ dep[d].kind \in Kind
  BY <1>b, <1>c DEF DeploymentRow
<1>2. hist[dep[d].rev].topo[n] \in Nat
  BY GrantsAtType DEF IInv, RevisionsOK, DeploymentsOK, Dated
<1> QED
  BY <1>1, <1>2 DEF Work, AgentRow, Content

\* A claim hands work to the agent, unless the answer is lost.
LEMMA HandedStep ==
    ASSUME IInv, UNCHANGED <<hist, node, serving, draft, mach>>,
           NEW d \in DOMAIN dep, NEW n \in Node, NEW claim \in Nat, NEW gr \in Nat,
           NEW lost \in BOOLEAN, Handed(n, Work(d, n, claim, gr), lost),
           dep' \in Table, Dated(hist, dep'), Single(dep'), Frozen(dep'),
           DOMAIN dep' = DOMAIN dep
    PROVE  IInv'
<1> DEFINE w == Work(d, n, claim, gr)
           a == IF lost THEN agent[n] ELSE w
<1>1. w \in AgentRow /\ w.dep = d
  BY WorkType
<1>2. agent' = IF lost THEN agent ELSE [agent EXCEPT ![n] = w]
  BY DEF Handed
<1> HIDE DEF w
<1>3. a \in AgentRow /\ (a.pc # "idle" => a.dep \in DOMAIN dep)
  BY <1>1, AgentType
<1>4. agent' = [agent EXCEPT ![n] = a]
  BY <1>2, AgentType
<1>5. NodesOK' /\ mach' \in [Node -> Contents]
  BY DEF IInv, NodesOK, MachinesOK
<1> HIDE DEF a
<1> QED
  BY <1>3, <1>4, <1>5, AgentStep

LEMMA ClaimObligationStep ==
    ASSUME IInv, NEW n \in Node, NEW d \in DOMAIN dep, NEW lost \in BOOLEAN,
           ClaimObligation(n, d, lost)
    PROVE  IInv'
<1> DEFINE t     == dep[d].tgt[n]
           claim == IF t.ost = "pending" THEN t.claim + 1 ELSE t.claim
           tgt   == [dep[d].tgt EXCEPT ![n].ost = "dispatched", ![n].claim = claim]
           row   == [dep[d] EXCEPT !.tgt = tgt]
<1>1. /\ dep \in Table /\ dep[d] \in DeploymentRow
      /\ t \in Target /\ dep[d].tgt \in [Node -> Target]
      /\ Dated(hist, dep) /\ Single(dep) /\ Frozen(dep)
  BY RowType DEF IInv, DeploymentsOK, DeploymentRow
<1>2. claim \in Nat /\ t.ogr \in Nat
  BY <1>1 DEF Target
<1>3. /\ dep' = [dep EXCEPT ![d] = row]
      /\ Handed(n, Work(d, n, claim, t.ogr), lost)
      /\ UNCHANGED <<hist, node, serving, draft, mach>>
  BY DEF ClaimObligation
<1> HIDE DEF claim
<1>4. [t EXCEPT !.ost = "dispatched", !.claim = claim] \in Target
  BY <1>1, <1>2 DEF Target
<1>5. /\ tgt \in [Node -> Target]
      /\ \A m \in Node : tgt[m].st = dep[d].tgt[m].st /\ tgt[m].fz = dep[d].tgt[m].fz
  BY <1>1, <1>4 DEF Target
<1> HIDE DEF tgt
<1>6. /\ row \in DeploymentRow /\ row.kind = dep[d].kind /\ row.rev = dep[d].rev
      /\ row.tgt = tgt /\ row.status = dep[d].status
  BY <1>1, <1>5 DEF DeploymentRow
<1> HIDE DEF row, t
<1>7. dep' \in Table /\ Keeps(dep, dep')
  BY <1>1, <1>3, <1>5, <1>6, RowUpdate DEF SameOrders, Open
<1>8. /\ Dated(hist, dep') /\ Single(dep') /\ Frozen(dep')
      /\ DOMAIN dep' = DOMAIN dep
  BY <1>1, <1>7, KeepsDated, KeepsSingle, KeepsFrozen DEF Keeps
<1> QED
  BY <1>2, <1>3, <1>7, <1>8, HandedStep

LEMMA ClaimTargetStep ==
    ASSUME IInv, NEW n \in Node, NEW d \in DOMAIN dep, NEW lost \in BOOLEAN,
           ClaimTarget(n, d, lost)
    PROVE  IInv'
<1> DEFINE t     == dep[d].tgt[n]
           fresh == t.st = "pending"
           gr    == IF fresh THEN t.gr ELSE t.fz
           tgt   == [dep[d].tgt EXCEPT ![n].st = "dispatched", ![n].fz = gr]
           row   == [dep[d] EXCEPT !.tgt = tgt, !.status = "running"]
<1>1. /\ dep \in Table /\ dep[d] \in DeploymentRow
      /\ t \in Target /\ dep[d].tgt \in [Node -> Target]
      /\ Dated(hist, dep) /\ Single(dep) /\ Frozen(dep)
  BY RowType DEF IInv, DeploymentsOK, DeploymentRow
<1>2. /\ dep' = IF ~fresh THEN dep ELSE [dep EXCEPT ![d] = row]
      /\ Handed(n, Work(d, n, 0, gr), lost)
      /\ UNCHANGED <<hist, node, serving, draft, mach>>
      /\ t.st \in OpenTarget /\ dep[d].status \in {"planned", "running"}
  BY DEF ClaimTarget, FirstOffer, Offers
<1>3. gr \in Nat
  <2>1. CASE fresh
    BY <1>1, <2>1 DEF Target
  <2>2. CASE ~fresh
    <3>1. t.st = "dispatched"
      BY <1>2, <2>2 DEF OpenTarget
    <3> QED
      BY <1>1, <2>2, <3>1 DEF Frozen
  <2> QED
    BY <2>1, <2>2
<1> HIDE DEF gr
<1>4. CASE ~fresh
  <2>1. dep' = dep
    BY <1>2, <1>4
  <2> HIDE DEF t, fresh
  <2> QED
    BY <1>1, <1>2, <1>3, <2>1, HandedStep
<1>5. CASE fresh
  <2>1. [t EXCEPT !.st = "dispatched", !.fz = gr] \in Target
    BY <1>1, <1>3 DEF Target
  <2>2. /\ tgt \in [Node -> Target] /\ tgt[n].fz = gr
        /\ \A m \in Node : m # n => tgt[m] = dep[d].tgt[m]
    BY <1>1, <2>1 DEF Target
  <2> HIDE DEF tgt
  <2>3. /\ row \in DeploymentRow /\ row.kind = dep[d].kind /\ row.rev = dep[d].rev
        /\ row.tgt = tgt /\ Open(dep, d)
    BY <1>1, <1>2, <2>2 DEF DeploymentRow, Open, OpenDeployment
  <2>4. dep' = [dep EXCEPT ![d] = row]
    BY <1>2, <1>5
  <2> HIDE DEF row, t, fresh
  <2>5. /\ dep' \in Table /\ DOMAIN dep' = DOMAIN dep
        /\ \A e \in DOMAIN dep : dep'[e] = IF e = d THEN row ELSE dep[e]
    BY <1>1, <2>3, <2>4, RowUpdate
  <2>6. Dated(hist, dep')
    BY <1>1, <2>3, <2>5 DEF Dated
  <2>7. Single(dep')
    BY <1>1, <2>3, <2>5 DEF Single, Open
  <2>8. Frozen(dep')
    BY <1>1, <1>3, <2>2, <2>3, <2>5 DEF Frozen
  <2>9. 0 \in Nat
    OBVIOUS
  <2>10. UNCHANGED <<hist, node, serving, draft, mach>> /\ Handed(n, Work(d, n, 0, gr), lost)
    BY <1>2
  <2>11. dep' \in Table /\ DOMAIN dep' = DOMAIN dep
    BY <2>5
  <2> QED
    BY <1>3, <2>6, <2>7, <2>8, <2>9, <2>10, <2>11, HandedStep
<1> QED
  BY <1>4, <1>5

LEMMA OutcomesType ==
    ASSUME IInv, NEW n \in Node, NEW result \in {"applied", "recovered", "dirty"}
    PROVE  Outcomes(n)[result] \in Contents
<1> DEFINE a == agent[n]
           want(c, g) == IF a.kind = "config" THEN [cfg |-> c, gr |-> g]
                                              ELSE [mach[n] EXCEPT !.gr = g]
<1>1. a \in AgentRow /\ mach[n] \in Contents
  BY AgentType
<1>2. ASSUME NEW c \in Content, NEW g \in Content
      PROVE  want(c, g) \in Contents
  BY <1>1, <1>2 DEF Contents
<1>3. a.cfg \in Content /\ a.gr \in Content /\ Unsure \in Content
  BY <1>1 DEF AgentRow, Content
<1>4. Outcomes(n) = [applied |-> want(a.cfg, a.gr), recovered |-> mach[n],
                     dirty |-> want(Unsure, Unsure)]
  BY DEF Outcomes
<1>5. want(a.cfg, a.gr) \in Contents /\ want(Unsure, Unsure) \in Contents
  BY <1>2, <1>3
<1> HIDE DEF want
<1> QED
  BY <1>1, <1>4, <1>5
LEMMA ExecuteStep ==
    ASSUME IInv, NEW n \in Node, NEW result \in {"applied", "recovered", "dirty"},
           Execute(n, result)
    PROVE  IInv'
<1> DEFINE seen == Outcomes(n)[result]
           a == [agent[n] EXCEPT !.pc = "spool", !.ok = result = "applied",
                                 !.cfg = seen.cfg, !.gr = seen.gr]
<1>1. seen \in Contents /\ seen.cfg \in Content /\ seen.gr \in Content
  BY OutcomesType DEF Contents
<1>2. /\ mach' = [mach EXCEPT ![n] = seen]
      /\ agent' = [agent EXCEPT ![n].pc = "spool", ![n].ok = result = "applied",
                                ![n].cfg = seen.cfg, ![n].gr = seen.gr]
      /\ agent[n].pc = "work"
      /\ UNCHANGED <<hist, dep, node, serving, draft>>
  BY DEF Execute
<1> HIDE DEF seen
<1>3. (result = "applied") \in BOOLEAN
  OBVIOUS
<1>4. /\ agent[n] \in AgentRow /\ agent \in [Node -> AgentRow]
      /\ agent[n].dep \in DOMAIN dep
  BY <1>2, AgentType DEF IInv, MachinesOK, Agents, AgentRow
<1>5. a \in AgentRow /\ a.dep = agent[n].dep
  BY <1>1, <1>3, <1>4 DEF AgentRow
<1>6. agent' = [agent EXCEPT ![n] = a]
  BY <1>2, <1>4
<1> HIDE DEF a
<1>7. mach' \in [Node -> Contents]
  BY <1>1, <1>2 DEF IInv, MachinesOK
<1>8. /\ NodesOK' /\ dep' \in Table /\ Dated(hist, dep') /\ Single(dep')
      /\ Frozen(dep') /\ DOMAIN dep' = DOMAIN dep
  BY <1>2 DEF IInv, NodesOK, DeploymentsOK
<1>9. a \in AgentRow /\ (a.pc # "idle" => a.dep \in DOMAIN dep)
  BY <1>4, <1>5
<1>10. UNCHANGED <<hist, draft>>
  BY <1>2
<1> QED
  BY <1>6, <1>7, <1>8, <1>9, <1>10, AgentStep

LEMMA CrashStep ==
    ASSUME IInv, NEW n \in Node, NEW result \in {"applied", "recovered", "dirty"},
           Crash(n, result)
    PROVE  IInv'
<1> DEFINE seen == Outcomes(n)[result]
           a == IF agent[n].kind = "config" /\ agent[n].cfg # 0 THEN agent[n] ELSE Idle
<1>1. seen \in Contents
  BY OutcomesType
<1>2. /\ mach' = [mach EXCEPT ![n] = seen]
      /\ agent' = IF agent[n].kind = "config" /\ agent[n].cfg # 0 THEN agent
                  ELSE [agent EXCEPT ![n] = Idle]
      /\ UNCHANGED <<hist, dep, node, serving, draft>>
  BY DEF Crash
<1> HIDE DEF seen
<1>3. mach' \in [Node -> Contents]
  BY <1>1, <1>2 DEF IInv, MachinesOK
<1>4. a \in AgentRow /\ (a.pc # "idle" => a.dep \in DOMAIN dep)
  BY AgentType, IdleType
<1>5. agent' = [agent EXCEPT ![n] = a]
  BY <1>2, AgentType
<1> HIDE DEF a
<1>6. /\ NodesOK' /\ dep' \in Table /\ Dated(hist, dep') /\ Single(dep')
      /\ Frozen(dep') /\ DOMAIN dep' = DOMAIN dep
  BY <1>2 DEF IInv, NodesOK, DeploymentsOK
<1> QED
  BY <1>2, <1>3, <1>4, <1>5, <1>6, AgentStep
----------------------------------------------------------------------------
(* Reports.                                                                *)

LEMMA VerdictType ==
    ASSUME NEW d, NEW n, NEW gr
    PROVE  Verdict(d, n, gr) \in {"succeeded", "failed"}
<1> QED
  BY DEF Verdict

LEMMA ObservedType ==
    ASSUME IInv, NEW n \in Node
    PROVE  Observed(node, n) \in Nodes
<1>1. /\ agent[n].cfg \in Content /\ agent[n].gr \in Content
      /\ node \in Nodes
  BY AgentType DEF AgentRow, IInv, NodesOK
<1> DEFINE c == IF agent[n].kind = "config" THEN agent[n].cfg ELSE node[n].cfg
<1>2. node[n] \in NodeRow /\ c \in Content
  BY <1>1 DEF Nodes, NodeRow
<1>3. [node[n] EXCEPT !.cfg = c, !.gr = agent[n].gr] \in NodeRow
  BY <1>1, <1>2 DEF NodeRow
<1> QED
  BY <1>1, <1>2, <1>3 DEF Observed, Nodes, NodeRow

LEMMA SettleObligationType ==
    ASSUME IInv, NEW n \in Node, NEW d \in DOMAIN dep, SettleObligation(d, n)
    PROVE  dep' \in Table /\ Keeps(dep, dep') /\ node' \in Nodes /\ serving' \in ServingRow
<1> DEFINE v   == Verdict(d, n, dep[d].tgt[n].ogr)
           put == [dep[d].tgt[n] EXCEPT !.st = v, !.ost = v, !.fz = Null]
           tgt == [dep[d].tgt EXCEPT ![n].st = v, ![n].ost = v, ![n].fz = Null]
           row == [dep[d] EXCEPT !.tgt = tgt, !.settle = Settlement(tgt)]
<1>1. /\ dep \in Table /\ dep[d] \in DeploymentRow
      /\ dep[d].tgt[n] \in Target /\ dep[d].tgt \in [Node -> Target]
  BY RowType DEF IInv, DeploymentsOK, DeploymentRow
<1>2. dep' = [dep EXCEPT ![d] = row] /\ node' = Observed(node, n) /\ serving' = serving
  BY DEF SettleObligation
<1>3. v \in {"succeeded", "failed"}
  BY VerdictType
<1> HIDE DEF v
<1>4. put \in Target /\ put.st # "dispatched"
  BY <1>1, <1>3 DEF Target
<1>5. /\ tgt \in [Node -> Target]
      /\ \A m \in Node : tgt[m].st = "dispatched" => tgt[m] = dep[d].tgt[m]
  BY <1>1, <1>3, <1>4 DEF Target
<1> HIDE DEF tgt
<1>6. Settlement(tgt) \in {"converged", "debt", "uncertain"}
  BY SettlementType
<1>7. /\ row \in DeploymentRow /\ row.kind = dep[d].kind /\ row.rev = dep[d].rev
      /\ row.tgt = tgt /\ row.status = dep[d].status
  <2>1. row = Settled(dep[d], tgt, Settlement(tgt))
    BY DEF Settled
  <2>2. dep[d] \in DeploymentRow /\ tgt \in [Node -> Target]
    BY <1>1, <1>5
  <2> HIDE DEF row
  <2> QED
    BY <1>6, <2>1, <2>2, SettledType
<1> HIDE DEF row
<1>8. SameOrders(dep[d], row) /\ (row.status \in OpenDeployment => Open(dep, d))
  BY <1>5, <1>7 DEF SameOrders, Open
<1>9. dep' \in Table /\ Keeps(dep, dep')
  BY <1>1, <1>2, <1>7, <1>8, RowUpdate, Zenon
<1> QED
  BY <1>2, <1>9, ObservedType DEF IInv, NodesOK

LEMMA SettleTargetType ==
    ASSUME IInv, NEW n \in Node, NEW d \in DOMAIN dep, SettleTarget(d, n)
    PROVE  dep' \in Table /\ Keeps(dep, dep') /\ node' \in Nodes /\ serving' \in ServingRow
<1> DEFINE v    == Verdict(d, n, dep[d].tgt[n].fz)
           done == TeardownProved(d, n, v)
           put  == [dep[d].tgt[n] EXCEPT !.st = v, !.fz = Null]
           tgt  == [dep[d].tgt EXCEPT ![n].st = v, ![n].fz = Null]
           row  == [dep[d] EXCEPT !.tgt = tgt]
           dp1  == [dep EXCEPT ![d] = row]
           seen == Observed(node, n)
           nd1  == [seen EXCEPT ![n].phase = IF done THEN "retired" ELSE @,
                                ![n].tok = @ /\ ~done]
           held == /\ dep[d].status = "halted"
                   /\ v = "succeeded"
                   /\ \E m \in Node : tgt[m].st \notin {"none", "succeeded"}
           dp2  == Refresh(dp1, nd1, d)
<1>1. /\ dep \in Table /\ dep[d] \in DeploymentRow
      /\ dep[d].tgt[n] \in Target /\ dep[d].tgt \in [Node -> Target]
  BY RowType DEF IInv, DeploymentsOK, DeploymentRow
<1>2. /\ dep' = (IF held THEN dp1 ELSE dp2)
      /\ node' = nd1
      /\ serving' = IF held THEN serving ELSE Serve(serving, dp2, nd1, d)
      /\ Open(dep, d)
  BY DEF SettleTarget, SettlesTarget
<1>3. v \in {"succeeded", "failed"}
  BY VerdictType
<1>4. done \in BOOLEAN
  BY DEF TeardownProved
<1> HIDE DEF v, done
<1>5. put \in Target /\ put.st # "dispatched"
  BY <1>1, <1>3 DEF Target
<1>6. /\ tgt \in [Node -> Target]
      /\ \A m \in Node : tgt[m].st = "dispatched" => tgt[m] = dep[d].tgt[m]
  BY <1>1, <1>3, <1>5 DEF Target
<1> HIDE DEF tgt
<1>7. /\ row \in DeploymentRow /\ row.kind = dep[d].kind /\ row.rev = dep[d].rev
      /\ row.tgt = tgt /\ row.status = dep[d].status
  BY <1>1, <1>6 DEF DeploymentRow
<1> HIDE DEF row
<1>8. dp1 \in Table /\ Keeps(dep, dp1) /\ DOMAIN dp1 = DOMAIN dep
  BY <1>1, <1>6, <1>7, RowUpdate DEF SameOrders, Open
<1>9. seen \in Nodes
  BY ObservedType
<1> HIDE DEF dp1, seen
<1>10. nd1 \in Nodes
  <2>1. seen[n] \in NodeRow
    BY <1>9 DEF Nodes
  <2> DEFINE p == IF done THEN "retired" ELSE seen[n].phase
             k == seen[n].tok /\ ~done
  <2>2. p \in Participating \cup {"retired", "abandoned"} /\ k \in BOOLEAN
    BY <2>1, <1>4 DEF NodeRow
  <2>3. nd1 = [seen EXCEPT ![n].phase = p, ![n].tok = k]
    BY <1>9 DEF Nodes
  <2> HIDE DEF p, k
  <2>4. [seen[n] EXCEPT !.phase = p, !.tok = k] \in NodeRow
    BY <2>1, <2>2 DEF NodeRow
  <2> HIDE DEF nd1
  <2> QED
    BY <1>9, <2>1, <2>3, <2>4 DEF Nodes, NodeRow
<1> HIDE DEF nd1
<1>11. dp2 \in Table /\ Keeps(dep, dp2)
  BY <1>1, <1>2, <1>8, RefreshKeeps
<1> HIDE DEF dp2
<1>12. DOMAIN dp2 = DOMAIN dep
  BY <1>11 DEF Keeps
<1>13. serving \in ServingRow
  BY DEF IInv, NodesOK
<1>14. Serve(serving, dp2, nd1, d) \in ServingRow
  BY <1>11, <1>12, <1>13, ServeType
<1> HIDE DEF held
<1> QED
  BY <1>2, <1>8, <1>10, <1>11, <1>13, <1>14

LEMMA DeliverStep ==
    ASSUME IInv, NEW n \in Node, NEW lost \in BOOLEAN, Deliver(n, lost)
    PROVE  IInv'
<1> DEFINE d == agent[n].dep
           a == IF lost THEN agent[n] ELSE Idle
<1>1. /\ d \in DOMAIN dep
      /\ SettleObligation(d, n) \/ SettleTarget(d, n) \/ RefuseReport(d, n)
      /\ agent' = IF lost THEN agent ELSE [agent EXCEPT ![n] = Idle]
      /\ UNCHANGED <<hist, draft, mach>>
  BY AgentType DEF Deliver
<1> HIDE DEF d
<1>2. dep \in Table /\ Dated(hist, dep) /\ Single(dep) /\ Frozen(dep)
  BY DEF IInv, DeploymentsOK
<1>3. dep' \in Table /\ Keeps(dep, dep') /\ node' \in Nodes /\ serving' \in ServingRow
  <2>1. CASE SettleObligation(d, n)
    BY <1>1, <2>1, SettleObligationType
  <2>2. CASE SettleTarget(d, n)
    BY <1>1, <2>2, SettleTargetType
  <2>3. CASE RefuseReport(d, n)
    BY <1>2, <2>3, KeepsSelf DEF RefuseReport, IInv, NodesOK
  <2> QED
    BY <1>1, <2>1, <2>2, <2>3
<1>4. /\ Dated(hist, dep') /\ Single(dep') /\ Frozen(dep')
      /\ DOMAIN dep' = DOMAIN dep
  BY <1>2, <1>3, KeepsDated, KeepsSingle, KeepsFrozen DEF Keeps
<1>5. NodesOK' /\ mach' \in [Node -> Contents]
  BY <1>1, <1>3 DEF IInv, NodesOK, MachinesOK
<1>6. a \in AgentRow /\ (a.pc # "idle" => a.dep \in DOMAIN dep)
  BY AgentType, IdleType
<1>7. agent' = [agent EXCEPT ![n] = a]
  BY <1>1, AgentType
<1> HIDE DEF a
<1> QED
  BY <1>1, <1>3, <1>4, <1>5, <1>6, <1>7, AgentStep
----------------------------------------------------------------------------
(* The theorems.                                                           *)

LEMMA OperateStep ==
    ASSUME IInv, Operate
    PROVE  IInv'
<1> QED
  BY EditPermissionsStep, ConfirmWaveStep, HaltDeploymentStep, CancelDeploymentStep,
     EditTopologyStep, IsolateNodeStep, RestoreServiceStep, RetryObligationStep,
     RetryTargetStep DEF Operate

LEMMA ConvergeStep ==
    ASSUME IInv, NEW n \in Node, Converge(n)
    PROVE  IInv'
<1> QED
  BY ClaimObligationStep, ClaimTargetStep, ExecuteStep, CrashStep, DeliverStep
     DEF Converge

\* The invariant is inductive.
LEMMA NextIInv == IInv /\ [Next]_vars => IInv'
<1> SUFFICES ASSUME IInv, [Next]_vars
             PROVE  IInv'
  OBVIOUS
<1>1. CASE UNCHANGED vars
  BY <1>1 DEF vars, IInv, RevisionsOK, DeploymentsOK, NodesOK, DraftOK, MachinesOK, Latest
<1>2. CASE Release
  BY <1>2, ReleaseStep
<1>3. CASE Operate
  BY <1>3, OperateStep
<1>4. CASE Lifecycle
  BY <1>4, LifecycleStep DEF Lifecycle
<1>5. ASSUME NEW n \in Node, IssueToken(n) \/ Converge(n)
      PROVE  IInv'
  BY <1>5, IssueTokenStep, ConvergeStep
<1> QED
  BY <1>1, <1>2, <1>3, <1>4, <1>5 DEF Next

\* Every row that create_deployment, isolate_node_inner, transition_node_status,
\* the claims and report_target_result write is well typed, and a deployment is
\* always one of a revision that exists, for any fleet and any number of steps.
THEOREM TypeCorrect == Spec => []TypeOK
<1>1. IInv => TypeOK
  BY IInvImplies
<1> QED
  BY <1>1, InitIInv, NextIInv, PTL DEF Spec

\* deployments_single_flight holds of what the code does, before the unique
\* index is asked: one configuration and one grants order are open at most, for
\* any interleaving of releases, lifecycle changes, isolations and reports.
THEOREM OneOpenOrderPerKind == Spec => []SingleFlight
<1>1. IInv => SingleFlight
  BY IInvImplies
<1> QED
  BY <1>1, InitIInv, NextIInv, PTL DEF Spec
----------------------------------------------------------------------------
(* What the rows of the tables promise beyond their types.                 *)

\* The machine may be executing an order of deployment d.
Out(dp, d, n) ==
    \/ Open(dp, d) /\ dp[d].tgt[n].st = "dispatched"
    \/ dp[d].tgt[n].ost = "dispatched"

\* The columns of one target agree: a target that waits has no frozen list,
\* and an obligation that is open or failed has left its wave.
Columns(t) ==
    /\ t.st = "pending" => t.fz = Null
    /\ t.ost \in OpenTarget => t.st \in {"deferred", "superseded"}
    /\ t.ost = "failed" => t.st = "failed"

\* The wave of this target is not over; it went out already.
Unsettled(t) == t.st \in OpenTarget \/ (t.st = "failed" /\ t.ost # "failed")
Started(t)   == Unsettled(t) /\ t.st # "pending"

\* WaveOrder, with the failed targets that a retry sends back to their wave.
Ordered(r) ==
    r.status \in OpenDeployment =>
        \A m, n \in Node : Started(r.tgt[n]) /\ Unsettled(r.tgt[m])
                            => r.tgt[n].wave <= r.tgt[m].wave

\* A release that goes on beside a failed target is not past its wave.
Resumed(r) ==
    r.status \in {"planned", "running"} =>
        \A m \in Node : r.tgt[m].st = "failed" /\ r.tgt[m].ost # "failed" =>
            \E k \in Node : r.tgt[k].st \in OpenTarget /\ r.tgt[k].wave <= r.tgt[m].wave

\* The target needed a confirmation, went out in its wave, and nobody gave it.
Unconfirmed(h, r, n) ==
    /\ ~Unattended
    /\ r.tgt[n].disr
    /\ r.tgt[n].wave > 1 \/ h[r.rev].topo[n] = 0
    /\ r.tgt[n].st \in {"dispatched", "succeeded"}
    /\ r.tgt[n].ost = "none"
    /\ r.tgt[n].wave \notin r.confirmed

SoundRow(h, r) ==
    /\ \A n \in Node : Columns(r.tgt[n]) /\ ~Unconfirmed(h, r, n)
    /\ r.status \in OpenDeployment => r.activation = "waiting"
    /\ r.status \notin OpenDeployment => r.settle = Settlement(r.tgt)
    /\ Ordered(r)

\* OneDebt, for every pair of deployments and every epoch.
Alone(dp) ==
    \A d, e \in DOMAIN dp, n \in Node :
        (/\ dp[d].tgt[n].ost \in Debt /\ dp[e].tgt[n].ost \in Debt
         /\ dp[d].kind = dp[e].kind
         /\ dp[d].tgt[n].ep = dp[e].tgt[n].ep) => d = e

\* Debt that went out is of the current epoch of a machine that is detached.
Held(dp, nd) ==
    \A d \in DOMAIN dp, n \in Node :
        dp[d].tgt[n].ost \in {"dispatched", "failed"} =>
            Detached(nd, n) /\ dp[d].tgt[n].ep = nd[n].epoch

Sound(h, dp, nd) ==
    /\ \A d \in DOMAIN dp : SoundRow(h, dp[d]) /\ Resumed(dp[d])
    /\ Alone(dp)
    /\ Held(dp, nd)

\* Truthful, by the orders that are out, and what the agents carry: work of an
\* order that is out or whose loss made the row dirty, and honest observations.
Believes(dp, nd, ma, ag) ==
    \A n \in Node :
        /\ \/ nd[n].cfg \in {Unsure, ma[n].cfg}
           \/ \E d \in DOMAIN dp : dp[d].kind = "config" /\ Out(dp, d, n)
        /\ \/ nd[n].gr \in {Unsure, ma[n].gr}
           \/ \E d \in DOMAIN dp : Out(dp, d, n)
        /\ ag[n].pc # "idle" => ag[n].dep \in DOMAIN dp /\ ag[n].kind = dp[ag[n].dep].kind
        /\ ag[n].pc = "work" =>
              \/ Out(dp, ag[n].dep, n)
              \/ nd[n].gr = Unsure /\ (ag[n].kind = "config" => nd[n].cfg = Unsure)
        /\ ag[n].pc = "spool" =>
              ag[n].gr = ma[n].gr /\ (ag[n].kind = "config" => ag[n].cfg = ma[n].cfg)

\* RetiredMeansOff, and only active machines have a configuration to come.
Off(h, nd, ma, ag) ==
    \A n \in Node :
        /\ nd[n].phase = "retired" =>
              ma[n].cfg = 0 /\ ~(ag[n].pc = "work" /\ ag[n].kind = "config")
        /\ nd[n].phase # "active" => h[Len(h)].topo[n] = 0

Safe ==
    /\ Sound(hist, dep, node)
    /\ Believes(dep, node, mach, agent)
    /\ Off(hist, node, mach, agent)
----------------------------------------------------------------------------
(* The relations between a table and what a transaction makes of it.       *)

\* What a transaction of the console may do to a target: withdraw it.
Withdrawn(t, u) ==
    /\ u.wave = t.wave /\ u.disr = t.disr /\ u.ep = t.ep
    /\ u.st = t.st \/ u.st \in {"deferred", "superseded", "canceled"}
    /\ u.ost = t.ost \/ u.ost \in {"pending", "superseded", "canceled"}
    /\ t.ost # "none" => u.ost # "none"
    /\ Columns(t) => Columns(u)

QuietRow(r, q) ==
    /\ q.kind = r.kind /\ q.rev = r.rev /\ q.confirmed = r.confirmed
    /\ \A n \in Node : Withdrawn(r.tgt[n], q.tgt[n])
    /\ q.status \in OpenDeployment =>
          /\ r.status \in OpenDeployment
          /\ q.activation = r.activation
          /\ \A n \in Node : q.tgt[n].st = "failed" /\ r.tgt[n].ost = "failed"
                                => q.tgt[n].ost = "failed"
    /\ q.status \notin OpenDeployment =>
          \/ q.settle = Settlement(q.tgt)
          \/ q.settle = r.settle /\ r.status = q.status /\ q.tgt = r.tgt

Quiet(dp, dq) == DOMAIN dq = DOMAIN dp /\ \A d \in DOMAIN dp : QuietRow(dp[d], dq[d])

\* A release that goes on was going on, and lost none of its open targets.
Steady(r, q) ==
    q.status \in {"planned", "running"} =>
        /\ r.status = q.status
        /\ \A n \in Node : r.tgt[n].st \in OpenTarget => q.tgt[n].st = r.tgt[n].st

\* The only new debt is that of deployment d for the machines S.
Owes(dp, dq, d, S) ==
    \A e \in DOMAIN dp, n \in Node :
        dq[e].tgt[n].ost \in Debt => dp[e].tgt[n].ost \in Debt \/ (e = d /\ n \in S)

\* An order that is out stays out, or the machine's row turns dirty.
Covered(dp, nd, dq, ne) ==
    /\ DOMAIN dp \subseteq DOMAIN dq
    /\ \A d \in DOMAIN dp : dq[d].kind = dp[d].kind
    /\ \A n \in Node : ne[n].cfg \in {nd[n].cfg, Unsure} /\ ne[n].gr \in {nd[n].gr, Unsure}
    /\ \A d \in DOMAIN dp, n \in Node : Out(dp, d, n) =>
          \/ Out(dq, d, n)
          \/ ne[n].gr = Unsure /\ (dp[d].kind = "config" => ne[n].cfg = Unsure)

\* The machines keep what Held and the planner read of them.
SameMachines(nd, ne) ==
    \A n \in Node : ne[n].iso = nd[n].iso /\ ne[n].phase = nd[n].phase
                    /\ ne[n].epoch = nd[n].epoch

LEMMA CoveredTransitive ==
    ASSUME NEW dp, NEW nd, NEW dq, NEW ne, NEW dr, NEW nf,
           Covered(dp, nd, dq, ne), Covered(dq, ne, dr, nf)
    PROVE  Covered(dp, nd, dr, nf)
<1>1. DOMAIN dp \subseteq DOMAIN dr /\ \A d \in DOMAIN dp : dr[d].kind = dp[d].kind
  BY DEF Covered
<1>2. \A n \in Node : nf[n].cfg \in {nd[n].cfg, Unsure} /\ nf[n].gr \in {nd[n].gr, Unsure}
  BY DEF Covered
<1>3. ASSUME NEW d \in DOMAIN dp, NEW n \in Node, Out(dp, d, n)
      PROVE  \/ Out(dr, d, n)
             \/ nf[n].gr = Unsure /\ (dp[d].kind = "config" => nf[n].cfg = Unsure)
  <2>1. CASE Out(dq, d, n)
    BY <2>1 DEF Covered
  <2>2. CASE ne[n].gr = Unsure /\ (dp[d].kind = "config" => ne[n].cfg = Unsure)
    BY <2>2 DEF Covered
  <2> QED
    BY <1>3, <2>1, <2>2 DEF Covered
<1> QED
  BY <1>1, <1>2, <1>3 DEF Covered

LEMMA CoveredBelieves ==
    ASSUME NEW dp, NEW nd, NEW dq, NEW ne, NEW ma, NEW ag,
           Covered(dp, nd, dq, ne), Believes(dp, nd, ma, ag)
    PROVE  Believes(dq, ne, ma, ag)
<1> SUFFICES ASSUME NEW n \in Node
             PROVE
        /\ \/ ne[n].cfg \in {Unsure, ma[n].cfg}
           \/ \E d \in DOMAIN dq : dq[d].kind = "config" /\ Out(dq, d, n)
        /\ \/ ne[n].gr \in {Unsure, ma[n].gr}
           \/ \E d \in DOMAIN dq : Out(dq, d, n)
        /\ ag[n].pc # "idle" => ag[n].dep \in DOMAIN dq /\ ag[n].kind = dq[ag[n].dep].kind
        /\ ag[n].pc = "work" =>
              \/ Out(dq, ag[n].dep, n)
              \/ ne[n].gr = Unsure /\ (ag[n].kind = "config" => ne[n].cfg = Unsure)
        /\ ag[n].pc = "spool" =>
              ag[n].gr = ma[n].gr /\ (ag[n].kind = "config" => ag[n].cfg = ma[n].cfg)
  BY DEF Believes
<1>1. \/ ne[n].cfg \in {Unsure, ma[n].cfg}
      \/ \E d \in DOMAIN dq : dq[d].kind = "config" /\ Out(dq, d, n)
  BY DEF Believes, Covered
<1>2. \/ ne[n].gr \in {Unsure, ma[n].gr}
      \/ \E d \in DOMAIN dq : Out(dq, d, n)
  BY DEF Believes, Covered
<1>3. /\ ag[n].pc # "idle" => ag[n].dep \in DOMAIN dq /\ ag[n].kind = dq[ag[n].dep].kind
      /\ ag[n].pc = "work" =>
            \/ Out(dq, ag[n].dep, n)
            \/ ne[n].gr = Unsure /\ (ag[n].kind = "config" => ne[n].cfg = Unsure)
  BY DEF Believes, Covered
<1> QED
  BY <1>1, <1>2, <1>3 DEF Believes

LEMMA QuietTransitive ==
    ASSUME NEW dp, NEW dq, NEW dr, Quiet(dp, dq), Quiet(dq, dr)
    PROVE  Quiet(dp, dr)
<1> SUFFICES ASSUME NEW d \in DOMAIN dp
             PROVE  QuietRow(dp[d], dr[d])
  BY DEF Quiet
<1>1. QuietRow(dp[d], dq[d]) /\ QuietRow(dq[d], dr[d])
  BY DEF Quiet
<1>2. \A n \in Node : Withdrawn(dp[d].tgt[n], dr[d].tgt[n])
  BY <1>1 DEF QuietRow, Withdrawn
<1>3. ASSUME dr[d].status \in OpenDeployment
      PROVE  /\ dp[d].status \in OpenDeployment
             /\ dr[d].activation = dp[d].activation
             /\ \A n \in Node : dr[d].tgt[n].st = "failed" /\ dp[d].tgt[n].ost = "failed"
                                => dr[d].tgt[n].ost = "failed"
  BY <1>1, <1>3 DEF QuietRow, Withdrawn
<1>4. ASSUME dr[d].status \notin OpenDeployment
      PROVE  \/ dr[d].settle = Settlement(dr[d].tgt)
             \/ dr[d].settle = dp[d].settle /\ dp[d].status = dr[d].status /\ dr[d].tgt = dp[d].tgt
  BY <1>1, <1>4 DEF QuietRow
<1> QED
  BY <1>1, <1>2, <1>3, <1>4 DEF QuietRow

\* Quiet changes keep the rows sound ...
LEMMA QuietSoundRow ==
    ASSUME NEW h, NEW r, NEW q, QuietRow(r, q), SoundRow(h, r)
    PROVE  SoundRow(h, q)
<1>1. \A n \in Node : Columns(q.tgt[n])
  BY DEF SoundRow, QuietRow, Withdrawn
<1>2. ASSUME NEW n \in Node, Unconfirmed(h, q, n)
      PROVE  FALSE
  <2>1. Withdrawn(r.tgt[n], q.tgt[n]) /\ ~Unconfirmed(h, r, n)
    BY DEF SoundRow, QuietRow
  <2>2. r.tgt[n].ost = "none" /\ r.tgt[n].st = q.tgt[n].st
    BY <1>2, <2>1 DEF Unconfirmed, Withdrawn
  <2> QED
    BY <1>2, <2>1, <2>2 DEF Unconfirmed, Withdrawn, QuietRow
<1>3. q.status \in OpenDeployment => q.activation = "waiting"
  BY DEF SoundRow, QuietRow
<1>4. q.status \notin OpenDeployment => q.settle = Settlement(q.tgt)
  BY DEF SoundRow, QuietRow
<1>5. ASSUME q.status \in OpenDeployment, NEW n \in Node
      PROVE  /\ Unsettled(q.tgt[n]) => Unsettled(r.tgt[n])
             /\ Started(q.tgt[n]) => Started(r.tgt[n])
             /\ q.tgt[n].wave = r.tgt[n].wave
  BY <1>5 DEF QuietRow, Withdrawn, Unsettled, Started, OpenTarget
<1>6. Ordered(q)
  BY <1>5 DEF Ordered, SoundRow, QuietRow
<1> QED
  BY <1>1, <1>2, <1>3, <1>4, <1>6 DEF SoundRow

\* ... and, where the release was not refreshed, its failed targets resumable.
LEMMA SteadyResumed ==
    ASSUME NEW r, NEW q, QuietRow(r, q), Steady(r, q), Resumed(r)
    PROVE  Resumed(q)
<1> SUFFICES ASSUME q.status \in {"planned", "running"}, NEW m \in Node,
                    q.tgt[m].st = "failed", q.tgt[m].ost # "failed"
             PROVE  \E k \in Node : q.tgt[k].st \in OpenTarget
                                    /\ q.tgt[k].wave <= q.tgt[m].wave
  BY DEF Resumed
<1>1. q.status \in OpenDeployment /\ r.status = q.status
  BY DEF OpenDeployment, Steady
<1>2. r.tgt[m].st = "failed" /\ r.tgt[m].ost # "failed"
  BY <1>1 DEF QuietRow, Withdrawn
<1>3. PICK k \in Node : r.tgt[k].st \in OpenTarget /\ r.tgt[k].wave <= r.tgt[m].wave
  BY <1>1, <1>2 DEF Resumed
<1>4. q.tgt[k].st = r.tgt[k].st
  BY <1>3 DEF Steady
<1> QED
  BY <1>3, <1>4 DEF QuietRow, Withdrawn

LEMMA QuietHeld ==
    ASSUME NEW dp, NEW dq, NEW nd, NEW ne, Quiet(dp, dq), SameMachines(nd, ne),
           Held(dp, nd)
    PROVE  Held(dq, ne)
<1> SUFFICES ASSUME NEW d \in DOMAIN dp, NEW n \in Node,
                    dq[d].tgt[n].ost \in {"dispatched", "failed"}
             PROVE  Detached(ne, n) /\ dq[d].tgt[n].ep = ne[n].epoch
  BY DEF Held, Quiet
<1>1. Withdrawn(dp[d].tgt[n], dq[d].tgt[n])
  BY DEF Quiet, QuietRow
<1>2. dp[d].tgt[n].ost \in {"dispatched", "failed"} /\ dp[d].tgt[n].ep = dq[d].tgt[n].ep
  BY <1>1 DEF Withdrawn
<1> QED
  BY <1>2 DEF Held, SameMachines, Detached

\* Without new debt, OneDebt and what was sound stays so.
LEMMA QuietAlone ==
    ASSUME NEW dp, NEW dq, Quiet(dp, dq), NEW d, Owes(dp, dq, d, {}), Alone(dp)
    PROVE  Alone(dq)
<1> SUFFICES ASSUME NEW e \in DOMAIN dp, NEW f \in DOMAIN dp, NEW n \in Node,
                    dq[e].tgt[n].ost \in Debt, dq[f].tgt[n].ost \in Debt,
                    dq[e].kind = dq[f].kind, dq[e].tgt[n].ep = dq[f].tgt[n].ep
             PROVE  e = f
  BY DEF Alone, Quiet
<1>1. dp[e].tgt[n].ost \in Debt /\ dp[f].tgt[n].ost \in Debt
  BY DEF Owes
<1>2. /\ dp[e].kind = dq[e].kind /\ dp[f].kind = dq[f].kind
      /\ dp[e].tgt[n].ep = dq[e].tgt[n].ep /\ dp[f].tgt[n].ep = dq[f].tgt[n].ep
  BY DEF Quiet, QuietRow, Withdrawn
<1> QED
  BY <1>1, <1>2 DEF Alone
----------------------------------------------------------------------------
(* What each function on the tables does, target by target.                *)

\* Marking touches only the two applied-state columns.
LEMMA MarkDirtyRows ==
    ASSUME NEW nd \in Nodes, NEW S, NEW kind
    PROVE  \A n \in Node :
              /\ MarkDirty(nd, S, kind)[n].cfg =
                    IF n \in S /\ kind = "config" THEN Unsure ELSE nd[n].cfg
              /\ MarkDirty(nd, S, kind)[n].gr = IF n \in S THEN Unsure ELSE nd[n].gr
              /\ MarkDirty(nd, S, kind)[n].iso = nd[n].iso
              /\ MarkDirty(nd, S, kind)[n].phase = nd[n].phase
              /\ MarkDirty(nd, S, kind)[n].epoch = nd[n].epoch
<1> SUFFICES ASSUME NEW n \in Node
             PROVE
              /\ MarkDirty(nd, S, kind)[n].cfg =
                    IF n \in S /\ kind = "config" THEN Unsure ELSE nd[n].cfg
              /\ MarkDirty(nd, S, kind)[n].gr = IF n \in S THEN Unsure ELSE nd[n].gr
              /\ MarkDirty(nd, S, kind)[n].iso = nd[n].iso
              /\ MarkDirty(nd, S, kind)[n].phase = nd[n].phase
              /\ MarkDirty(nd, S, kind)[n].epoch = nd[n].epoch
  OBVIOUS
<1> DEFINE put == [nd[n] EXCEPT !.cfg = IF kind = "config" THEN Unsure ELSE @, !.gr = Unsure]
<1>1. MarkDirty(nd, S, kind)[n] = IF n \notin S THEN nd[n] ELSE put
  BY DEF MarkDirty
<1>2. nd[n] \in NodeRow
  BY DEF Nodes
<1>3. /\ put.cfg = IF kind = "config" THEN Unsure ELSE nd[n].cfg
      /\ put.gr = Unsure
      /\ put.iso = nd[n].iso /\ put.phase = nd[n].phase /\ put.epoch = nd[n].epoch
  BY <1>2 DEF NodeRow
<1> HIDE DEF put
<1> QED
  BY <1>1, <1>3

\* One target after insert_or_supersede_obligation_tx.
Obliged(dp, d, S, e, n, t, u) ==
    LET replaced == n \in S /\ e \in Replaced(dp, d, n)
    IN  /\ u.wave = t.wave /\ u.disr = t.disr /\ u.ep = t.ep /\ u.fz = t.fz
        /\ u.st = IF replaced /\ t.st \in {"deferred", "failed"} THEN "superseded" ELSE t.st
        /\ u.ost = IF e = d /\ n \in S THEN "pending"
                   ELSE IF replaced THEN "superseded" ELSE t.ost

\* The table after it: its own row keeps its settlement, which is not closed yet.
ObligedTable(dp, d, S, dq) ==
    /\ DOMAIN dq = DOMAIN dp
    /\ \A e \in DOMAIN dp :
          /\ dq[e].kind = dp[e].kind /\ dq[e].rev = dp[e].rev
          /\ dq[e].status = dp[e].status /\ dq[e].activation = dp[e].activation
          /\ dq[e].confirmed = dp[e].confirmed
          /\ \A n \in Node : Obliged(dp, d, S, e, n, dp[e].tgt[n], dq[e].tgt[n])
          /\ e # d => dq[e] = dp[e] \/ dq[e].settle = Settlement(dq[e].tgt)

LEMMA ObligeRows ==
    ASSUME NEW h, NEW dp \in Table, NEW d \in DOMAIN dp, NEW S \in SUBSET Node
    PROVE  ObligedTable(dp, d, S, Oblige(h, dp, d, S))
<1> DEFINE hit(e) == {n \in S : e \in Replaced(dp, d, n)}
           close(e, n) ==
              [dp[e].tgt[n] EXCEPT
                  !.ost = "superseded",
                  !.st = IF @ \in {"deferred", "failed"} THEN "superseded" ELSE @]
           closed(e) == [n \in Node |-> IF n \notin hit(e) THEN dp[e].tgt[n]
                                        ELSE close(e, n)]
           owe(n) ==
              [closed(d)[n] EXCEPT
                  !.ost = "pending", !.claim = 0,
                  !.ogr = IF dp[d].kind = "config"
                          THEN GrantsAt(h, dp[d].rev, n) ELSE dp[d].tgt[n].gr]
           owing == [n \in Node |-> IF n \notin S THEN closed(d)[n] ELSE owe(n)]
           row(e) == IF e = d THEN [dp[d] EXCEPT !.tgt = owing]
                     ELSE IF hit(e) = {} THEN dp[e]
                     ELSE [dp[e] EXCEPT !.tgt = closed(e),
                                        !.settle = Settlement(closed(e))]
           dq == Oblige(h, dp, d, S)
<1>1. DOMAIN dq = DOMAIN dp /\ \A e \in DOMAIN dp : dq[e] = row(e)
  BY DEF Oblige
<1>2. ASSUME NEW e \in DOMAIN dp, NEW n \in Node
      PROVE  LET replaced == n \in S /\ e \in Replaced(dp, d, n)
                 t == dp[e].tgt[n]
                 u == closed(e)[n]
             IN  /\ u.wave = t.wave /\ u.disr = t.disr /\ u.ep = t.ep /\ u.fz = t.fz
                 /\ u.st = IF replaced /\ t.st \in {"deferred", "failed"}
                           THEN "superseded" ELSE t.st
                 /\ u.ost = IF replaced THEN "superseded" ELSE t.ost
                 /\ u \in Target
  <2>1. dp[e].tgt[n] \in Target
    BY RowType
  <2>2. /\ close(e, n).wave = dp[e].tgt[n].wave /\ close(e, n).disr = dp[e].tgt[n].disr
        /\ close(e, n).ep = dp[e].tgt[n].ep /\ close(e, n).fz = dp[e].tgt[n].fz
        /\ close(e, n).ost = "superseded"
        /\ close(e, n).st = IF dp[e].tgt[n].st \in {"deferred", "failed"}
                            THEN "superseded" ELSE dp[e].tgt[n].st
        /\ close(e, n) \in Target
    BY <2>1 DEF Target
  <2>3. closed(e)[n] = IF n \in S /\ e \in Replaced(dp, d, n) THEN close(e, n)
                       ELSE dp[e].tgt[n]
    OBVIOUS
  <2> HIDE DEF close, closed
  <2> QED
    BY <2>1, <2>2, <2>3
<1>3. ASSUME NEW n \in Node
      PROVE  LET u == owing[n]
                 c == closed(d)[n]
             IN  /\ u.wave = c.wave /\ u.disr = c.disr /\ u.ep = c.ep /\ u.fz = c.fz
                 /\ u.st = c.st
                 /\ u.ost = IF n \in S THEN "pending" ELSE c.ost
  <2>1. closed(d)[n] \in Target
    BY <1>2
  <2> HIDE DEF closed
  <2> QED
    BY <2>1 DEF Target
<1>4. ASSUME NEW e \in DOMAIN dp
      PROVE  /\ row(e).kind = dp[e].kind /\ row(e).rev = dp[e].rev
             /\ row(e).status = dp[e].status
             /\ row(e).activation = dp[e].activation
             /\ row(e).confirmed = dp[e].confirmed
             /\ row(e).tgt = IF e = d THEN owing ELSE IF hit(e) = {} THEN dp[e].tgt
                             ELSE closed(e)
             /\ e # d => row(e) = dp[e] \/ row(e).settle = Settlement(row(e).tgt)
  <2>1. dp[e] \in DeploymentRow
    BY RowType
  <2> HIDE DEF closed, owing, hit
  <2> QED
    BY <2>1 DEF DeploymentRow
<1>5. ASSUME NEW e \in DOMAIN dp, NEW n \in Node
      PROVE  Obliged(dp, d, S, e, n, dp[e].tgt[n], row(e).tgt[n])
  <2> HIDE DEF closed, owing, row
  <2>1. CASE e = d
    BY <1>2, <1>3, <1>4, <2>1 DEF Obliged
  <2>2. CASE e # d /\ hit(e) = {}
    BY <1>4, <2>2 DEF Obliged
  <2>3. CASE e # d /\ hit(e) # {}
    BY <1>2, <1>4, <2>3 DEF Obliged
  <2> QED
    BY <2>1, <2>2, <2>3
<1>6. ASSUME NEW e \in DOMAIN dp
      PROVE  /\ row(e).kind = dp[e].kind /\ row(e).rev = dp[e].rev
             /\ row(e).status = dp[e].status
             /\ row(e).activation = dp[e].activation
             /\ row(e).confirmed = dp[e].confirmed
             /\ e # d => row(e) = dp[e] \/ row(e).settle = Settlement(row(e).tgt)
  <2> HIDE DEF row
  <2> QED
    BY <1>4
<1> HIDE DEF row
<1>7. DOMAIN dq = DOMAIN dp
  BY <1>1
<1>8. ASSUME NEW e \in DOMAIN dp
      PROVE  /\ dq[e].kind = dp[e].kind /\ dq[e].rev = dp[e].rev
             /\ dq[e].status = dp[e].status
             /\ dq[e].activation = dp[e].activation
             /\ dq[e].confirmed = dp[e].confirmed
             /\ \A n \in Node : Obliged(dp, d, S, e, n, dp[e].tgt[n], dq[e].tgt[n])
             /\ e # d => dq[e] = dp[e] \/ dq[e].settle = Settlement(dq[e].tgt)
  <2>1. dq[e] = row(e)
    BY <1>1
  <2> HIDE DEF dq
  <2> QED
    BY <1>5, <1>6, <2>1
<1> QED
  BY <1>7, <1>8, Zenon DEF ObligedTable

\* One target after cancel_deployment_tx.
Canceled(t, u) ==
    /\ u.wave = t.wave /\ u.disr = t.disr /\ u.ep = t.ep /\ u.fz = Null
    /\ u.st = IF t.st \in OpenTarget \cup {"deferred"} THEN "canceled" ELSE t.st
    /\ u.ost = IF t.ost \in Debt THEN "canceled" ELSE t.ost

LEMMA CancelRows ==
    ASSUME NEW dp \in Table, NEW D
    PROVE  /\ DOMAIN Cancel(dp, D) = DOMAIN dp
           /\ \A d \in DOMAIN dp :
                 /\ Cancel(dp, D)[d].kind = dp[d].kind
                 /\ Cancel(dp, D)[d].rev = dp[d].rev
                 /\ Cancel(dp, D)[d].confirmed = dp[d].confirmed
                 /\ d \notin D => Cancel(dp, D)[d] = dp[d]
                 /\ d \in D =>
                       /\ Cancel(dp, D)[d].status = "canceled"
                       /\ Cancel(dp, D)[d].settle = "converged"
                       /\ \A n \in Node : Canceled(dp[d].tgt[n], Cancel(dp, D)[d].tgt[n])
<1> DEFINE put(d, n) ==
              [dp[d].tgt[n] EXCEPT !.ost = IF @ \in Debt THEN "canceled" ELSE @,
                                   !.st = IF @ \in OpenTarget \cup {"deferred"}
                                          THEN "canceled" ELSE @,
                                   !.fz = Null]
           tgt(d) == [n \in Node |-> put(d, n)]
           row(d) == IF d \notin D THEN dp[d]
                     ELSE [dp[d] EXCEPT !.status = "canceled", !.activation = "rejected",
                                        !.settle = "converged", !.tgt = tgt(d)]
<1>1. DOMAIN Cancel(dp, D) = DOMAIN dp /\ \A d \in DOMAIN dp : Cancel(dp, D)[d] = row(d)
  BY DEF Cancel
<1>2. ASSUME NEW d \in DOMAIN dp, NEW n \in Node
      PROVE  Canceled(dp[d].tgt[n], put(d, n))
  <2>1. dp[d].tgt[n] \in Target
    BY RowType
  <2> QED
    BY <2>1 DEF Target, Canceled
<1> HIDE DEF put
<1>3. ASSUME NEW d \in DOMAIN dp
      PROVE  /\ row(d).kind = dp[d].kind /\ row(d).rev = dp[d].rev
             /\ row(d).confirmed = dp[d].confirmed
             /\ d \notin D => row(d) = dp[d]
             /\ d \in D => /\ row(d).status = "canceled" /\ row(d).settle = "converged"
                           /\ row(d).tgt = tgt(d)
  <2>1. dp[d] \in DeploymentRow
    BY RowType
  <2> HIDE DEF tgt
  <2> QED
    BY <2>1 DEF DeploymentRow
<1>4. ASSUME NEW d \in DOMAIN dp, d \in D, NEW n \in Node
      PROVE  Canceled(dp[d].tgt[n], Cancel(dp, D)[d].tgt[n])
  <2>1. Cancel(dp, D)[d].tgt = tgt(d)
    BY <1>1, <1>3, <1>4, Zenon
  <2> QED
    BY <1>2, <2>1
<1> HIDE DEF row, tgt
<1>5. ASSUME NEW d \in DOMAIN dp
      PROVE  /\ Cancel(dp, D)[d].kind = dp[d].kind
             /\ Cancel(dp, D)[d].rev = dp[d].rev
             /\ Cancel(dp, D)[d].confirmed = dp[d].confirmed
             /\ d \notin D => Cancel(dp, D)[d] = dp[d]
             /\ d \in D => /\ Cancel(dp, D)[d].status = "canceled"
                           /\ Cancel(dp, D)[d].settle = "converged"
  BY <1>1, <1>3
<1> QED
  BY <1>1, <1>4, <1>5, Zenon

\* One target after advance_intent_tx.
Advances(t, u) ==
    /\ u.wave = t.wave /\ u.disr = t.disr /\ u.ep = t.ep /\ u.fz = t.fz
    /\ u.st = IF t.ost \in Debt /\ t.st \in {"deferred", "failed"} THEN "canceled" ELSE t.st
    /\ u.ost = IF t.ost \in Debt THEN "canceled" ELSE t.ost

LEMMA AdvanceIntentRows ==
    ASSUME NEW dp \in Table, NEW n \in Node
    PROVE  /\ DOMAIN AdvanceIntent(dp, n) = DOMAIN dp
           /\ \A d \in DOMAIN dp :
                 /\ AdvanceIntent(dp, n)[d].kind = dp[d].kind
                 /\ AdvanceIntent(dp, n)[d].rev = dp[d].rev
                 /\ AdvanceIntent(dp, n)[d].status = dp[d].status
                 /\ AdvanceIntent(dp, n)[d].activation = dp[d].activation
                 /\ AdvanceIntent(dp, n)[d].confirmed = dp[d].confirmed
                 /\ \A m \in Node \ {n} : AdvanceIntent(dp, n)[d].tgt[m] = dp[d].tgt[m]
                 /\ Advances(dp[d].tgt[n], AdvanceIntent(dp, n)[d].tgt[n])
                 /\ \/ AdvanceIntent(dp, n)[d] = dp[d]
                    \/ AdvanceIntent(dp, n)[d].settle =
                          Settlement(AdvanceIntent(dp, n)[d].tgt)
<1> DEFINE close(d) ==
              [dp[d].tgt[n] EXCEPT
                  !.ost = "canceled",
                  !.st = IF @ \in {"deferred", "failed"} THEN "canceled" ELSE @]
           tgt(d) == IF dp[d].tgt[n].ost \notin Debt THEN dp[d].tgt
                     ELSE [dp[d].tgt EXCEPT ![n] = close(d)]
           row(d) == IF dp[d].tgt[n].ost = "none" THEN dp[d]
                     ELSE [dp[d] EXCEPT !.tgt = tgt(d), !.settle = Settlement(tgt(d))]
<1>1. /\ DOMAIN AdvanceIntent(dp, n) = DOMAIN dp
      /\ \A d \in DOMAIN dp : AdvanceIntent(dp, n)[d] = row(d)
  BY DEF AdvanceIntent
<1>2. ASSUME NEW d \in DOMAIN dp
      PROVE  /\ Advances(dp[d].tgt[n], tgt(d)[n])
             /\ \A m \in Node \ {n} : tgt(d)[m] = dp[d].tgt[m]
  <2>1. dp[d].tgt[n] \in Target /\ dp[d].tgt \in [Node -> Target]
    BY RowType DEF DeploymentRow
  <2>2. dp[d].tgt[n].ost \in Debt => Advances(dp[d].tgt[n], close(d))
    BY <2>1 DEF Target, Advances
  <2> HIDE DEF close
  <2>3. CASE dp[d].tgt[n].ost \in Debt
    BY <2>1, <2>2, <2>3
  <2>4. CASE dp[d].tgt[n].ost \notin Debt
    BY <2>4 DEF Advances
  <2> QED
    BY <2>3, <2>4
<1>3. ASSUME NEW d \in DOMAIN dp
      PROVE  /\ row(d).kind = dp[d].kind /\ row(d).rev = dp[d].rev
             /\ row(d).status = dp[d].status /\ row(d).activation = dp[d].activation
             /\ row(d).confirmed = dp[d].confirmed
             /\ row(d).tgt = IF dp[d].tgt[n].ost = "none" THEN dp[d].tgt ELSE tgt(d)
             /\ row(d) = dp[d] \/ row(d).settle = Settlement(row(d).tgt)
  <2>1. dp[d] \in DeploymentRow
    BY RowType
  <2> HIDE DEF tgt
  <2> QED
    BY <2>1 DEF DeploymentRow
<1>4. ASSUME NEW d \in DOMAIN dp
      PROVE  /\ Advances(dp[d].tgt[n], row(d).tgt[n])
             /\ \A m \in Node \ {n} : row(d).tgt[m] = dp[d].tgt[m]
  <2> HIDE DEF row, tgt
  <2>1. CASE dp[d].tgt[n].ost = "none"
    BY <1>3, <2>1 DEF Advances, Debt
  <2>2. CASE dp[d].tgt[n].ost # "none"
    BY <1>2, <1>3, <2>2
  <2> QED
    BY <2>1, <2>2
<1> DEFINE dq == AdvanceIntent(dp, n)
<1>5. ASSUME NEW d \in DOMAIN dp
      PROVE  /\ dq[d].kind = dp[d].kind /\ dq[d].rev = dp[d].rev
             /\ dq[d].status = dp[d].status /\ dq[d].activation = dp[d].activation
             /\ dq[d].confirmed = dp[d].confirmed
             /\ \A m \in Node \ {n} : dq[d].tgt[m] = dp[d].tgt[m]
             /\ Advances(dp[d].tgt[n], dq[d].tgt[n])
             /\ dq[d] = dp[d] \/ dq[d].settle = Settlement(dq[d].tgt)
  <2>1. dq[d] = row(d)
    BY <1>1
  <2>2. /\ row(d).kind = dp[d].kind /\ row(d).rev = dp[d].rev
        /\ row(d).status = dp[d].status /\ row(d).activation = dp[d].activation
        /\ row(d).confirmed = dp[d].confirmed
        /\ row(d) = dp[d] \/ row(d).settle = Settlement(row(d).tgt)
    BY <1>3, Zenon
  <2> HIDE DEF dq, row
  <2> QED
    BY <1>4, <2>1, <2>2
<1> QED
  BY <1>1, <1>5, Zenon

\* A release after refresh_deployment_status.
RefreshedRow(r, q) ==
    /\ q.kind = r.kind /\ q.rev = r.rev /\ q.confirmed = r.confirmed /\ q.tgt = r.tgt
    /\ \/ q.status = "halted" /\ q.activation = r.activation
       \/ /\ q.status = "succeeded"
          /\ q.settle = Settlement(r.tgt)
          /\ \A n \in Node : r.tgt[n].st \notin OpenTarget \cup {"failed"}
       \/ /\ q.status = "running" /\ q.activation = r.activation
          /\ \A n \in Node : r.tgt[n].st # "failed"

LEMMA RefreshRows ==
    ASSUME NEW dp \in Table, NEW nd, NEW d \in DOMAIN dp
    PROVE  /\ DOMAIN Refresh(dp, nd, d) = DOMAIN dp
           /\ RefreshedRow(dp[d], Refresh(dp, nd, d)[d])
           /\ \A e \in DOMAIN dp : e # d => Refresh(dp, nd, d)[e] = dp[e]
<1> DEFINE t == dp[d].tgt
           activation == IF CoversFleet(dp, nd, d) THEN "activated" ELSE dp[d].activation
           settle == IF \E n \in Node : t[n].ost \in Debt THEN "debt" ELSE dp[d].settle
           failed == \E n \in Node : t[n].st = "failed"
           over   == OpenNodes(dp, d) = {}
<1>1. dp[d] \in DeploymentRow
  BY RowType
<1>2. Refreshed(dp, nd, d) =
        IF failed THEN [dp[d] EXCEPT !.status = "halted", !.settle = "uncertain"]
        ELSE IF over
        THEN [dp[d] EXCEPT !.status = "succeeded", !.settle = Settlement(t),
                           !.activation = activation]
        ELSE [dp[d] EXCEPT !.status = "running", !.settle = settle]
  BY DEF Refreshed
<1>3. RefreshedRow(dp[d], Refreshed(dp, nd, d))
  <2>1. CASE failed
    BY <1>1, <1>2, <2>1 DEF DeploymentRow, RefreshedRow
  <2>2. CASE ~failed /\ over
    <3>1. \A n \in Node : t[n].st \notin OpenTarget \cup {"failed"}
      BY <2>2 DEF OpenNodes
    <3> HIDE DEF activation
    <3>2. Refreshed(dp, nd, d) = [dp[d] EXCEPT !.status = "succeeded",
                                     !.settle = Settlement(t), !.activation = activation]
      BY <1>2, <2>2
    <3> QED
      BY <1>1, <3>1, <3>2 DEF DeploymentRow, RefreshedRow
  <2>3. CASE ~failed /\ ~over
    <3> HIDE DEF settle, over
    <3>1. Refreshed(dp, nd, d) = [dp[d] EXCEPT !.status = "running", !.settle = settle]
      BY <1>2, <2>3
    <3> QED
      BY <1>1, <2>3, <3>1 DEF DeploymentRow, RefreshedRow
  <2> QED
    BY <2>1, <2>2, <2>3
<1> QED
  BY <1>3 DEF Refresh
----------------------------------------------------------------------------
(* Obliging: a new obligation replaces the debt it makes pointless.        *)

LEMMA ObligeQuiet ==
    ASSUME NEW h, NEW dp \in Table, NEW d \in DOMAIN dp, NEW S \in SUBSET Node,
           Open(dp, d), \A n \in S : dp[d].tgt[n].st = "deferred"
    PROVE  /\ Quiet(dp, Oblige(h, dp, d, S))
           /\ \A e \in DOMAIN dp : Steady(dp[e], Oblige(h, dp, d, S)[e])
           /\ Owes(dp, Oblige(h, dp, d, S), d, S)
<1> DEFINE dq == Oblige(h, dp, d, S)
<1>a. ObligedTable(dp, d, S, dq)
  BY ObligeRows
<1> HIDE DEF dq
<1>1. /\ DOMAIN dq = DOMAIN dp
      /\ \A e \in DOMAIN dp :
            /\ dq[e].kind = dp[e].kind /\ dq[e].rev = dp[e].rev
            /\ dq[e].status = dp[e].status /\ dq[e].activation = dp[e].activation
            /\ dq[e].confirmed = dp[e].confirmed
            /\ \A n \in Node : Obliged(dp, d, S, e, n, dp[e].tgt[n], dq[e].tgt[n])
            /\ e # d => dq[e] = dp[e] \/ dq[e].settle = Settlement(dq[e].tgt)
  BY <1>a DEF ObligedTable
<1>2. ASSUME NEW e \in DOMAIN dp, NEW n \in Node
      PROVE  /\ Withdrawn(dp[e].tgt[n], dq[e].tgt[n])
             /\ dq[e].tgt[n].st = "failed" /\ dp[e].tgt[n].ost = "failed"
                   => dq[e].tgt[n].ost = "failed"
             /\ dp[e].tgt[n].st \in OpenTarget => dq[e].tgt[n].st = dp[e].tgt[n].st
             /\ dq[e].tgt[n].ost \in Debt => dp[e].tgt[n].ost \in Debt \/ (e = d /\ n \in S)
  <2> DEFINE t == dp[e].tgt[n]
             u == dq[e].tgt[n]
  <2>1. Obliged(dp, d, S, e, n, t, u) /\ (e = d /\ n \in S => t.st = "deferred")
    BY <1>1
  <2> HIDE DEF t, u
  <2>2. /\ u.wave = t.wave /\ u.disr = t.disr /\ u.ep = t.ep /\ u.fz = t.fz
        /\ u.st = t.st \/ (u.st = "superseded" /\ t.st \in {"deferred", "failed"})
        /\ \/ u.ost = "pending" /\ e = d /\ n \in S
           \/ u.ost = "superseded" /\ u.st \notin {"deferred", "failed"}
           \/ u.ost = t.ost /\ u.st = t.st
    BY <2>1 DEF Obliged
  <2>3. Columns(t) => Columns(u)
    BY <2>1, <2>2 DEF Columns, OpenTarget
  <2>4. Withdrawn(t, u)
    BY <2>2, <2>3 DEF Withdrawn
  <2>5. /\ u.st = "failed" /\ t.ost = "failed" => u.ost = "failed"
        /\ t.st \in OpenTarget => u.st = t.st
        /\ u.ost \in Debt => t.ost \in Debt \/ (e = d /\ n \in S)
    BY <2>1, <2>2 DEF OpenTarget, Debt
  <2> QED
    BY <2>4, <2>5 DEF t, u
<1>3. ASSUME NEW e \in DOMAIN dp
      PROVE  QuietRow(dp[e], dq[e])
  BY <1>1, <1>2 DEF QuietRow, Open
<1> QED
  BY <1>1, <1>2, <1>3 DEF Quiet, Steady, Owes, dq

\* insert_or_supersede_obligation_tx leaves one debt of a kind and an epoch.
LEMMA ObligeAlone ==
    ASSUME NEW h, NEW dp \in Table, NEW d \in DOMAIN dp, NEW S \in SUBSET Node, Alone(dp)
    PROVE  Alone(Oblige(h, dp, d, S))
<1> DEFINE dq == Oblige(h, dp, d, S)
<1>a. ObligedTable(dp, d, S, dq)
  BY ObligeRows
<1>1. /\ DOMAIN dq = DOMAIN dp
      /\ \A e \in DOMAIN dp :
            /\ dq[e].kind = dp[e].kind
            /\ \A n \in Node : Obliged(dp, d, S, e, n, dp[e].tgt[n], dq[e].tgt[n])
  <2> HIDE DEF dq
  <2> QED
    BY <1>a DEF ObligedTable
<1> HIDE DEF dq
<1> SUFFICES ASSUME NEW e \in DOMAIN dp, NEW f \in DOMAIN dp, NEW n \in Node,
                    dq[e].tgt[n].ost \in Debt, dq[f].tgt[n].ost \in Debt,
                    dq[e].kind = dq[f].kind, dq[e].tgt[n].ep = dq[f].tgt[n].ep
             PROVE  e = f
  BY <1>1 DEF Alone, dq
<1>2. dp[e].kind = dp[f].kind /\ dp[e].tgt[n].ep = dp[f].tgt[n].ep
  BY <1>1 DEF Obliged
<1>3. ASSUME NEW g \in DOMAIN dp, g # d \/ n \notin S, dq[g].tgt[n].ost \in Debt
      PROVE  dp[g].tgt[n].ost \in Debt /\ ~(n \in S /\ g \in Replaced(dp, d, n))
  BY <1>1, <1>3 DEF Obliged, Debt
<1>4. CASE n \notin S
  BY <1>2, <1>3, <1>4 DEF Alone
<1>5. CASE n \in S /\ e # d /\ f # d
  BY <1>2, <1>3, <1>5 DEF Alone
<1>6. CASE n \in S /\ e # d /\ f = d
  BY <1>2, <1>3, <1>6 DEF Replaced
<1>7. CASE n \in S /\ e = d /\ f # d
  BY <1>2, <1>3, <1>7 DEF Replaced
<1> QED
  BY <1>4, <1>5, <1>6, <1>7

\* A replaced obligation that was out leaves the machine's row dirty.
LEMMA ObligeCovered ==
    ASSUME NEW h, NEW dp \in Table, NEW d \in DOMAIN dp, NEW S \in SUBSET Node,
           NEW nd \in Nodes
    PROVE  Covered(dp, nd, Oblige(h, dp, d, S),
                   MarkDirty(nd, ObligedInFlight(dp, d, S), dp[d].kind))
<1> DEFINE dq == Oblige(h, dp, d, S)
           X  == ObligedInFlight(dp, d, S)
           ne == MarkDirty(nd, X, dp[d].kind)
<1>a. ObligedTable(dp, d, S, dq)
  BY ObligeRows
<1>1. /\ DOMAIN dq = DOMAIN dp
      /\ \A e \in DOMAIN dp :
            /\ dq[e].kind = dp[e].kind /\ dq[e].status = dp[e].status
            /\ \A n \in Node : Obliged(dp, d, S, e, n, dp[e].tgt[n], dq[e].tgt[n])
  <2> HIDE DEF dq
  <2> QED
    BY <1>a DEF ObligedTable
<1>2. \A n \in Node :
         /\ ne[n].cfg = IF n \in X /\ dp[d].kind = "config" THEN Unsure ELSE nd[n].cfg
         /\ ne[n].gr = IF n \in X THEN Unsure ELSE nd[n].gr
  BY MarkDirtyRows
<1> HIDE DEF dq, ne, X
<1>3. ASSUME NEW e \in DOMAIN dp, NEW n \in Node, Out(dp, e, n)
      PROVE  \/ Out(dq, e, n)
             \/ ne[n].gr = Unsure /\ (dp[e].kind = "config" => ne[n].cfg = Unsure)
  <2>1. CASE Open(dp, e) /\ dp[e].tgt[n].st = "dispatched"
    BY <1>1, <2>1 DEF Out, Open, Obliged
  <2>2. CASE dp[e].tgt[n].ost = "dispatched" /\ n \in S /\ e \in Replaced(dp, d, n)
    <3>1. n \in X
      BY <2>2 DEF X, ObligedInFlight
    <3>2. dp[e].kind = "config" => dp[d].kind = "config"
      BY <2>2 DEF Replaced
    <3> QED
      BY <1>2, <3>1, <3>2
  <2>3. CASE dp[e].tgt[n].ost = "dispatched" /\ ~(n \in S /\ e \in Replaced(dp, d, n))
    <3>1. ~(e = d /\ n \in S)
      BY <2>3 DEF Replaced, Debt
    <3> QED
      BY <1>1, <2>3, <3>1 DEF Obliged, Out
  <2> QED
    BY <1>3, <2>1, <2>2, <2>3 DEF Out
<1> QED
  BY <1>1, <1>2, <1>3 DEF Covered, dq, ne, X
----------------------------------------------------------------------------
(* Canceling, advancing and refreshing.                                    *)

LEMMA CancelQuiet ==
    ASSUME NEW dp \in Table, NEW D
    PROVE  /\ Quiet(dp, Cancel(dp, D))
           /\ \A d \in DOMAIN dp : Steady(dp[d], Cancel(dp, D)[d])
           /\ Owes(dp, Cancel(dp, D), 0, {})
<1> DEFINE dq == Cancel(dp, D)
<1>1. /\ DOMAIN dq = DOMAIN dp
      /\ \A d \in DOMAIN dp :
            /\ dq[d].kind = dp[d].kind /\ dq[d].rev = dp[d].rev
            /\ dq[d].confirmed = dp[d].confirmed
            /\ d \notin D => dq[d] = dp[d]
            /\ d \in D => /\ dq[d].status = "canceled" /\ dq[d].settle = "converged"
                          /\ \A n \in Node : Canceled(dp[d].tgt[n], dq[d].tgt[n])
  BY CancelRows
<1> HIDE DEF dq
<1>2. ASSUME NEW d \in DOMAIN dp, d \notin D
      PROVE  /\ QuietRow(dp[d], dq[d]) /\ Steady(dp[d], dq[d])
             /\ \A n \in Node : dq[d].tgt[n].ost \in Debt => dp[d].tgt[n].ost \in Debt
  <2>1. dq[d] = dp[d]
    BY <1>1, <1>2
  <2> QED
    BY <2>1 DEF QuietRow, Withdrawn, Steady
<1>3. ASSUME NEW d \in DOMAIN dp, d \in D
      PROVE  /\ QuietRow(dp[d], dq[d]) /\ Steady(dp[d], dq[d])
             /\ \A n \in Node : dq[d].tgt[n].ost \in Debt => dp[d].tgt[n].ost \in Debt
  <2>1. \A n \in Node : Canceled(dp[d].tgt[n], dq[d].tgt[n])
    BY <1>1, <1>3
  <2>2. \A n \in Node : Withdrawn(dp[d].tgt[n], dq[d].tgt[n]) /\ dq[d].tgt[n].ost \notin Debt
    BY <2>1 DEF Canceled, Withdrawn, Columns, Debt, OpenTarget
  <2>3. dq[d].settle = Settlement(dq[d].tgt)
    BY <1>1, <1>3, <2>2 DEF Settlement, Debt, OpenTarget
  <2>4. dq[d].status \notin OpenDeployment
    BY <1>1, <1>3 DEF OpenDeployment
  <2>5. dq[d].status \notin {"planned", "running"}
    BY <1>1, <1>3
  <2>6. QuietRow(dp[d], dq[d])
    BY <1>1, <2>2, <2>3, <2>4 DEF QuietRow
  <2> QED
    BY <2>2, <2>5, <2>6 DEF Steady
<1> QED
  BY <1>1, <1>2, <1>3 DEF Quiet, Owes, dq

\* cancel_deployment_tx remembers the agents that may be executing.
LEMMA CancelCovered ==
    ASSUME NEW dp \in Table, NEW nd \in Nodes, NEW D
    PROVE  /\ Covered(dp, nd, Cancel(dp, D), CancelDirty(dp, nd, D))
           /\ SameMachines(nd, CancelDirty(dp, nd, D))
<1> DEFINE dq == Cancel(dp, D)
           C  == Executing(dp, D, "config")
           G  == Executing(dp, D, "grants")
           n1 == MarkDirty(nd, C, "config")
           ne == MarkDirty(n1, G, "grants")
<1>1. /\ DOMAIN dq = DOMAIN dp
      /\ \A d \in DOMAIN dp : /\ dq[d].kind = dp[d].kind
                              /\ d \notin D => dq[d] = dp[d]
  BY CancelRows
<1>2. n1 \in Nodes
  BY MarkDirtyType
<1>3. \A n \in Node :
         /\ n1[n].cfg = IF n \in C THEN Unsure ELSE nd[n].cfg
         /\ n1[n].gr = IF n \in C THEN Unsure ELSE nd[n].gr
         /\ n1[n].iso = nd[n].iso /\ n1[n].phase = nd[n].phase /\ n1[n].epoch = nd[n].epoch
  BY MarkDirtyRows
<1>4. \A n \in Node :
         /\ ne[n].cfg = n1[n].cfg
         /\ ne[n].gr = IF n \in G THEN Unsure ELSE n1[n].gr
         /\ ne[n].iso = n1[n].iso /\ ne[n].phase = n1[n].phase /\ ne[n].epoch = n1[n].epoch
  <2> HIDE DEF n1
  <2> QED
    BY <1>2, MarkDirtyRows
<1>5. CancelDirty(dp, nd, D) = ne
  BY DEF CancelDirty
<1> HIDE DEF dq, n1, ne, C, G
<1>6. ASSUME NEW d \in DOMAIN dp, NEW n \in Node, Out(dp, d, n)
      PROVE  \/ Out(dq, d, n)
             \/ ne[n].gr = Unsure /\ (dp[d].kind = "config" => ne[n].cfg = Unsure)
  <2>1. CASE d \notin D
    BY <1>1, <1>6, <2>1 DEF Out, Open
  <2>2. CASE d \in D
    <3>1. dp[d].kind \in {"config", "grants"}
      BY RowType DEF DeploymentRow, Kind
    <3>2. n \in C \/ (n \in G /\ dp[d].kind = "grants")
      BY <1>6, <2>2, <3>1 DEF Out, C, G, Executing
    <3> QED
      BY <1>3, <1>4, <3>2
  <2> QED
    BY <2>1, <2>2
<1>7. Covered(dp, nd, dq, ne)
  BY <1>1, <1>3, <1>4, <1>6 DEF Covered
<1> QED
  BY <1>3, <1>4, <1>5, <1>7 DEF SameMachines, dq

LEMMA AdvanceIntentQuiet ==
    ASSUME NEW dp \in Table, NEW n \in Node
    PROVE  /\ Quiet(dp, AdvanceIntent(dp, n))
           /\ \A d \in DOMAIN dp : Steady(dp[d], AdvanceIntent(dp, n)[d])
           /\ Owes(dp, AdvanceIntent(dp, n), 0, {})
           /\ \A d \in DOMAIN dp : AdvanceIntent(dp, n)[d].tgt[n].ost \notin Debt
<1> DEFINE dq == AdvanceIntent(dp, n)
<1>1. /\ DOMAIN dq = DOMAIN dp
      /\ \A d \in DOMAIN dp :
            /\ dq[d].kind = dp[d].kind /\ dq[d].rev = dp[d].rev
            /\ dq[d].status = dp[d].status /\ dq[d].activation = dp[d].activation
            /\ dq[d].confirmed = dp[d].confirmed
            /\ \A m \in Node \ {n} : dq[d].tgt[m] = dp[d].tgt[m]
            /\ Advances(dp[d].tgt[n], dq[d].tgt[n])
            /\ dq[d] = dp[d] \/ dq[d].settle = Settlement(dq[d].tgt)
  BY AdvanceIntentRows
<1> HIDE DEF dq
<1>2. ASSUME NEW d \in DOMAIN dp
      PROVE  LET t == dp[d].tgt[n]
                 u == dq[d].tgt[n]
             IN  /\ Withdrawn(t, u)
                 /\ u.ost \notin Debt
                 /\ u.st = "failed" /\ t.ost = "failed" => u.ost = "failed"
                 /\ t.st \in OpenTarget => u.st = t.st
  <2> DEFINE t == dp[d].tgt[n]
             u == dq[d].tgt[n]
  <2>1. Advances(t, u)
    BY <1>1
  <2> HIDE DEF t, u
  <2>2. Columns(t) => Columns(u)
    BY <2>1 DEF Advances, Columns, Debt, OpenTarget
  <2>3. /\ Withdrawn(t, u)
        /\ u.ost \notin Debt
        /\ u.st = "failed" /\ t.ost = "failed" => u.ost = "failed"
        /\ t.st \in OpenTarget => u.st = t.st
    BY <2>1, <2>2 DEF Advances, Withdrawn, Debt, OpenTarget
  <2> QED
    BY <2>3 DEF t, u
<1>3. ASSUME NEW d \in DOMAIN dp, NEW m \in Node
      PROVE  /\ Withdrawn(dp[d].tgt[m], dq[d].tgt[m])
             /\ dq[d].tgt[m].st = "failed" /\ dp[d].tgt[m].ost = "failed"
                   => dq[d].tgt[m].ost = "failed"
             /\ dp[d].tgt[m].st \in OpenTarget => dq[d].tgt[m].st = dp[d].tgt[m].st
             /\ dq[d].tgt[m].ost \in Debt => dp[d].tgt[m].ost \in Debt
  <2>1. CASE m = n
    BY <1>2, <2>1
  <2>2. CASE m # n
    <3>1. dq[d].tgt[m] = dp[d].tgt[m]
      BY <1>1, <2>2
    <3> QED
      BY <3>1 DEF Withdrawn
  <2> QED
    BY <2>1, <2>2
<1>4. ASSUME NEW d \in DOMAIN dp
      PROVE  QuietRow(dp[d], dq[d]) /\ Steady(dp[d], dq[d])
  BY <1>1, <1>3 DEF QuietRow, Steady
<1> QED
  BY <1>1, <1>2, <1>3, <1>4 DEF Quiet, Owes, dq

\* advance_intent_tx marks the machine by the obligations that were out.
LEMMA AdvanceCovered ==
    ASSUME NEW dp \in Table, NEW nd \in Nodes, NEW n \in Node
    PROVE  /\ Covered(dp, nd, AdvanceIntent(dp, n), AdvanceDirty(dp, nd, n))
           /\ Covered(dp, nd, dp, AdvanceDirty(dp, nd, n))
           /\ SameMachines(nd, AdvanceDirty(dp, nd, n))
<1> DEFINE dq == AdvanceIntent(dp, n)
           owed(kind) == IF \E d \in DOMAIN dp : /\ dp[d].kind = kind
                                                 /\ dp[d].tgt[n].ost = "dispatched"
                         THEN {n} ELSE {}
           C  == owed("config")
           G  == owed("grants")
           n1 == MarkDirty(nd, C, "config")
           ne == MarkDirty(n1, G, "grants")
<1>1. /\ DOMAIN dq = DOMAIN dp
      /\ \A d \in DOMAIN dp :
            /\ dq[d].kind = dp[d].kind /\ dq[d].status = dp[d].status
            /\ \A m \in Node \ {n} : dq[d].tgt[m] = dp[d].tgt[m]
            /\ Advances(dp[d].tgt[n], dq[d].tgt[n])
  BY AdvanceIntentRows
<1>2. n1 \in Nodes
  BY MarkDirtyType
<1>3. \A m \in Node :
         /\ n1[m].cfg = IF m \in C THEN Unsure ELSE nd[m].cfg
         /\ n1[m].gr = IF m \in C THEN Unsure ELSE nd[m].gr
         /\ n1[m].iso = nd[m].iso /\ n1[m].phase = nd[m].phase /\ n1[m].epoch = nd[m].epoch
  BY MarkDirtyRows
<1>4. \A m \in Node :
         /\ ne[m].cfg = n1[m].cfg
         /\ ne[m].gr = IF m \in G THEN Unsure ELSE n1[m].gr
         /\ ne[m].iso = n1[m].iso /\ ne[m].phase = n1[m].phase /\ ne[m].epoch = n1[m].epoch
  <2> HIDE DEF n1
  <2> QED
    BY <1>2, MarkDirtyRows
<1>5. AdvanceDirty(dp, nd, n) = ne
  BY DEF AdvanceDirty
<1> HIDE DEF dq, n1, ne, C, G
<1>6. ASSUME NEW d \in DOMAIN dp, NEW m \in Node, Out(dp, d, m)
      PROVE  \/ Out(dq, d, m)
             \/ ne[m].gr = Unsure /\ (dp[d].kind = "config" => ne[m].cfg = Unsure)
  <2>1. CASE m # n
    BY <1>1, <1>6, <2>1 DEF Out, Open
  <2>2. CASE m = n /\ Open(dp, d) /\ dp[d].tgt[n].st = "dispatched"
    BY <1>1, <2>2 DEF Out, Open, Advances
  <2>3. CASE m = n /\ dp[d].tgt[n].ost = "dispatched"
    <3>1. dp[d].kind \in {"config", "grants"}
      BY RowType DEF DeploymentRow, Kind
    <3>2. n \in C \/ (n \in G /\ dp[d].kind = "grants")
      BY <2>3, <3>1 DEF C, G
    <3> QED
      BY <1>3, <1>4, <2>3, <3>2
  <2> QED
    BY <1>6, <2>1, <2>2, <2>3 DEF Out
<1>7. Covered(dp, nd, dq, ne)
  BY <1>1, <1>3, <1>4, <1>6 DEF Covered
<1>8. Covered(dp, nd, dp, ne)
  BY <1>3, <1>4 DEF Covered
<1> QED
  BY <1>3, <1>4, <1>5, <1>7, <1>8 DEF SameMachines, dq

LEMMA RefreshQuiet ==
    ASSUME NEW dp \in Table, NEW nd, NEW d \in DOMAIN dp, Open(dp, d)
    PROVE  /\ Quiet(dp, Refresh(dp, nd, d))
           /\ \A e \in DOMAIN dp : e # d => Steady(dp[e], Refresh(dp, nd, d)[e])
           /\ Resumed(Refresh(dp, nd, d)[d])
           /\ Owes(dp, Refresh(dp, nd, d), 0, {})
<1> DEFINE dq == Refresh(dp, nd, d)
<1>1. /\ DOMAIN dq = DOMAIN dp
      /\ RefreshedRow(dp[d], dq[d])
      /\ \A e \in DOMAIN dp : e # d => dq[e] = dp[e]
  BY RefreshRows
<1> HIDE DEF dq
<1>2. QuietRow(dp[d], dq[d])
  BY <1>1 DEF RefreshedRow, QuietRow, Withdrawn, Open, OpenDeployment
<1>3. ASSUME NEW e \in DOMAIN dp, e # d
      PROVE  QuietRow(dp[e], dq[e]) /\ Steady(dp[e], dq[e])
  <2>1. dq[e] = dp[e]
    BY <1>1, <1>3
  <2> QED
    BY <2>1 DEF QuietRow, Steady, Withdrawn
<1>4. Resumed(dq[d])
  BY <1>1 DEF RefreshedRow, Resumed
<1>5. Owes(dp, dq, 0, {})
  BY <1>1 DEF Owes, RefreshedRow
<1> QED
  BY <1>1, <1>2, <1>3, <1>4, <1>5 DEF Quiet, dq

LEMMA RefreshCovered ==
    ASSUME NEW dp \in Table, NEW nd, NEW d \in DOMAIN dp, NEW ne
    PROVE  Covered(dp, ne, Refresh(dp, nd, d), ne)
<1> DEFINE dq == Refresh(dp, nd, d)
<1>1. /\ DOMAIN dq = DOMAIN dp
      /\ RefreshedRow(dp[d], dq[d])
      /\ \A e \in DOMAIN dp : e # d => dq[e] = dp[e]
  BY RefreshRows
<1> HIDE DEF dq
<1>2. ASSUME NEW e \in DOMAIN dp, NEW n \in Node, Out(dp, e, n)
      PROVE  Out(dq, e, n)
  <2>1. CASE e # d
    BY <1>1, <1>2, <2>1 DEF Out, Open
  <2>2. CASE e = d
    BY <1>1, <1>2, <2>2 DEF Out, Open, RefreshedRow, OpenTarget, OpenDeployment
  <2> QED
    BY <2>1, <2>2
<1>3. \A e \in DOMAIN dp : dq[e].kind = dp[e].kind
  BY <1>1 DEF RefreshedRow
<1> QED
  BY <1>1, <1>2, <1>3 DEF Covered, dq
----------------------------------------------------------------------------
(* Sound tables.                                                           *)

LEMMA QuietSound ==
    ASSUME NEW h, NEW dp, NEW dq, NEW nd, NEW ne, Sound(h, dp, nd), Quiet(dp, dq),
           \A e \in DOMAIN dp : Steady(dp[e], dq[e]) \/ Resumed(dq[e]),
           Alone(dq), SameMachines(nd, ne)
    PROVE  Sound(h, dq, ne)
<1>1. ASSUME NEW e \in DOMAIN dp
      PROVE  SoundRow(h, dq[e]) /\ Resumed(dq[e])
  <2>1. SoundRow(h, dp[e]) /\ Resumed(dp[e]) /\ QuietRow(dp[e], dq[e])
    BY DEF Sound, Quiet
  <2>2. SoundRow(h, dq[e])
    BY <2>1, QuietSoundRow
  <2> QED
    BY <2>1, <2>2, SteadyResumed
<1>2. Held(dq, ne)
  BY QuietHeld DEF Sound
<1>3. DOMAIN dq = DOMAIN dp
  BY DEF Quiet
<1> QED
  BY <1>1, <1>2, <1>3 DEF Sound

\* A new revision changes nothing for the deployments of the older ones.
LEMMA SoundAppend ==
    ASSUME NEW h \in History, NEW row \in RevisionRow, NEW dp, NEW nd,
           Dated(h, dp), Sound(h, dp, nd)
    PROVE  Sound(Append(h, row), dp, nd)
<1>1. \A d \in DOMAIN dp : Append(h, row)[dp[d].rev] = h[dp[d].rev]
  BY DEF Dated, History
<1>2. ASSUME NEW d \in DOMAIN dp
      PROVE  SoundRow(Append(h, row), dp[d])
  <2>1. SoundRow(h, dp[d])
    BY DEF Sound
  <2> QED
    BY <1>1, <2>1 DEF SoundRow, Unconfirmed
<1> QED
  BY <1>2 DEF Sound

\* The row of a new deployment, before it obliges anybody.
LEMMA InsertedRows ==
    ASSUME NEW dp \in Table, NEW nd \in Nodes, NEW plan \in PlanRow
    PROVE  LET rows == Inserted(dp, nd, plan)
               id   == Len(dp) + 1
           IN  /\ rows[id].status = "planned" /\ rows[id].activation = "waiting"
               /\ rows[id].kind = plan.kind /\ rows[id].rev = plan.rev
               /\ \A n \in Node :
                     /\ rows[id].tgt[n].st = plan.tgt[n].st
                     /\ rows[id].tgt[n].ost = "none" /\ rows[id].tgt[n].fz = Null
                     /\ plan.tgt[n].st # "none" => rows[id].tgt[n].ep = nd[n].epoch
<1> DEFINE put(n) == [plan.tgt[n] EXCEPT !.ep = nd[n].epoch]
           tgt == [n \in Node |-> IF plan.tgt[n].st = "none" THEN NoTarget ELSE put(n)]
           row == [kind |-> plan.kind, rev |-> plan.rev, status |-> "planned",
                   settle |-> "converged", activation |-> "waiting", confirmed |-> {},
                   tgt |-> tgt]
<1>1. Inserted(dp, nd, plan)[Len(dp) + 1] = row
  BY DEF Inserted, Table
<1>2. ASSUME NEW n \in Node
      PROVE  /\ tgt[n].st = plan.tgt[n].st
             /\ tgt[n].ost = "none" /\ tgt[n].fz = Null
             /\ plan.tgt[n].st # "none" => tgt[n].ep = nd[n].epoch
  <2>1. plan.tgt[n] \in Target /\ plan.tgt[n].ost = "none" /\ plan.tgt[n].fz = Null
    BY DEF PlanRow, PlanTarget
  <2>2. /\ put(n).st = plan.tgt[n].st /\ put(n).ost = "none" /\ put(n).fz = Null
        /\ put(n).ep = nd[n].epoch
    BY <2>1 DEF Target
  <2> HIDE DEF put
  <2>3. CASE plan.tgt[n].st = "none"
    BY <2>3 DEF NoTarget
  <2>4. CASE plan.tgt[n].st # "none"
    BY <2>2, <2>4
  <2> QED
    BY <2>3, <2>4
<1> HIDE DEF tgt
<1> QED
  BY <1>1, <1>2

\* create_from_plan_tx and insert_lifecycle_deployment_tx keep the tables sound.
LEMMA InsertSound ==
    ASSUME NEW h \in History, NEW dp \in Table, Dated(h, dp), NEW nd \in Nodes,
           NEW plan \in PlanRow, plan.rev \in DOMAIN h, Sound(h, dp, nd)
    PROVE  /\ Sound(h, Insert(h, dp, nd, plan), InsertDirty(dp, nd, plan))
           /\ Covered(dp, nd, Insert(h, dp, nd, plan), InsertDirty(dp, nd, plan))
           /\ SameMachines(nd, InsertDirty(dp, nd, plan))
<1> DEFINE d    == Len(dp) + 1
           new  == Inserted(dp, nd, plan)
           S    == Planned(plan, "deferred")
           rows == Oblige(h, new, d, S)
           all  == Insert(h, dp, nd, plan)
           ne   == InsertDirty(dp, nd, plan)
<1>1. /\ new \in Table
      /\ DOMAIN new = DOMAIN dp \cup {d}
      /\ d \notin DOMAIN dp
      /\ new[d].kind = plan.kind /\ new[d].rev = plan.rev
      /\ Open(new, d)
      /\ \A e \in DOMAIN dp : new[e] = dp[e]
  BY InsertedType, ZenonT(60)
<1>2. /\ new[d].status = "planned" /\ new[d].activation = "waiting"
      /\ \A n \in Node : /\ new[d].tgt[n].st = plan.tgt[n].st
                         /\ new[d].tgt[n].ost = "none" /\ new[d].tgt[n].fz = Null
  BY InsertedRows
<1>3. all = IF Planned(plan, "pending") # {} THEN rows ELSE Refresh(rows, nd, d)
  BY DEF Insert
<1>4. ne = MarkDirty(nd, ObligedInFlight(new, d, S), plan.kind)
  BY DEF InsertDirty
<1>5. \A n \in S : new[d].tgt[n].st = "deferred"
  BY <1>2 DEF Planned
<1>6. S \in SUBSET Node
  BY DEF Planned
<1>7. \A n \in Node : plan.tgt[n].st \in {"none", "skipped", "pending", "deferred"}
  BY DEF PlanRow, PlanTarget
<1> HIDE DEF d, new, S, all
<1>8. Dated(h, new)
  BY <1>1 DEF Dated
<1>9. rows \in Table /\ Keeps(new, rows)
  BY <1>1, <1>6, <1>8, ObligeType
<1>10. /\ Quiet(new, rows)
       /\ \A e \in DOMAIN new : Steady(new[e], rows[e])
  BY <1>1, <1>5, <1>6, ObligeQuiet
<1>11. Sound(h, new, nd)
  <2>1. SoundRow(h, new[d]) /\ Resumed(new[d])
    <3>1. ASSUME NEW n \in Node
          PROVE  /\ Columns(new[d].tgt[n]) /\ ~Unconfirmed(h, new[d], n)
                 /\ ~Started(new[d].tgt[n])
                 /\ new[d].tgt[n].st # "failed"
      BY <1>2, <1>7 DEF Columns, Unconfirmed, Started, Unsettled, OpenTarget
    <3> QED
      BY <1>2, <3>1 DEF SoundRow, Ordered, Resumed, OpenDeployment
  <2>2. \A e \in DOMAIN new : SoundRow(h, new[e]) /\ Resumed(new[e])
    BY <1>1, <2>1 DEF Sound
  <2>3. \A e \in DOMAIN new, n \in Node :
           new[e].tgt[n].ost # "none" => e \in DOMAIN dp /\ new[e] = dp[e]
    BY <1>1, <1>2
  <2>4. Alone(new)
    BY <2>3 DEF Sound, Alone, Debt
  <2>5. Held(new, nd)
    BY <2>3 DEF Sound, Held
  <2> QED
    BY <2>2, <2>4, <2>5 DEF Sound
<1>12. Alone(rows)
  BY <1>1, <1>6, <1>11, ObligeAlone DEF Sound
<1>13. SameMachines(nd, nd)
  BY DEF SameMachines
<1>14. Covered(dp, nd, new, nd)
  BY <1>1 DEF Covered, Out, Open
<1>15. Covered(new, nd, rows, ne)
  BY <1>1, <1>4, <1>6, ObligeCovered
<1> HIDE DEF rows
<1>16. DOMAIN rows = DOMAIN new /\ Open(rows, d)
  <2>1. ObligedTable(new, d, S, rows)
    BY <1>1, <1>6, ObligeRows DEF rows
  <2>2. rows[d].status = new[d].status
    BY <1>1, <2>1 DEF ObligedTable
  <2> QED
    BY <1>1, <1>10, <2>2 DEF Quiet, Open
<1>17. SameMachines(nd, ne)
  BY <1>4, MarkDirtyRows DEF SameMachines
<1> HIDE DEF ne
<1>18. Sound(h, rows, ne)
  BY <1>10, <1>11, <1>12, <1>17, QuietSound
<1>19. CASE Planned(plan, "pending") # {}
  <2>1. all = rows
    BY <1>3, <1>19
  <2> QED
    BY <1>14, <1>15, <1>17, <1>18, <2>1, CoveredTransitive DEF all, ne
<1>20. CASE Planned(plan, "pending") = {}
  <2>1. all = Refresh(rows, nd, d)
    BY <1>3, <1>20
  <2>2. d \in DOMAIN rows
    BY <1>1, <1>16
  <2>3. /\ Quiet(rows, all)
        /\ \A e \in DOMAIN rows : e # d => Steady(rows[e], all[e])
        /\ Resumed(all[d])
        /\ Owes(rows, all, 0, {})
    BY <1>9, <1>16, <2>1, <2>2, RefreshQuiet
  <2>4. Alone(all)
    BY <1>12, <2>3, QuietAlone
  <2>5. SameMachines(ne, ne)
    BY DEF SameMachines
  <2>6. Sound(h, all, ne)
    <3>1. \A e \in DOMAIN rows : Steady(rows[e], all[e]) \/ Resumed(all[e])
      BY <2>3
    <3> QED
      BY <1>18, <2>3, <2>4, <2>5, <3>1, QuietSound
  <2>7. Covered(rows, ne, all, ne)
    BY <1>9, <2>1, <2>2, RefreshCovered
  <2> QED
    BY <1>14, <1>15, <1>17, <2>6, <2>7, CoveredTransitive DEF all, ne
<1> QED
  BY <1>19, <1>20
----------------------------------------------------------------------------
(* The console's commands keep what is safe.                               *)

\* A step that withdraws orders, and leaves machines and agents alone.
LEMMA TableStep ==
    ASSUME IInv, Safe, UNCHANGED <<hist, mach, agent>>, Sound(hist, dep', node'),
           Covered(dep, node, dep', node'), \A n \in Node : node'[n].phase = node[n].phase
    PROVE  Safe'
<1>1. Believes(dep', node', mach, agent)
  BY CoveredBelieves DEF Safe
<1>2. Off(hist, node', mach, agent)
  BY DEF Safe, Off
<1> QED
  BY <1>1, <1>2 DEF Safe

LEMMA CoveredSelf ==
    ASSUME NEW dp, NEW nd, NEW ne,
           \A n \in Node : ne[n].cfg = nd[n].cfg /\ ne[n].gr = nd[n].gr
    PROVE  Covered(dp, nd, dp, ne)
<1> QED
  BY DEF Covered

LEMMA EditSafe ==
    ASSUME IInv, Safe, UNCHANGED <<dep, node, serving, draft, mach, agent>>,
           NEW row \in RevisionRow, hist' = Append(hist, row),
           \A m \in Node : hist[Latest].topo[m] = 0 => row.topo[m] = 0
    PROVE  Safe'
<1>1. hist \in History /\ Dated(hist, dep)
  BY DEF IInv, RevisionsOK, DeploymentsOK
<1>2. Sound(hist', dep, node)
  BY <1>1, SoundAppend DEF Safe
<1>3. hist'[Len(hist')] = row
  BY <1>1 DEF History
<1>4. Off(hist', node, mach, agent)
  BY <1>3 DEF Off, Safe, Latest
<1> QED
  BY <1>2, <1>4 DEF Safe

LEMMA EditTopologySafe ==
    ASSUME IInv, Safe, NEW n \in Node, EditTopology(n)
    PROVE  Safe'
<1> DEFINE row == [hist[Latest] EXCEPT !.topo[n] = Latest + 1]
<1>1. row \in RevisionRow
  BY LatestRow DEF RevisionRow
<1>2. \A m \in Node : hist[Latest].topo[m] = 0 => row.topo[m] = 0
  BY LatestRow DEF RevisionRow, EditTopology
<1> HIDE DEF row
<1> QED
  BY <1>1, <1>2, EditSafe DEF EditTopology, row

LEMMA EditPermissionsSafe ==
    ASSUME IInv, Safe, EditPermissions
    PROVE  Safe'
<1> DEFINE row == [hist[Latest] EXCEPT !.perm = Latest + 1]
<1>1. row \in RevisionRow /\ \A m \in Node : hist[Latest].topo[m] = 0 => row.topo[m] = 0
  BY LatestRow DEF RevisionRow
<1> HIDE DEF row
<1> QED
  BY <1>1, EditSafe DEF EditPermissions, row

\* One row of the table is replaced.
LEMMA RowSound ==
    ASSUME NEW h, NEW dp \in Table, NEW nd, NEW d \in DOMAIN dp, NEW row,
           Sound(h, dp, nd), SoundRow(h, row), Resumed(row), row.kind = dp[d].kind,
           \A n \in Node : /\ row.tgt[n].ost \in {dp[d].tgt[n].ost} \cup
                                 {"none", "superseded", "canceled", "succeeded"}
                           /\ row.tgt[n].ep = dp[d].tgt[n].ep
    PROVE  Sound(h, [dp EXCEPT ![d] = row], nd)
<1> DEFINE dq == [dp EXCEPT ![d] = row]
<1>1. /\ DOMAIN dq = DOMAIN dp
      /\ \A e \in DOMAIN dp : dq[e] = IF e = d THEN row ELSE dp[e]
  BY DEF Table
<1> HIDE DEF dq
<1>2. \A e \in DOMAIN dq : SoundRow(h, dq[e]) /\ Resumed(dq[e])
  BY <1>1 DEF Sound
<1>3. \A e \in DOMAIN dp, n \in Node :
         /\ dq[e].kind = dp[e].kind /\ dq[e].tgt[n].ep = dp[e].tgt[n].ep
         /\ dq[e].tgt[n].ost \in Debt => dq[e].tgt[n].ost = dp[e].tgt[n].ost
  BY <1>1 DEF Debt
<1>4. Alone(dq)
  BY <1>1, <1>3 DEF Alone, Sound
<1>5. Held(dq, nd)
  BY <1>1, <1>3 DEF Held, Sound, Debt
<1> QED
  BY <1>2, <1>4, <1>5 DEF Sound, dq

LEMMA RowCovered ==
    ASSUME NEW dp \in Table, NEW nd, NEW d \in DOMAIN dp, NEW row, row.kind = dp[d].kind,
           Open(dp, d) => row.status \in OpenDeployment,
           \A n \in Node : /\ dp[d].tgt[n].st = "dispatched" => row.tgt[n].st = "dispatched"
                           /\ dp[d].tgt[n].ost = "dispatched" => row.tgt[n].ost = "dispatched"
    PROVE  Covered(dp, nd, [dp EXCEPT ![d] = row], nd)
<1> DEFINE dq == [dp EXCEPT ![d] = row]
<1>1. /\ DOMAIN dq = DOMAIN dp
      /\ \A e \in DOMAIN dp : dq[e] = IF e = d THEN row ELSE dp[e]
  BY DEF Table
<1> HIDE DEF dq
<1>2. \A e \in DOMAIN dp, n \in Node : Out(dp, e, n) => Out(dq, e, n)
  BY <1>1 DEF Out, Open
<1> QED
  BY <1>1, <1>2 DEF Covered, dq

LEMMA ConfirmWaveSafe ==
    ASSUME IInv, Safe, NEW d \in DOMAIN dep, ConfirmWave(d)
    PROVE  Safe'
<1> DEFINE w   == CurrentWave(dep, d)
           row == [dep[d] EXCEPT !.confirmed = @ \cup {w}]
<1>1. dep \in Table /\ dep[d] \in DeploymentRow
  BY RowType DEF IInv, DeploymentsOK
<1>2. /\ dep' = [dep EXCEPT ![d] = row]
      /\ UNCHANGED <<hist, node, serving, draft, mach, agent>>
  BY DEF ConfirmWave
<1> HIDE DEF w
<1>3. /\ row.kind = dep[d].kind /\ row.rev = dep[d].rev /\ row.tgt = dep[d].tgt
      /\ row.status = dep[d].status /\ row.activation = dep[d].activation
      /\ row.settle = dep[d].settle /\ dep[d].confirmed \subseteq row.confirmed
  BY <1>1 DEF DeploymentRow
<1> HIDE DEF row
<1>4. SoundRow(hist, dep[d]) /\ Resumed(dep[d]) /\ Sound(hist, dep, node)
  BY DEF Safe, Sound
<1>5. SoundRow(hist, row) /\ Resumed(row)
  BY <1>3, <1>4 DEF SoundRow, Unconfirmed, Ordered, Resumed
<1>6. Sound(hist, dep', node)
  BY <1>1, <1>2, <1>3, <1>4, <1>5, RowSound
<1>7. Covered(dep, node, dep', node)
  BY <1>1, <1>2, <1>3, RowCovered DEF Open
<1> QED
  BY <1>2, <1>6, <1>7, TableStep

LEMMA HaltDeploymentSafe ==
    ASSUME IInv, Safe, NEW d \in DOMAIN dep, HaltDeployment(d)
    PROVE  Safe'
<1> DEFINE row == [dep[d] EXCEPT !.status = "halted"]
<1>1. dep \in Table /\ dep[d] \in DeploymentRow
  BY RowType DEF IInv, DeploymentsOK
<1>2. /\ dep' = [dep EXCEPT ![d] = row]
      /\ UNCHANGED <<hist, node, serving, draft, mach, agent>>
      /\ Open(dep, d)
  BY DEF HaltDeployment, Open, OpenDeployment
<1>3. /\ row.kind = dep[d].kind /\ row.rev = dep[d].rev /\ row.tgt = dep[d].tgt
      /\ row.status = "halted" /\ row.activation = dep[d].activation
      /\ row.confirmed = dep[d].confirmed
  BY <1>1 DEF DeploymentRow
<1> HIDE DEF row
<1>4. SoundRow(hist, dep[d]) /\ Sound(hist, dep, node)
  BY DEF Safe, Sound
<1>5. SoundRow(hist, row) /\ Resumed(row)
  BY <1>2, <1>3, <1>4 DEF SoundRow, Unconfirmed, Ordered, Resumed, Open, OpenDeployment
<1>6. Sound(hist, dep', node)
  BY <1>1, <1>2, <1>3, <1>4, <1>5, RowSound
<1>7. Covered(dep, node, dep', node)
  BY <1>1, <1>2, <1>3, RowCovered DEF OpenDeployment
<1> QED
  BY <1>2, <1>6, <1>7, TableStep

LEMMA CancelDeploymentSafe ==
    ASSUME IInv, Safe, NEW d \in DOMAIN dep, CancelDeployment(d)
    PROVE  Safe'
<1>1. /\ dep' = Cancel(dep, {d}) /\ node' = CancelDirty(dep, node, {d})
      /\ UNCHANGED <<hist, serving, draft, mach, agent>>
  BY DEF CancelDeployment
<1>2. dep \in Table /\ node \in Nodes /\ Sound(hist, dep, node)
  BY DEF IInv, DeploymentsOK, NodesOK, Safe
<1>3. /\ Quiet(dep, dep') /\ \A e \in DOMAIN dep : Steady(dep[e], dep'[e])
      /\ Owes(dep, dep', 0, {})
  BY <1>1, <1>2, CancelQuiet
<1>4. Covered(dep, node, dep', node') /\ SameMachines(node, node')
  BY <1>1, <1>2, CancelCovered
<1>5. Alone(dep')
  BY <1>2, <1>3, QuietAlone DEF Sound
<1>6. Sound(hist, dep', node')
  BY <1>2, <1>3, <1>4, <1>5, QuietSound
<1> QED
  BY <1>1, <1>4, <1>6, TableStep DEF SameMachines

\* The failed debt of a detached machine becomes pending again.
LEMMA RetryObligationSafe ==
    ASSUME IInv, Safe, NEW d \in DOMAIN dep, NEW n \in Node, RetryObligation(d, n)
    PROVE  Safe'
<1> DEFINE tgt == [dep[d].tgt EXCEPT ![n].ost = "pending", ![n].st = "deferred"]
           row == [dep[d] EXCEPT !.tgt = tgt, !.settle = Settlement(tgt)]
           t == dep[d].tgt[n]
           u == tgt[n]
<1>1. /\ dep \in Table /\ dep[d] \in DeploymentRow
      /\ t \in Target /\ dep[d].tgt \in [Node -> Target]
  BY RowType DEF IInv, DeploymentsOK, DeploymentRow
<1>2. /\ dep' = [dep EXCEPT ![d] = row]
      /\ UNCHANGED <<hist, node, serving, draft, mach, agent>>
      /\ t.ost = "failed"
  BY DEF RetryObligation, FailedDebt
<1>3. /\ u.wave = t.wave /\ u.disr = t.disr /\ u.ep = t.ep /\ u.fz = t.fz
      /\ u.st = "deferred" /\ u.ost = "pending"
      /\ \A m \in Node \ {n} : tgt[m] = dep[d].tgt[m]
  BY <1>1 DEF Target
<1> HIDE DEF tgt
<1>4. /\ row.kind = dep[d].kind /\ row.rev = dep[d].rev /\ row.tgt = tgt
      /\ row.status = dep[d].status /\ row.activation = dep[d].activation
      /\ row.confirmed = dep[d].confirmed /\ row.settle = Settlement(tgt)
  BY <1>1 DEF DeploymentRow
<1> HIDE DEF row
<1>5. Sound(hist, dep, node) /\ SoundRow(hist, dep[d]) /\ Columns(t) /\ t.st = "failed"
  BY <1>2 DEF Safe, Sound, SoundRow, Columns
<1>6. Withdrawn(t, u)
  BY <1>2, <1>3 DEF Withdrawn, Columns
<1>7. \A m \in Node : Withdrawn(dep[d].tgt[m], tgt[m])
  BY <1>3, <1>6 DEF Withdrawn
<1>8. QuietRow(dep[d], row)
  <2>1. \A m \in Node : tgt[m].st = "failed" => tgt[m] = dep[d].tgt[m]
    BY <1>3
  <2> QED
    BY <1>4, <1>7, <2>1 DEF QuietRow
<1>9. Steady(dep[d], row)
  BY <1>3, <1>4, <1>5 DEF Steady, OpenTarget
<1>10. /\ DOMAIN dep' = DOMAIN dep
       /\ \A e \in DOMAIN dep : dep'[e] = IF e = d THEN row ELSE dep[e]
  BY <1>1, <1>2 DEF Table
<1>11. ASSUME NEW e \in DOMAIN dep
       PROVE  QuietRow(dep[e], dep'[e]) /\ Steady(dep[e], dep'[e])
  <2>1. CASE e = d
    BY <1>8, <1>9, <1>10, <2>1
  <2>2. CASE e # d
    BY <1>10, <2>2 DEF QuietRow, Steady, Withdrawn
  <2> QED
    BY <2>1, <2>2
<1>12. Quiet(dep, dep')
  BY <1>10, <1>11 DEF Quiet
<1>13. Owes(dep, dep', 0, {})
  BY <1>2, <1>3, <1>4, <1>10 DEF Owes, Debt
<1>14. Alone(dep')
  BY <1>5, <1>12, <1>13, QuietAlone DEF Sound
<1>15. SameMachines(node, node')
  BY <1>2 DEF SameMachines
<1>16. Sound(hist, dep', node')
  BY <1>5, <1>11, <1>12, <1>14, <1>15, QuietSound
<1>17. Covered(dep, node, dep', node)
  BY <1>1, <1>2, <1>3, <1>4, <1>5, RowCovered DEF Open
<1> QED
  BY <1>2, <1>16, <1>17, TableStep

\* A failed target goes back to its wave, which no later one has passed.
LEMMA RetryTargetSafe ==
    ASSUME IInv, Safe, NEW d \in DOMAIN dep, NEW n \in Node, RetryTarget(d, n)
    PROVE  Safe'
<1> DEFINE tgt == [dep[d].tgt EXCEPT ![n].st = "pending", ![n].fz = Null]
           row == [dep[d] EXCEPT !.tgt = tgt, !.status = "running"]
           t == dep[d].tgt[n]
           u == tgt[n]
<1>1. /\ dep \in Table /\ dep[d] \in DeploymentRow
      /\ t \in Target /\ dep[d].tgt \in [Node -> Target]
  BY RowType DEF IInv, DeploymentsOK, DeploymentRow
<1>2. /\ dep' = [dep EXCEPT ![d] = row]
      /\ UNCHANGED <<hist, node, serving, draft, mach, agent>>
      /\ t.st = "failed" /\ dep[d].status = "halted" /\ ~FailedDebt(d, n)
  BY DEF RetryTarget
<1>3. /\ u.wave = t.wave /\ u.disr = t.disr /\ u.ep = t.ep /\ u.fz = Null
      /\ u.st = "pending" /\ u.ost = t.ost
      /\ \A m \in Node \ {n} : tgt[m] = dep[d].tgt[m]
  BY <1>1 DEF Target
<1> HIDE DEF tgt
<1>4. /\ row.kind = dep[d].kind /\ row.rev = dep[d].rev /\ row.tgt = tgt
      /\ row.status = "running" /\ row.activation = dep[d].activation
      /\ row.confirmed = dep[d].confirmed
  BY <1>1 DEF DeploymentRow
<1> HIDE DEF row
<1>5. Sound(hist, dep, node) /\ SoundRow(hist, dep[d]) /\ Columns(t)
  BY DEF Safe, Sound, SoundRow
<1>6. t.ost # "failed" /\ t.ost \notin OpenTarget
  <2>1. t.ost # "failed"
    BY <1>2, <1>5 DEF Sound, Held, FailedDebt
  <2> QED
    BY <1>2, <1>5, <2>1 DEF Columns
<1>7. SoundRow(hist, row)
  <2>1. \A m \in Node : Columns(tgt[m])
    BY <1>3, <1>5, <1>6 DEF SoundRow, Columns
  <2>2. \A m \in Node : ~Unconfirmed(hist, row, m)
    BY <1>3, <1>4, <1>5 DEF SoundRow, Unconfirmed
  <2>3. \A m \in Node : /\ Started(tgt[m]) => Started(dep[d].tgt[m])
                        /\ Unsettled(tgt[m]) => Unsettled(dep[d].tgt[m])
                        /\ tgt[m].wave = dep[d].tgt[m].wave
    BY <1>2, <1>3, <1>6 DEF Started, Unsettled
  <2>4. Ordered(row)
    BY <1>2, <1>4, <1>5, <2>3 DEF SoundRow, Ordered, OpenDeployment
  <2> QED
    BY <1>2, <1>4, <1>5, <2>1, <2>2, <2>4 DEF SoundRow, OpenDeployment
<1>8. Resumed(row)
  <2> SUFFICES ASSUME NEW m \in Node, tgt[m].st = "failed", tgt[m].ost # "failed"
               PROVE  tgt[n].wave <= tgt[m].wave /\ tgt[n].st \in OpenTarget
    BY <1>4 DEF Resumed
  <2>1. m # n /\ tgt[m] = dep[d].tgt[m]
    BY <1>3
  <2>2. Started(t) /\ Unsettled(dep[d].tgt[m])
    BY <1>2, <1>6, <2>1 DEF Started, Unsettled
  <2> QED
    BY <1>2, <1>3, <1>5, <2>1, <2>2 DEF SoundRow, Ordered, OpenDeployment, OpenTarget
<1>9. \A m \in Node : tgt[m].ost = dep[d].tgt[m].ost /\ tgt[m].ep = dep[d].tgt[m].ep
  BY <1>3
<1>10. Sound(hist, dep', node)
  BY <1>1, <1>2, <1>4, <1>5, <1>7, <1>8, <1>9, RowSound
<1>11. Covered(dep, node, dep', node)
  BY <1>1, <1>2, <1>3, <1>4, <1>9, RowCovered DEF OpenDeployment
<1> QED
  BY <1>2, <1>10, <1>11, TableStep

LEMMA RestoreServiceSafe ==
    ASSUME IInv, Safe, NEW n \in Node, RestoreService(n)
    PROVE  Safe'
<1>1. node \in Nodes /\ Sound(hist, dep, node)
  BY DEF IInv, NodesOK, Safe
<1>2. /\ node' = [node EXCEPT ![n].iso = FALSE]
      /\ UNCHANGED <<hist, dep, draft, mach, agent>>
      /\ \A d \in DOMAIN dep : dep[d].tgt[n].ep = node[n].epoch
                                  => dep[d].tgt[n].ost \notin Debt
  BY DEF RestoreService
<1>3. \A m \in Node : /\ node'[m].phase = node[m].phase /\ node'[m].epoch = node[m].epoch
                      /\ node'[m].cfg = node[m].cfg /\ node'[m].gr = node[m].gr
                      /\ m # n => node'[m].iso = node[m].iso
  BY <1>1, <1>2 DEF Nodes, NodeRow
<1>4. Held(dep, node')
  BY <1>1, <1>2, <1>3 DEF Sound, Held, Detached, Debt
<1>5. Sound(hist, dep, node')
  BY <1>1, <1>4 DEF Sound
<1>6. Covered(dep, node, dep, node')
  BY <1>3, CoveredSelf
<1> QED
  BY <1>2, <1>3, <1>5, <1>6, TableStep
----------------------------------------------------------------------------
(* Isolation.                                                              *)

\* The table after one row of isolate_node_inner.
DetachedTable(dp, d, n, dq) ==
    /\ DOMAIN dq = DOMAIN dp
    /\ \A e \in DOMAIN dp :
          /\ dq[e].kind = dp[e].kind /\ dq[e].rev = dp[e].rev
          /\ dq[e].status = dp[e].status /\ dq[e].activation = dp[e].activation
          /\ dq[e].confirmed = dp[e].confirmed
          /\ \A m \in Node : ~(e = d /\ m = n) =>
                Obliged(dp, d, {n}, e, m, dp[e].tgt[m], dq[e].tgt[m])
          /\ e # d => dq[e] = dp[e] \/ dq[e].settle = Settlement(dq[e].tgt)
    /\ LET t == dp[d].tgt[n]
           u == dq[d].tgt[n]
       IN  /\ u.wave = t.wave /\ u.disr = t.disr /\ u.ep = t.ep /\ u.fz = Null
           /\ u.st \in {"deferred", "superseded"} /\ u.ost = "pending"

\* The row before it owes anything: the target has left its wave.
Deferred(dp, d, n) ==
    [dp EXCEPT ![d] = [@ EXCEPT !.tgt =
        [dp[d].tgt EXCEPT ![n].st = "deferred", ![n].fz = Null]]]

LEMMA DeferredRows ==
    ASSUME NEW dp \in Table, NEW d \in DOMAIN dp, NEW n \in Node
    PROVE  LET dq == Deferred(dp, d, n)
           IN  /\ dq \in Table
               /\ DOMAIN dq = DOMAIN dp
               /\ \A e \in DOMAIN dp \ {d} : dq[e] = dp[e]
               /\ dq[d].kind = dp[d].kind /\ dq[d].rev = dp[d].rev
               /\ dq[d].status = dp[d].status /\ dq[d].activation = dp[d].activation
               /\ dq[d].confirmed = dp[d].confirmed
               /\ \A m \in Node \ {n} : dq[d].tgt[m] = dp[d].tgt[m]
               /\ LET t == dp[d].tgt[n]
                      u == dq[d].tgt[n]
                  IN  /\ u.wave = t.wave /\ u.disr = t.disr /\ u.ep = t.ep
                      /\ u.fz = Null /\ u.st = "deferred" /\ u.ost = t.ost
<1> DEFINE tgt == [dp[d].tgt EXCEPT ![n].st = "deferred", ![n].fz = Null]
           row == [dp[d] EXCEPT !.tgt = tgt]
           t   == dp[d].tgt[n]
<1>1. dp[d] \in DeploymentRow /\ t \in Target /\ dp[d].tgt \in [Node -> Target]
  BY RowType DEF DeploymentRow
<1>2. /\ tgt \in [Node -> Target]
      /\ tgt[n].wave = t.wave /\ tgt[n].disr = t.disr /\ tgt[n].ep = t.ep
      /\ tgt[n].fz = Null /\ tgt[n].st = "deferred" /\ tgt[n].ost = t.ost
      /\ \A m \in Node \ {n} : tgt[m] = dp[d].tgt[m]
  <2>1. [t EXCEPT !.st = "deferred", !.fz = Null] \in Target
    BY <1>1 DEF Target
  <2> QED
    BY <1>1, <2>1 DEF Target
<1>3. Deferred(dp, d, n) = [dp EXCEPT ![d] = row]
  BY DEF Deferred
<1> HIDE DEF tgt
<1>4. /\ row \in DeploymentRow
      /\ row.kind = dp[d].kind /\ row.rev = dp[d].rev /\ row.tgt = tgt
      /\ row.status = dp[d].status /\ row.activation = dp[d].activation
      /\ row.confirmed = dp[d].confirmed
  BY <1>1, <1>2 DEF DeploymentRow
<1> HIDE DEF row
<1>5. /\ [dp EXCEPT ![d] = row] \in Table
      /\ DOMAIN [dp EXCEPT ![d] = row] = DOMAIN dp
      /\ \A e \in DOMAIN dp : [dp EXCEPT ![d] = row][e] = IF e = d THEN row ELSE dp[e]
  BY <1>4, RowUpdate DEF Open
<1> QED
  BY <1>2, <1>3, <1>4, <1>5

LEMMA DetachRows ==
    ASSUME NEW dp \in Table, NEW d \in DOMAIN dp, NEW n \in Node
    PROVE  DetachedTable(dp, d, n, Detach(dp, d, n))
<1> DEFINE dq == Deferred(dp, d, n)
           dr == Detach(dp, d, n)
<1>1. /\ dq \in Table
      /\ DOMAIN dq = DOMAIN dp
      /\ \A e \in DOMAIN dp \ {d} : dq[e] = dp[e]
      /\ dq[d].kind = dp[d].kind /\ dq[d].rev = dp[d].rev
      /\ dq[d].status = dp[d].status /\ dq[d].activation = dp[d].activation
      /\ dq[d].confirmed = dp[d].confirmed
      /\ \A m \in Node \ {n} : dq[d].tgt[m] = dp[d].tgt[m]
      /\ dq[d].tgt[n].wave = dp[d].tgt[n].wave /\ dq[d].tgt[n].disr = dp[d].tgt[n].disr
      /\ dq[d].tgt[n].ep = dp[d].tgt[n].ep /\ dq[d].tgt[n].ost = dp[d].tgt[n].ost
      /\ dq[d].tgt[n].st = "deferred" /\ dq[d].tgt[n].fz = Null
  BY DeferredRows
<1>2. dr = Oblige(hist, dq, d, {n})
  BY DEF Detach, Deferred
<1> HIDE DEF dq, dr
<1>3. ObligedTable(dq, d, {n}, dr)
  BY <1>1, <1>2, ObligeRows
<1>4. \A e \in DOMAIN dp, m \in Node : e \in Replaced(dq, d, m) <=> e \in Replaced(dp, d, m)
  <2>1. \A e \in DOMAIN dp, m \in Node :
           /\ dq[e].tgt[m].ost = dp[e].tgt[m].ost /\ dq[e].tgt[m].ep = dp[e].tgt[m].ep
           /\ dq[e].kind = dp[e].kind /\ dq[e].rev = dp[e].rev
    <3> SUFFICES ASSUME NEW e \in DOMAIN dp, NEW m \in Node
                 PROVE  /\ dq[e].tgt[m].ost = dp[e].tgt[m].ost
                        /\ dq[e].tgt[m].ep = dp[e].tgt[m].ep
                        /\ dq[e].kind = dp[e].kind /\ dq[e].rev = dp[e].rev
      OBVIOUS
    <3>1. CASE e # d
      BY <1>1, <3>1
    <3>2. CASE e = d /\ m # n
      BY <1>1, <3>2
    <3>3. CASE e = d /\ m = n
      BY <1>1, <3>3
    <3> QED
      BY <3>1, <3>2, <3>3
  <2> QED
    BY <1>1, <2>1 DEF Replaced
<1>5. ASSUME NEW e \in DOMAIN dp
      PROVE  /\ dr[e].kind = dp[e].kind /\ dr[e].rev = dp[e].rev
             /\ dr[e].status = dp[e].status /\ dr[e].activation = dp[e].activation
             /\ dr[e].confirmed = dp[e].confirmed
             /\ e # d => dr[e] = dp[e] \/ dr[e].settle = Settlement(dr[e].tgt)
  <2>1. /\ dr[e].kind = dq[e].kind /\ dr[e].rev = dq[e].rev
        /\ dr[e].status = dq[e].status /\ dr[e].activation = dq[e].activation
        /\ dr[e].confirmed = dq[e].confirmed
        /\ e # d => dr[e] = dq[e] \/ dr[e].settle = Settlement(dr[e].tgt)
    BY <1>1, <1>3 DEF ObligedTable
  <2>2. CASE e = d
    BY <1>1, <2>1, <2>2
  <2>3. CASE e # d
    <3>1. dq[e] = dp[e]
      BY <1>1, <2>3
    <3> QED
      BY <2>1, <3>1
  <2> QED
    BY <2>2, <2>3
<1>6. ASSUME NEW e \in DOMAIN dp, NEW m \in Node, ~(e = d /\ m = n)
      PROVE  Obliged(dp, d, {n}, e, m, dp[e].tgt[m], dr[e].tgt[m])
  <2>1. Obliged(dq, d, {n}, e, m, dq[e].tgt[m], dr[e].tgt[m])
    BY <1>1, <1>3 DEF ObligedTable
  <2>2. dq[e].tgt[m] = dp[e].tgt[m]
    BY <1>1, <1>6
  <2> QED
    BY <1>4, <2>1, <2>2 DEF Obliged
<1>7. /\ dr[d].tgt[n].wave = dp[d].tgt[n].wave /\ dr[d].tgt[n].disr = dp[d].tgt[n].disr
      /\ dr[d].tgt[n].ep = dp[d].tgt[n].ep /\ dr[d].tgt[n].fz = Null
      /\ dr[d].tgt[n].st \in {"deferred", "superseded"} /\ dr[d].tgt[n].ost = "pending"
  <2>1. Obliged(dq, d, {n}, d, n, dq[d].tgt[n], dr[d].tgt[n])
    BY <1>1, <1>3 DEF ObligedTable
  <2> QED
    BY <1>1, <2>1 DEF Obliged
<1>8. DOMAIN dr = DOMAIN dp
  BY <1>1, <1>3 DEF ObligedTable
<1> QED
  BY <1>5, <1>6, <1>7, <1>8 DEF DetachedTable, dr

LEMMA DetachQuiet ==
    ASSUME NEW dp \in Table, NEW d \in DOMAIN dp, NEW n \in Node, Open(dp, d)
    PROVE  /\ Quiet(dp, Detach(dp, d, n))
           /\ \A e \in DOMAIN dp : e # d => Steady(dp[e], Detach(dp, d, n)[e])
           /\ \A e \in DOMAIN dp : Detach(dp, d, n)[e].status = dp[e].status
           /\ Owes(dp, Detach(dp, d, n), d, {n})
<1> DEFINE dq == Detach(dp, d, n)
<1>1. DetachedTable(dp, d, n, dq)
  BY DetachRows
<1> HIDE DEF dq
<1>2. ASSUME NEW e \in DOMAIN dp, NEW m \in Node, ~(e = d /\ m = n)
      PROVE  /\ Withdrawn(dp[e].tgt[m], dq[e].tgt[m])
             /\ dq[e].tgt[m].st = "failed" /\ dp[e].tgt[m].ost = "failed"
                   => dq[e].tgt[m].ost = "failed"
             /\ dp[e].tgt[m].st \in OpenTarget => dq[e].tgt[m].st = dp[e].tgt[m].st
             /\ dq[e].tgt[m].ost \in Debt => dp[e].tgt[m].ost \in Debt
  <2> DEFINE t == dp[e].tgt[m]
             u == dq[e].tgt[m]
  <2>1. Obliged(dp, d, {n}, e, m, t, u)
    BY <1>1, <1>2 DEF DetachedTable
  <2> HIDE DEF t, u
  <2>2. /\ u.wave = t.wave /\ u.disr = t.disr /\ u.ep = t.ep /\ u.fz = t.fz
        /\ u.st = t.st \/ (u.st = "superseded" /\ t.st \in {"deferred", "failed"})
        /\ \/ u.ost = "superseded" /\ u.st \notin {"deferred", "failed"}
           \/ u.ost = t.ost /\ u.st = t.st
    BY <1>2, <2>1 DEF Obliged
  <2>3. Columns(t) => Columns(u)
    BY <2>2 DEF Columns, OpenTarget
  <2>4. Withdrawn(t, u)
    BY <2>2, <2>3 DEF Withdrawn
  <2>5. /\ u.st = "failed" /\ t.ost = "failed" => u.ost = "failed"
        /\ t.st \in OpenTarget => u.st = t.st
        /\ u.ost \in Debt => t.ost \in Debt
    BY <2>2 DEF OpenTarget, Debt
  <2> QED
    BY <2>4, <2>5 DEF t, u
<1>3. /\ Withdrawn(dp[d].tgt[n], dq[d].tgt[n]) /\ dq[d].tgt[n].st # "failed"
  BY <1>1 DEF DetachedTable, Withdrawn, Columns
<1>4. ASSUME NEW e \in DOMAIN dp
      PROVE  QuietRow(dp[e], dq[e]) /\ (e # d => Steady(dp[e], dq[e]))
             /\ dq[e].status = dp[e].status
  <2>1. /\ dq[e].kind = dp[e].kind /\ dq[e].rev = dp[e].rev
        /\ dq[e].status = dp[e].status /\ dq[e].activation = dp[e].activation
        /\ dq[e].confirmed = dp[e].confirmed
        /\ e # d => dq[e] = dp[e] \/ dq[e].settle = Settlement(dq[e].tgt)
    BY <1>1 DEF DetachedTable
  <2>2. /\ \A m \in Node : Withdrawn(dp[e].tgt[m], dq[e].tgt[m])
        /\ \A m \in Node : dq[e].tgt[m].st = "failed" /\ dp[e].tgt[m].ost = "failed"
                              => dq[e].tgt[m].ost = "failed"
    BY <1>2, <1>3
  <2>3. QuietRow(dp[e], dq[e])
    BY <2>1, <2>2 DEF QuietRow, Open
  <2>4. e # d => Steady(dp[e], dq[e])
    BY <1>2, <2>1 DEF Steady
  <2> QED
    BY <2>1, <2>3, <2>4
<1>5. DOMAIN dq = DOMAIN dp
  BY <1>1 DEF DetachedTable
<1> QED
  BY <1>2, <1>4, <1>5 DEF Quiet, Owes, dq

LEMMA DetachAlone ==
    ASSUME NEW dp \in Table, NEW d \in DOMAIN dp, NEW n \in Node, Alone(dp)
    PROVE  Alone(Detach(dp, d, n))
<1> DEFINE dq == Detach(dp, d, n)
<1>1. DetachedTable(dp, d, n, dq)
  BY DetachRows
<1> HIDE DEF dq
<1> SUFFICES ASSUME NEW e \in DOMAIN dp, NEW f \in DOMAIN dp, NEW m \in Node,
                    dq[e].tgt[m].ost \in Debt, dq[f].tgt[m].ost \in Debt,
                    dq[e].kind = dq[f].kind, dq[e].tgt[m].ep = dq[f].tgt[m].ep
             PROVE  e = f
  BY <1>1 DEF Alone, dq, DetachedTable
<1>2. \A g \in DOMAIN dp : dq[g].kind = dp[g].kind /\ dq[g].tgt[m].ep = dp[g].tgt[m].ep
  BY <1>1 DEF DetachedTable, Obliged
<1>3. ASSUME NEW g \in DOMAIN dp, ~(g = d /\ m = n), dq[g].tgt[m].ost \in Debt
      PROVE  dp[g].tgt[m].ost \in Debt /\ ~(m = n /\ g \in Replaced(dp, d, n))
  <2>1. Obliged(dp, d, {n}, g, m, dp[g].tgt[m], dq[g].tgt[m])
    BY <1>1, <1>3 DEF DetachedTable
  <2> QED
    BY <1>3, <2>1 DEF Obliged, Debt
<1>4. CASE m # n \/ (e # d /\ f # d)
  BY <1>2, <1>3, <1>4 DEF Alone
<1>5. CASE m = n /\ e # d /\ f = d
  BY <1>2, <1>3, <1>5 DEF Replaced
<1>6. CASE m = n /\ e = d /\ f # d
  BY <1>2, <1>3, <1>6 DEF Replaced
<1> QED
  BY <1>4, <1>5, <1>6

\* The machine is marked by the order it is taken from, read in the database
\* before the first row was detached, and by the debt that this replaces.
LEMMA DetachCovered ==
    ASSUME NEW dp \in Table, NEW d \in DOMAIN dp, NEW n \in Node, NEW nd \in Nodes,
           dp[d].tgt[n].st = "dispatched" => dep[d].tgt[n].st = "dispatched",
           dep[d].kind = dp[d].kind
    PROVE  /\ Covered(dp, nd, Detach(dp, d, n), DetachDirty(dp, nd, d, n))
           /\ SameMachines(nd, DetachDirty(dp, nd, d, n))
           /\ DetachDirty(dp, nd, d, n) \in Nodes
<1> DEFINE dq == Detach(dp, d, n)
           X  == IF \/ dep[d].tgt[n].st \in {"dispatched", "failed"}
                    \/ ObligedInFlight(dp, d, {n}) # {}
                 THEN {n} ELSE {}
           ne == DetachDirty(dp, nd, d, n)
<1>1. DetachedTable(dp, d, n, dq)
  BY DetachRows
<1>2. \A m \in Node :
         /\ ne[m].cfg = IF m \in X /\ dp[d].kind = "config" THEN Unsure ELSE nd[m].cfg
         /\ ne[m].gr = IF m \in X THEN Unsure ELSE nd[m].gr
         /\ ne[m].iso = nd[m].iso /\ ne[m].phase = nd[m].phase /\ ne[m].epoch = nd[m].epoch
  <2>1. ne = MarkDirty(nd, X, dp[d].kind)
    BY DEF DetachDirty
  <2> HIDE DEF X, ne
  <2> QED
    BY <2>1, MarkDirtyRows
<1>3. ne \in Nodes
  BY DetachDirtyType
<1> HIDE DEF dq, ne
<1>4. ASSUME NEW e \in DOMAIN dp, NEW m \in Node, Out(dp, e, m)
      PROVE  \/ Out(dq, e, m)
             \/ ne[m].gr = Unsure /\ (dp[e].kind = "config" => ne[m].cfg = Unsure)
  <2>1. CASE e = d /\ m = n /\ dp[d].tgt[n].st = "dispatched"
    BY <1>2, <2>1
  <2>2. CASE dp[e].tgt[m].ost = "dispatched" /\ m = n /\ e \in Replaced(dp, d, n)
    <3>1. n \in X
      BY <2>2 DEF ObligedInFlight
    <3>2. dp[e].kind = "config" => dp[d].kind = "config"
      BY <2>2 DEF Replaced
    <3> HIDE DEF X
    <3> QED
      BY <1>2, <2>2, <3>1, <3>2
  <2>3. CASE ~(e = d /\ m = n) /\ Open(dp, e) /\ dp[e].tgt[m].st = "dispatched"
    <3>1. Obliged(dp, d, {n}, e, m, dp[e].tgt[m], dq[e].tgt[m]) /\ dq[e].status = dp[e].status
      BY <1>1, <2>3 DEF DetachedTable
    <3> QED
      BY <2>3, <3>1 DEF Obliged, Out, Open
  <2>4. CASE dp[e].tgt[m].ost = "dispatched" /\ ~(m = n /\ e \in Replaced(dp, d, n))
    <3>1. ~(e = d /\ m = n)
      BY <2>4 DEF Replaced, Debt
    <3>2. Obliged(dp, d, {n}, e, m, dp[e].tgt[m], dq[e].tgt[m])
      BY <1>1, <3>1 DEF DetachedTable
    <3> QED
      BY <2>4, <3>1, <3>2 DEF Obliged, Out
  <2> QED
    BY <1>4, <2>1, <2>2, <2>3, <2>4 DEF Out
<1>5. \A m \in Node : ne[m].cfg \in {nd[m].cfg, Unsure} /\ ne[m].gr \in {nd[m].gr, Unsure}
  BY <1>2
<1>6. Covered(dp, nd, dq, ne)
  BY <1>1, <1>4, <1>5 DEF Covered, DetachedTable
<1> QED
  BY <1>2, <1>3, <1>6 DEF SameMachines, dq, ne

LEMMA SteadyTransitive ==
    ASSUME NEW p, NEW q, NEW r, Steady(p, q), Steady(q, r)
    PROVE  Steady(p, r)
<1> QED
  BY DEF Steady

LEMMA IsolateNodeSafe ==
    ASSUME IInv, Safe, NEW n \in Node, IsolateNode(n)
    PROVE  Safe'
<1> DEFINE rows == {d \in DOMAIN dep : Open(dep, d) /\ dep[d].tgt[n].st \in Debt}
           lo   == CHOOSE d \in rows : \A e \in rows : d <= e
           hi   == CHOOSE d \in rows : \A e \in rows : e <= d
           one  == IF rows = {} THEN dep ELSE Detach(dep, lo, n)
           both == IF lo = hi THEN one ELSE Detach(one, hi, n)
           nd1  == [node EXCEPT ![n].iso = TRUE]
           nd2  == DetachDirty(dep, nd1, lo, n)
           nd3  == IF lo = hi THEN nd2 ELSE DetachDirty(one, nd2, hi, n)
           dp1  == Refresh(both, nd1, lo)
           dp2  == IF lo = hi THEN dp1 ELSE Refresh(dp1, nd1, hi)
<1>1. /\ hist \in History /\ dep \in Table /\ node \in Nodes /\ Dated(hist, dep)
      /\ Sound(hist, dep, node)
  BY DEF IInv, RevisionsOK, DeploymentsOK, NodesOK, Safe
<1>2. /\ dep' = IF rows = {} THEN dep ELSE dp2
      /\ node' = IF rows = {} THEN nd1 ELSE nd3
      /\ UNCHANGED <<hist, draft, mach, agent>>
      /\ node[n].phase = "active"
  BY DEF IsolateNode
<1>3. /\ nd1 \in Nodes
      /\ \A m \in Node : /\ nd1[m].phase = node[m].phase /\ nd1[m].epoch = node[m].epoch
                         /\ nd1[m].cfg = node[m].cfg /\ nd1[m].gr = node[m].gr
                         /\ Detached(node, m) => Detached(nd1, m)
  BY <1>1 DEF Nodes, NodeRow, Detached
<1>4. Sound(hist, dep, nd1)
  <2>1. Held(dep, nd1)
    BY <1>1, <1>3 DEF Sound, Held
  <2> QED
    BY <1>1, <2>1 DEF Sound
<1>5. Covered(dep, node, dep, nd1)
  BY <1>3, CoveredSelf
<1>6. CASE rows = {}
  <2> HIDE DEF rows, nd1
  <2> QED
    BY <1>2, <1>3, <1>4, <1>5, <1>6, TableStep
<1>7. CASE rows # {}
  <2>1. rows \subseteq 1..Len(dep) /\ Len(dep) \in Nat /\ rows \subseteq Nat
    BY <1>1 DEF Table
  <2>2. lo \in rows
    <3>1. \E d \in rows : \A e \in rows : d <= e
      BY <1>7, <2>1, SmallestNumber
    <3> QED
      BY <3>1
  <2>3. hi \in rows
    <3>1. \E d \in rows : \A e \in rows : e <= d
      BY <1>7, <2>1, LargestNumber
    <3> QED
      BY <3>1
  <2>4. /\ lo \in DOMAIN dep /\ Open(dep, lo)
        /\ hi \in DOMAIN dep /\ Open(dep, hi)
    BY <2>2, <2>3
  <2> HIDE DEF rows, lo, hi, nd1
  <2>5. one \in Table /\ Keeps(dep, one)
    BY <1>1, <1>7, <2>4, DetachType
  <2>6. /\ Quiet(dep, one)
        /\ \A e \in DOMAIN dep : e # lo => Steady(dep[e], one[e])
        /\ \A e \in DOMAIN dep : one[e].status = dep[e].status
    BY <1>1, <1>7, <2>4, DetachQuiet
  <2>7. Alone(one)
    BY <1>1, <1>7, <2>4, DetachAlone DEF Sound
  <2>8. Covered(dep, nd1, one, nd2) /\ SameMachines(nd1, nd2) /\ nd2 \in Nodes
    BY <1>1, <1>3, <1>7, <2>4, DetachCovered
  <2> HIDE DEF one, nd2
  <2>9. /\ hi \in DOMAIN one /\ Dated(hist, one) /\ DOMAIN one = DOMAIN dep
        /\ one[hi].tgt[n].st = "dispatched" => dep[hi].tgt[n].st = "dispatched"
        /\ one[hi].kind = dep[hi].kind
    BY <1>1, <2>4, <2>5, KeepsDated DEF Keeps, SameOrders
  <2>10. /\ both \in Table /\ Quiet(dep, both) /\ Alone(both)
         /\ \A e \in DOMAIN dep : e \notin {lo, hi} => Steady(dep[e], both[e])
         /\ \A e \in DOMAIN dep : both[e].status = dep[e].status
         /\ Covered(dep, nd1, both, nd3) /\ SameMachines(nd1, nd3)
    <3>1. CASE lo = hi
      BY <2>5, <2>6, <2>7, <2>8, <3>1
    <3>2. CASE lo # hi
      <4>1. Open(one, hi)
        BY <2>4, <2>6 DEF Open
      <4>2. /\ Quiet(one, both)
            /\ \A e \in DOMAIN one : e # hi => Steady(one[e], both[e])
            /\ \A e \in DOMAIN one : both[e].status = one[e].status
        BY <2>5, <2>9, <3>2, <4>1, DetachQuiet
      <4>3. Alone(both)
        BY <2>5, <2>7, <2>9, <3>2, DetachAlone
      <4>4. both \in Table
        BY <1>1, <2>5, <2>9, <3>2, DetachType
      <4>5. Covered(one, nd2, both, nd3) /\ SameMachines(nd2, nd3)
        BY <2>5, <2>8, <2>9, <3>2, DetachCovered
      <4> HIDE DEF both, nd3
      <4>6. Covered(dep, nd1, both, nd3) /\ SameMachines(nd1, nd3)
        BY <2>8, <4>5, CoveredTransitive DEF SameMachines
      <4>7. Quiet(dep, both)
        BY <2>6, <4>2, QuietTransitive
      <4>8. \A e \in DOMAIN dep : e \notin {lo, hi} => Steady(dep[e], both[e])
        BY <2>6, <2>9, <4>2, SteadyTransitive
      <4> QED
        BY <2>6, <2>9, <4>2, <4>3, <4>4, <4>6, <4>7, <4>8
    <3> QED
      BY <3>1, <3>2
  <2> HIDE DEF both, nd3
  <2>11. lo \in DOMAIN both /\ DOMAIN both = DOMAIN dep /\ Open(both, lo)
    BY <2>4, <2>10 DEF Quiet, Open
  <2>12. /\ Quiet(both, dp1)
         /\ \A e \in DOMAIN both : e # lo => Steady(both[e], dp1[e])
         /\ Resumed(dp1[lo])
         /\ Owes(both, dp1, 0, {})
    BY <2>10, <2>11, RefreshQuiet
  <2>13. /\ dp1 \in Table
         /\ DOMAIN dp1 = DOMAIN both
         /\ \A e \in DOMAIN both : e # lo => dp1[e] = both[e]
    BY <2>10, <2>11, RefreshType, RefreshRows
  <2>14. Covered(both, nd3, dp1, nd3)
    BY <2>10, <2>11, RefreshCovered
  <2> HIDE DEF dp1
  <2>15. Alone(dp1)
    BY <2>10, <2>12, QuietAlone
  <2>16. /\ Quiet(both, dp2) /\ Alone(dp2) /\ Covered(both, nd3, dp2, nd3)
         /\ Resumed(dp2[lo]) /\ Resumed(dp2[hi])
         /\ \A e \in DOMAIN both : e \notin {lo, hi} => Steady(both[e], dp2[e])
    <3>1. CASE lo = hi
      BY <2>12, <2>14, <2>15, <3>1
    <3>2. CASE lo # hi
      <4>1. hi \in DOMAIN dp1 /\ Open(dp1, hi)
        BY <2>4, <2>10, <2>11, <2>13, <3>2 DEF Open
      <4>2. /\ Quiet(dp1, dp2)
            /\ \A e \in DOMAIN dp1 : e # hi => Steady(dp1[e], dp2[e])
            /\ Resumed(dp2[hi])
            /\ Owes(dp1, dp2, 0, {})
        BY <2>13, <3>2, <4>1, RefreshQuiet
      <4>3. /\ Covered(dp1, nd3, dp2, nd3)
            /\ \A e \in DOMAIN dp1 : e # hi => dp2[e] = dp1[e]
        BY <2>13, <3>2, <4>1, RefreshCovered, RefreshRows
      <4> HIDE DEF dp2
      <4>4. Alone(dp2)
        BY <2>15, <4>2, QuietAlone
      <4>5. Quiet(both, dp2)
        BY <2>12, <4>2, QuietTransitive
      <4>6. Covered(both, nd3, dp2, nd3)
        BY <2>14, <4>3, CoveredTransitive
      <4>7. dp2[lo] = dp1[lo]
        BY <2>11, <2>13, <3>2, <4>3
      <4>8. \A e \in DOMAIN both : e \notin {lo, hi} => Steady(both[e], dp2[e])
        BY <2>12, <2>13, <4>2, SteadyTransitive
      <4> QED
        BY <2>12, <4>2, <4>4, <4>5, <4>6, <4>7, <4>8
    <3> QED
      BY <3>1, <3>2
  <2> HIDE DEF dp2
  <2>17. \A e \in DOMAIN dep : Steady(dep[e], dp2[e]) \/ Resumed(dp2[e])
    BY <2>10, <2>11, <2>16, SteadyTransitive
  <2>18. Quiet(dep, dp2)
    BY <2>10, <2>16, QuietTransitive
  <2>19. Sound(hist, dp2, nd3)
    BY <1>4, <2>10, <2>16, <2>17, <2>18, QuietSound
  <2>20. Covered(dep, node, dp2, nd3)
    <3>1. Covered(dep, node, both, nd3)
      BY <1>5, <2>10, CoveredTransitive
    <3> QED
      BY <2>16, <3>1, CoveredTransitive
  <2>21. \A m \in Node : nd3[m].phase = node[m].phase
    BY <1>3, <2>10 DEF SameMachines
  <2> QED
    BY <1>2, <1>7, <2>19, <2>20, <2>21, TableStep
<1> QED
  BY <1>6, <1>7
----------------------------------------------------------------------------
(* Inserting deployments keeps what is safe.                               *)

LEMMA CreateFromPlanSafe ==
    ASSUME IInv, Safe, NEW planned \in PlanRow, planned.rev \in DOMAIN hist,
           CreateFromPlan(planned)
    PROVE  Safe'
<1> DEFINE plan == MarkIsolated(planned, Isolated(node))
<1>1. plan \in PlanRow /\ plan.rev \in DOMAIN hist
  BY MarkIsolatedType
<1>2. /\ UNCHANGED <<hist, mach, agent>>
      /\ dep' = Insert(hist, dep, node, plan)
      /\ node' = InsertDirty(dep, node, plan)
  BY DEF CreateFromPlan
<1> HIDE DEF plan
<1>3. /\ hist \in History /\ dep \in Table /\ node \in Nodes
      /\ Dated(hist, dep) /\ Sound(hist, dep, node)
  BY DEF IInv, RevisionsOK, DeploymentsOK, NodesOK, Safe
<1>4. /\ Sound(hist, dep', node') /\ Covered(dep, node, dep', node')
      /\ SameMachines(node, node')
  BY <1>1, <1>2, <1>3, InsertSound
<1> QED
  BY <1>2, <1>4, TableStep DEF SameMachines

LEMMA PlanSafe ==
    ASSUME IInv, Safe, NEW plan \in PlanRow, plan.rev \in DOMAIN hist,
           PlanDeployment(plan) \/ CreateDeployment(plan)
    PROVE  Safe'
<1>1. CASE CreateDeployment(plan)
  BY <1>1, CreateFromPlanSafe DEF CreateDeployment
<1>2. CASE PlanDeployment(plan)
  BY <1>2 DEF PlanDeployment, Safe
<1> QED
  BY <1>1, <1>2

LEMMA ReleaseSafe ==
    ASSUME IInv, Safe, Release
    PROVE  Safe'
<1>1. hist \in History /\ node \in Nodes
  BY DEF IInv, RevisionsOK, NodesOK
<1>2. ASSUME NEW r \in DOMAIN hist, NEW waves \in WaveFunctions,
             \/ PlanDeployment(ConfigPlan(hist, r, node, waves, HotSwap))
             \/ CreateDeployment(ConfigPlan(hist, r, node, waves, HotSwap))
      PROVE  Safe'
  BY <1>1, <1>2, ConfigPlanType, PlanSafe
<1>3. ASSUME NEW r \in DOMAIN hist,
             \/ PlanDeployment(GrantsPlan(hist, r, node))
             \/ CreateDeployment(GrantsPlan(hist, r, node))
      PROVE  Safe'
  BY <1>1, <1>3, GrantsPlanType, PlanSafe
<1>4. ASSUME SubmitPlan
      PROVE  Safe'
  <2>1. draft \in PlanRow /\ draft.rev \in DOMAIN hist
    BY <1>4 DEF SubmitPlan, IInv, DraftOK
  <2> QED
    BY <1>4, <2>1, CreateFromPlanSafe DEF SubmitPlan
<1>5. ASSUME RefusePlan
      PROVE  Safe'
  BY <1>5 DEF RefusePlan, Safe
<1> QED
  BY <1>2, <1>3, <1>4, <1>5 DEF Release

LEMMA IssueTokenSafe ==
    ASSUME IInv, Safe, NEW n \in Node, IssueToken(n)
    PROVE  Safe'
<1>1. /\ node \in Nodes /\ Sound(hist, dep, node)
      /\ UNCHANGED <<hist, dep, mach, agent>>
      /\ node' = [node EXCEPT ![n].tok = TRUE]
  BY DEF IInv, NodesOK, Safe, IssueToken
<1>2. \A m \in Node : /\ node'[m].phase = node[m].phase /\ node'[m].epoch = node[m].epoch
                      /\ node'[m].cfg = node[m].cfg /\ node'[m].gr = node[m].gr
                      /\ node'[m].iso = node[m].iso
  BY <1>1 DEF Nodes, NodeRow
<1>3. Sound(hist, dep, node')
  BY <1>1, <1>2 DEF Sound, Held, Detached
<1>4. Covered(dep, node, dep, node')
  BY <1>2, CoveredSelf
<1> QED
  BY <1>1, <1>2, <1>3, <1>4, TableStep
----------------------------------------------------------------------------
(* The node lifecycle keeps what is safe.                                  *)

LEMMA SameSound ==
    ASSUME NEW h, NEW dp, NEW nd, NEW ne, Sound(h, dp, nd), SameMachines(nd, ne)
    PROVE  Sound(h, dp, ne)
<1> QED
  BY DEF Sound, Held, SameMachines, Detached

\* Without isolated machines nothing of a plan is put off.
LEMMA NothingDeferred ==
    ASSUME NEW plan \in PlanRow
    PROVE  \A n \in Node : MarkIsolated(plan, {}).tgt[n] = plan.tgt[n]
<1> DEFINE late == DeferredBy(plan, {})
<1>1. late = {}
  <2> DEFINE pending == {n \in Node : plan.tgt[n].st = "pending"}
             waits   == IF plan.kind = "config" THEN Requires \cap (pending \X pending)
                                                ELSE {}
             closed  == {S \in SUBSET pending :
                            /\ pending \cap {} \subseteq S
                            /\ \A r \in waits : r[2] \in S => r[1] \in S}
  <2>1. {} \in closed
    OBVIOUS
  <2>2. late = {n \in pending : \A S \in closed : n \in S}
    BY DEF DeferredBy
  <2> HIDE DEF closed, late
  <2> QED
    BY <2>1, <2>2
<1> DEFINE tgt == [n \in Node |-> IF n \in late THEN [plan.tgt[n] EXCEPT !.st = "deferred"]
                                 ELSE plan.tgt[n]]
<1>2. MarkIsolated(plan, {}) = [plan EXCEPT !.tgt = tgt]
  BY DEF MarkIsolated
<1>3. \A n \in Node : tgt[n] = plan.tgt[n]
  BY <1>1
<1> HIDE DEF tgt
<1> QED
  BY <1>2, <1>3 DEF PlanRow

\* A configuration plan has an order for every machine that changes.
LEMMA ConfigPlanPending ==
    ASSUME NEW h, NEW r, NEW nd, NEW waves, NEW told, NEW n \in Changing(h, r, nd),
           ConfigPlan(h, r, nd, waves, told) \in PlanRow
    PROVE  ConfigPlan(h, r, nd, waves, told).tgt[n].st = "pending"
<1> DEFINE row(m) == [NoTarget EXCEPT !.st = "pending", !.wave = waves[m],
                                      !.disr = Disruptive(h, r, nd, told, m),
                                      !.gr = GrantsAt(h, r, m)]
<1>1. n \in Node
  BY DEF Changing
<1>2. ConfigPlan(h, r, nd, waves, told).tgt[n] = row(n)
  BY <1>1 DEF ConfigPlan
<1>3. row(n).st = "pending"
  BY DEF NoTarget
<1> QED
  BY <1>2, <1>3

\* A retirement completes only for a machine that is known to be torn down.
LEMMA NothingToTearDown ==
    ASSUME NEW h \in History, Len(h) \in DOMAIN h, NEW dp, NEW nd \in Nodes, NEW n \in Node,
           NEW waves \in WaveFunctions, NEW ma, NEW ag,
           Believes(dp, nd, ma, ag), Held(dp, nd), \A d \in DOMAIN dp : ~Open(dp, d),
           nd[n].phase = "retiring", h[Len(h)].topo[n] = 0,
           n \notin Planned(MarkIsolated(ConfigPlan(h, Len(h), nd, waves, {}), {}), "pending")
    PROVE  ma[n].cfg = 0 /\ ~(ag[n].pc = "work" /\ ag[n].kind = "config")
<1> DEFINE full == ConfigPlan(h, Len(h), nd, waves, {})
<1>1. full \in PlanRow
  BY ConfigPlanType
<1>2. full.tgt[n].st # "pending"
  <2> HIDE DEF full
  <2> QED
    BY <1>1, NothingDeferred DEF full, Planned
<1>3. n \notin Changing(h, Len(h), nd)
  BY <1>1, <1>2, ConfigPlanPending
<1>4. nd[n].cfg = 0
  BY <1>3 DEF Changing, Participating
<1>5. \A d \in DOMAIN dp : ~Out(dp, d, n)
  BY DEF Out, Held, Detached
<1>6. Unsure # 0
  BY DEF Unsure
<1> QED
  BY <1>4, <1>5, <1>6 DEF Believes

LEMMA ReplanSafe ==
    ASSUME IInv, Safe, NEW n \in Node, NEW h \in History, Len(h) \in DOMAIN h,
           NEW dp \in Table, Dated(h, dp), NEW nd \in Nodes, NEW isolated,
           Sound(h, dp, nd), Covered(dep, node, dp, nd),
           \A m \in Node : /\ nd[m].phase # "active" => h[Len(h)].topo[m] = 0
                           /\ m # n => nd[m].phase = node[m].phase,
           nd[n].phase # "retired", nd[n].phase = "retiring" => isolated = {},
           Replan(n, h, dp, nd, isolated)
    PROVE  Safe'
<1> DEFINE D   == ActiveIds(dp)
           dp1 == Cancel(dp, D)
           nd1 == CancelDirty(dp, nd, D)
           id  == Len(dp) + 1
<1>1. PICK waves \in {WavesFor(h, Len(h), nd1)} \cap WaveFunctions :
        LET plan    == MarkIsolated(ConfigPlan(h, Len(h), nd1, waves, {}), isolated)
            moved   == Planned(plan, "pending") \cup Planned(plan, "deferred")
            pending == n \in Planned(plan, "pending")
            torn    == nd1[n].phase = "retiring" /\ ~pending
            nd2     == [nd1 EXCEPT ![n].phase = IF torn THEN "retired" ELSE @,
                                   ![n].tok = @ /\ ~torn]
            rows    == Insert(h, dp1, nd2, plan)
        IN  /\ moved # {} => Len(dp) < MaxDep
            /\ hist' = h
            /\ dep' = IF moved = {} THEN dp1 ELSE rows
            /\ node' = IF moved = {} THEN nd2
                       ELSE [InsertDirty(dp1, nd2, plan) EXCEPT
                                ![n].life = IF nd2[n].phase = "retiring" /\ pending
                                            THEN id ELSE @]
            /\ serving' = IF moved = {} THEN serving ELSE Serve(serving, rows, nd2, id)
            /\ UNCHANGED <<draft, mach, agent>>
  BY DEF Replan
<1> DEFINE plan    == MarkIsolated(ConfigPlan(h, Len(h), nd1, waves, {}), isolated)
           moved   == Planned(plan, "pending") \cup Planned(plan, "deferred")
           pending == n \in Planned(plan, "pending")
           torn    == nd1[n].phase = "retiring" /\ ~pending
           nd2     == [nd1 EXCEPT ![n].phase = IF torn THEN "retired" ELSE @,
                                  ![n].tok = @ /\ ~torn]
           nd3     == InsertDirty(dp1, nd2, plan)
           life    == IF nd2[n].phase = "retiring" /\ pending THEN id ELSE nd3[n].life
           nd4     == [nd3 EXCEPT ![n].life = life]
           rows    == Insert(h, dp1, nd2, plan)
<1>2. /\ hist' = h
      /\ dep' = IF moved = {} THEN dp1 ELSE rows
      /\ node' = IF moved = {} THEN nd2 ELSE nd4
      /\ UNCHANGED <<mach, agent>>
  BY <1>1
<1>3. nd1 \in Nodes /\ dp1 \in Table /\ Keeps(dp, dp1)
  BY CancelDirtyType, CancelType
<1>4. \A d \in DOMAIN dp1 : ~Open(dp1, d)
  BY <1>3, CancelType DEF ActiveIds, Keeps
<1>5. Dated(h, dp1)
  BY <1>3, KeepsDated
<1>6. plan \in PlanRow /\ plan.rev \in DOMAIN h
  <2> DEFINE full == ConfigPlan(h, Len(h), nd1, waves, {})
  <2>1. full \in PlanRow /\ full.rev = Len(h)
    BY <1>1, <1>3, ConfigPlanType, SMTT(30)
  <2> HIDE DEF full
  <2>2. MarkIsolated(full, isolated) \in PlanRow
        /\ MarkIsolated(full, isolated).rev = full.rev
    BY <2>1, MarkIsolatedType
  <2> QED
    BY <2>1, <2>2 DEF full
<1>7. Covered(dp, nd, dp1, nd1) /\ SameMachines(nd, nd1)
  BY CancelCovered
<1>8. Sound(h, dp1, nd1)
  <2>1. /\ Quiet(dp, dp1) /\ \A e \in DOMAIN dp : Steady(dp[e], dp1[e])
        /\ Owes(dp, dp1, 0, {})
    BY CancelQuiet
  <2>2. Alone(dp1)
    BY <2>1, QuietAlone DEF Sound
  <2> QED
    BY <1>7, <2>1, <2>2, QuietSound
<1>9. Covered(dep, node, dp1, nd1)
  BY <1>7, CoveredTransitive
<1>10. Believes(dp1, nd1, mach, agent)
  BY <1>9, CoveredBelieves DEF Safe
<1>11. torn => mach[n].cfg = 0 /\ ~(agent[n].pc = "work" /\ agent[n].kind = "config")
  <2> SUFFICES ASSUME torn
               PROVE  mach[n].cfg = 0 /\ ~(agent[n].pc = "work" /\ agent[n].kind = "config")
    OBVIOUS
  <2>1. nd1[n].phase = "retiring" /\ nd[n].phase = "retiring" /\ h[Len(h)].topo[n] = 0
    BY <1>7 DEF SameMachines
  <2>2. n \notin Planned(MarkIsolated(ConfigPlan(h, Len(h), nd1, waves, {}), {}), "pending")
    BY <2>1
  <2>3. Held(dp1, nd1) /\ waves \in WaveFunctions
    BY <1>1, <1>8 DEF Sound
  <2> HIDE DEF dp1, nd1, torn, plan
  <2> QED
    BY <1>3, <1>4, <1>10, <2>1, <2>2, <2>3, NothingToTearDown
<1> HIDE DEF D, dp1, nd1, plan
<1>12. /\ \A m \in Node : /\ nd2[m].cfg = nd1[m].cfg /\ nd2[m].gr = nd1[m].gr
                          /\ nd2[m].iso = nd1[m].iso /\ nd2[m].epoch = nd1[m].epoch
                          /\ m # n => nd2[m].phase = nd1[m].phase
       /\ nd2[n].phase = IF torn THEN "retired" ELSE nd1[n].phase
       /\ nd2 \in Nodes
  <2> HIDE DEF torn
  <2>1. nd1[n] \in NodeRow /\ torn \in BOOLEAN
    BY <1>3 DEF Nodes, torn
  <2> DEFINE p == IF torn THEN "retired" ELSE nd1[n].phase
             k == nd1[n].tok /\ ~torn
             put == [nd1[n] EXCEPT !.phase = p, !.tok = k]
  <2>2. p \in Participating \cup {"retired", "abandoned"} /\ k \in BOOLEAN
    BY <2>1 DEF NodeRow
  <2>3. nd2 = [nd1 EXCEPT ![n] = put]
    BY <1>3, <2>1 DEF Nodes, NodeRow
  <2>4. p = IF torn THEN "retired" ELSE nd1[n].phase
    OBVIOUS
  <2> HIDE DEF p, k, nd2
  <2>5. /\ put \in NodeRow /\ put.cfg = nd1[n].cfg /\ put.gr = nd1[n].gr
        /\ put.iso = nd1[n].iso /\ put.epoch = nd1[n].epoch /\ put.phase = p
    BY <2>1, <2>2 DEF NodeRow
  <2> HIDE DEF put
  <2>6. /\ nd2 \in Nodes
        /\ \A m \in Node : nd2[m] = IF m = n THEN put ELSE nd1[m]
    BY <1>3, <2>3, <2>5 DEF Nodes
  <2> QED
    BY <2>4, <2>5, <2>6
<1>13. torn => nd1[n].phase = "retiring"
  OBVIOUS
<1> HIDE DEF torn, nd2, pending
<1>14. Sound(h, dp1, nd2)
  <2>1. Held(dp1, nd2)
    BY <1>8, <1>12, <1>13 DEF Sound, Held, Detached
  <2> QED
    BY <1>8, <2>1 DEF Sound
<1>15. Covered(dep, node, dp1, nd2)
  <2>1. Covered(dp1, nd1, dp1, nd2)
    BY <1>12, CoveredSelf
  <2> QED
    BY <1>9, <2>1, CoveredTransitive
<1>16. Off(h, nd2, mach, agent)
  <2> SUFFICES ASSUME NEW m \in Node
               PROVE  /\ nd2[m].phase = "retired" =>
                            mach[m].cfg = 0 /\ ~(agent[m].pc = "work" /\ agent[m].kind = "config")
                      /\ nd2[m].phase # "active" => h[Len(h)].topo[m] = 0
    BY DEF Off
  <2>1. nd1[m].phase = nd[m].phase
    BY <1>7 DEF SameMachines
  <2>2. nd2[m].phase # "active" => h[Len(h)].topo[m] = 0
    BY <1>12, <1>13, <2>1
  <2>3. CASE m = n
    BY <1>11, <1>12, <2>1, <2>2, <2>3
  <2>4. CASE m # n
    BY <1>12, <2>1, <2>2, <2>4 DEF Safe, Off
  <2> QED
    BY <2>3, <2>4
<1>17. CASE moved = {}
  <2>1. Believes(dp1, nd2, mach, agent)
    BY <1>15, CoveredBelieves DEF Safe
  <2> QED
    BY <1>2, <1>14, <1>16, <1>17, <2>1 DEF Safe
<1>18. CASE moved # {}
  <2>1. /\ Sound(h, rows, nd3) /\ Covered(dp1, nd2, rows, nd3) /\ SameMachines(nd2, nd3)
    BY <1>3, <1>5, <1>6, <1>12, <1>14, InsertSound
  <2>2. nd3 \in Nodes
    BY <1>12, InsertDirtyType
  <2> HIDE DEF nd3, life, rows
  <2>3. /\ SameMachines(nd3, nd4)
        /\ \A m \in Node : nd4[m].cfg = nd3[m].cfg /\ nd4[m].gr = nd3[m].gr
    BY <2>2 DEF Nodes, NodeRow, SameMachines
  <2>4. dep' = rows /\ node' = nd4
    BY <1>2, <1>18
  <2> HIDE DEF nd4, moved
  <2>5. Sound(h, rows, nd4)
    BY <2>1, <2>3, SameSound
  <2>6. Covered(rows, nd3, rows, nd4)
    BY <2>3, CoveredSelf
  <2>7. Covered(dep, node, rows, nd4)
    BY <1>15, <2>1, <2>6, CoveredTransitive
  <2>8. Believes(rows, nd4, mach, agent)
    BY <2>7, CoveredBelieves DEF Safe
  <2>9. \A m \in Node : nd4[m].phase = nd2[m].phase
    BY <2>1, <2>3 DEF SameMachines
  <2>10. Off(h, nd4, mach, agent)
    BY <1>16, <2>9 DEF Off
  <2> QED
    BY <1>2, <2>4, <2>5, <2>8, <2>10 DEF Safe
<1> QED
  BY <1>17, <1>18

LEMMA AdvancedRows ==
    ASSUME NEW nd \in Nodes, NEW n \in Node, NEW phase
    PROVE  /\ Advanced(nd, n, phase)[n].phase = phase
           /\ \A m \in Node : /\ Advanced(nd, n, phase)[m].cfg = nd[m].cfg
                              /\ Advanced(nd, n, phase)[m].gr = nd[m].gr
                              /\ Advanced(nd, n, phase)[m].iso = nd[m].iso
                              /\ m # n => Advanced(nd, n, phase)[m] = nd[m]
<1> DEFINE put == [nd[n] EXCEPT !.phase = phase, !.life = 0, !.epoch = nd[n].epoch + 1]
<1>1. nd[n] \in NodeRow
  BY DEF Nodes
<1>2. put.phase = phase /\ put.cfg = nd[n].cfg /\ put.gr = nd[n].gr /\ put.iso = nd[n].iso
  BY <1>1 DEF NodeRow
<1>3. \A m \in Node : Advanced(nd, n, phase)[m] = IF m = n THEN put ELSE nd[m]
  BY DEF Advanced, Nodes
<1> HIDE DEF put
<1> QED
  BY <1>2, <1>3

\* advance_intent_tx closes the machine's debt before its epoch moves on.
LEMMA AdvancedSound ==
    ASSUME IInv, Safe, NEW n \in Node, NEW phase
    PROVE  LET dp == AdvanceIntent(dep, n)
               nd == Advanced(AdvanceDirty(dep, node, n), n, phase)
           IN  /\ Sound(hist, dp, nd) /\ Covered(dep, node, dp, nd)
               /\ nd[n].phase = phase
               /\ \A m \in Node \ {n} : nd[m].phase = node[m].phase
<1> DEFINE dp == AdvanceIntent(dep, n)
           ad == AdvanceDirty(dep, node, n)
           nd == Advanced(ad, n, phase)
<1>1. dep \in Table /\ node \in Nodes /\ Sound(hist, dep, node)
  BY DEF IInv, DeploymentsOK, NodesOK, Safe
<1>2. /\ Quiet(dep, dp) /\ \A d \in DOMAIN dep : Steady(dep[d], dp[d])
      /\ Owes(dep, dp, 0, {})
      /\ \A d \in DOMAIN dep : dp[d].tgt[n].ost \notin Debt
  BY <1>1, AdvanceIntentQuiet
<1>3. Covered(dep, node, dp, ad) /\ SameMachines(node, ad)
  BY <1>1, AdvanceCovered
<1>4. ad \in Nodes
  BY <1>1, AdvanceDirtyType
<1>5. Alone(dp)
  BY <1>1, <1>2, QuietAlone DEF Sound
<1>6. Sound(hist, dp, ad)
  BY <1>1, <1>2, <1>3, <1>5, QuietSound
<1>7. /\ nd[n].phase = phase
      /\ \A m \in Node : /\ nd[m].cfg = ad[m].cfg /\ nd[m].gr = ad[m].gr
                         /\ nd[m].iso = ad[m].iso
                         /\ m # n => nd[m] = ad[m]
  BY <1>4, AdvancedRows
<1>8. DOMAIN dp = DOMAIN dep
  BY <1>2 DEF Quiet
<1> HIDE DEF dp, ad, nd
<1>9. Held(dp, nd)
  BY <1>2, <1>6, <1>7, <1>8 DEF Held, Sound, Debt, Detached
<1>10. Sound(hist, dp, nd)
  BY <1>6, <1>9 DEF Sound
<1>11. Covered(dep, node, dp, nd)
  <2>1. Covered(dp, ad, dp, nd)
    BY <1>7, CoveredSelf
  <2> QED
    BY <1>3, <2>1, CoveredTransitive
<1> QED
  BY <1>3, <1>7, <1>10, <1>11 DEF SameMachines, dp, ad, nd

LEMMA LifecycleSafe ==
    ASSUME IInv, Safe, NEW n \in Node,
           Retire(n) \/ Reactivate(n) \/ RepairTeardown(n) \/ Abandon(n)
    PROVE  Safe'
<1>1. /\ hist \in History /\ dep \in Table /\ node \in Nodes /\ Dated(hist, dep)
      /\ Len(hist) \in DOMAIN hist /\ hist[Len(hist)] \in RevisionRow /\ Len(hist) \in Nat
  BY LatestRow DEF IInv, RevisionsOK, DeploymentsOK, NodesOK, Latest
<1>2. ASSUME NEW row \in RevisionRow
      PROVE  /\ Append(hist, row) \in History
             /\ Len(Append(hist, row)) \in DOMAIN Append(hist, row)
             /\ Append(hist, row)[Len(Append(hist, row))] = row
             /\ DOMAIN hist \subseteq DOMAIN Append(hist, row)
  BY <1>1 DEF History
<1>3. AdvanceDirty(dep, node, n) \in Nodes
  BY <1>1, AdvanceDirtyType
<1>4. AdvanceIntent(dep, n) \in Table /\ Dated(hist, AdvanceIntent(dep, n))
  BY <1>1, AdvanceIntentType, KeepsDated
<1>5. \A m \in Node : node[m].phase # "active" => hist[Len(hist)].topo[m] = 0
  BY DEF Safe, Off
<1>6. ASSUME NEW row \in RevisionRow, NEW phase \in {"retiring", "active"},
             phase # "active" => row.topo[n] = 0,
             \A m \in Node \ {n} : row.topo[m] = hist[Len(hist)].topo[m],
             NEW isolated, phase = "retiring" => isolated = {},
             Replan(n, Append(hist, row), AdvanceIntent(dep, n),
                    Advanced(AdvanceDirty(dep, node, n), n, phase), isolated)
      PROVE  Safe'
  <2> DEFINE dp == AdvanceIntent(dep, n)
             nd == Advanced(AdvanceDirty(dep, node, n), n, phase)
             h  == Append(hist, row)
  <2>1. /\ Sound(hist, dp, nd) /\ Covered(dep, node, dp, nd)
        /\ nd[n].phase = phase
        /\ \A m \in Node \ {n} : nd[m].phase = node[m].phase
    BY AdvancedSound
  <2>2. phase \in Participating \cup {"retired", "abandoned"}
    BY DEF Participating
  <2>3. nd \in Nodes
    BY <1>3, <2>2, AdvancedType
  <2>4. /\ h \in History /\ Len(h) \in DOMAIN h /\ h[Len(h)] = row
        /\ Dated(h, dp)
    BY <1>2, <1>4 DEF Dated
  <2>5. Sound(h, dp, nd)
    BY <1>1, <1>4, <2>1, SoundAppend
  <2>6. dp \in Table
    BY <1>4
  <2>7. Replan(n, h, dp, nd, isolated)
    BY <1>6
  <2> HIDE DEF dp, nd, h
  <2>8. \A m \in Node : /\ nd[m].phase # "active" => h[Len(h)].topo[m] = 0
                        /\ m # n => nd[m].phase = node[m].phase
    BY <1>5, <1>6, <2>1, <2>4
  <2>9. nd[n].phase # "retired" /\ (nd[n].phase = "retiring" => isolated = {})
    BY <1>6, <2>1
  <2> QED
    BY <2>1, <2>3, <2>4, <2>5, <2>6, <2>7, <2>8, <2>9, ReplanSafe
<1>7. CASE Retire(n)
  <2> DEFINE row == [hist[Latest] EXCEPT !.topo[n] = 0]
  <2>1. /\ row \in RevisionRow /\ row.topo[n] = 0
        /\ \A m \in Node \ {n} : row.topo[m] = hist[Len(hist)].topo[m]
    BY <1>1 DEF RevisionRow, Latest
  <2>2. Replan(n, Append(hist, row), AdvanceIntent(dep, n),
               Advanced(AdvanceDirty(dep, node, n), n, "retiring"), {})
    BY <1>7 DEF Retire
  <2> HIDE DEF row
  <2> QED
    BY <1>6, <2>1, <2>2
<1>8. CASE Reactivate(n)
  <2> DEFINE row == [hist[Latest] EXCEPT !.topo[n] = Latest + 1]
  <2>1. /\ row \in RevisionRow
        /\ \A m \in Node \ {n} : row.topo[m] = hist[Len(hist)].topo[m]
    BY <1>1 DEF RevisionRow, Latest
  <2>2. Replan(n, Append(hist, row), AdvanceIntent(dep, n),
               Advanced(AdvanceDirty(dep, node, n), n, "active"), Isolated(node))
    BY <1>8 DEF Reactivate
  <2> HIDE DEF row
  <2> QED
    BY <1>6, <2>1, <2>2
<1>9. CASE RepairTeardown(n)
  <2> DEFINE nd == AdvanceDirty(dep, node, n)
  <2>1. Covered(dep, node, dep, nd) /\ SameMachines(node, nd)
    BY <1>1, AdvanceCovered
  <2>2. Sound(hist, dep, nd)
    BY <2>1, SameSound DEF Safe
  <2>3. node[n].phase = "retiring" /\ Replan(n, hist, dep, nd, {})
    BY <1>9 DEF RepairTeardown
  <2>4. nd \in Nodes
    BY <1>3
  <2> HIDE DEF nd
  <2>5. \A m \in Node : nd[m].phase = node[m].phase
    BY <2>1 DEF SameMachines
  <2>6. \A m \in Node : /\ nd[m].phase # "active" => hist[Len(hist)].topo[m] = 0
                        /\ m # n => nd[m].phase = node[m].phase
    BY <1>5, <2>5
  <2>7. nd[n].phase # "retired"
    BY <2>3, <2>5
  <2> QED
    BY <1>1, <2>1, <2>2, <2>3, <2>4, <2>6, <2>7, ReplanSafe
<1>10. CASE Abandon(n)
  <2> DEFINE ad == Advanced(node, n, "abandoned")
             nd == [ad EXCEPT ![n].tok = FALSE]
  <2>1. node[n].phase = "retiring" /\ Replan(n, hist, dep, nd, {})
    BY <1>10 DEF Abandon
  <2>2. ad \in Nodes
    BY <1>1, AdvancedType
  <2>3. /\ ad[n].phase = "abandoned"
        /\ \A m \in Node : /\ ad[m].cfg = node[m].cfg /\ ad[m].gr = node[m].gr
                           /\ ad[m].iso = node[m].iso
                           /\ m # n => ad[m] = node[m]
    BY <1>1, AdvancedRows
  <2> HIDE DEF ad
  <2>4. /\ nd \in Nodes
        /\ \A m \in Node : /\ nd[m].cfg = ad[m].cfg /\ nd[m].gr = ad[m].gr
                           /\ nd[m].iso = ad[m].iso /\ nd[m].phase = ad[m].phase
                           /\ m # n => nd[m] = ad[m]
    BY <2>2 DEF Nodes, NodeRow
  <2> HIDE DEF nd
  <2>5. Sound(hist, dep, nd)
    <3>1. Held(dep, nd)
      BY <2>1, <2>3, <2>4 DEF Safe, Sound, Held, Detached
    <3> QED
      BY <3>1 DEF Safe, Sound
  <2>6. Covered(dep, node, dep, nd)
    BY <2>3, <2>4, CoveredSelf
  <2>7. \A m \in Node : /\ nd[m].phase # "active" => hist[Len(hist)].topo[m] = 0
                        /\ m # n => nd[m].phase = node[m].phase
    BY <1>5, <2>1, <2>3, <2>4
  <2>8. nd[n].phase # "retired" /\ nd[n].phase # "retiring"
    BY <2>3, <2>4
  <2> QED
    BY <1>1, <2>1, <2>4, <2>5, <2>6, <2>7, <2>8, ReplanSafe
<1> QED
  BY <1>7, <1>8, <1>9, <1>10
----------------------------------------------------------------------------
(* The agents keep what is safe.                                           *)

\* What Believes says of one machine.
Believed(dp, nd, ma, ag, n) ==
    /\ \/ nd[n].cfg \in {Unsure, ma[n].cfg}
       \/ \E d \in DOMAIN dp : dp[d].kind = "config" /\ Out(dp, d, n)
    /\ \/ nd[n].gr \in {Unsure, ma[n].gr}
       \/ \E d \in DOMAIN dp : Out(dp, d, n)
    /\ ag[n].pc # "idle" => ag[n].dep \in DOMAIN dp /\ ag[n].kind = dp[ag[n].dep].kind
    /\ ag[n].pc = "work" =>
          \/ Out(dp, ag[n].dep, n)
          \/ nd[n].gr = Unsure /\ (ag[n].kind = "config" => nd[n].cfg = Unsure)
    /\ ag[n].pc = "spool" =>
          ag[n].gr = ma[n].gr /\ (ag[n].kind = "config" => ag[n].cfg = ma[n].cfg)

\* A step of machine n and its agent that leaves the tables alone.
LEMMA MachineBelieves ==
    ASSUME NEW dp, NEW nd, NEW ma, NEW ag, NEW mb, NEW ah, NEW n \in Node,
           Believes(dp, nd, ma, ag), Believed(dp, nd, mb, ah, n),
           \A m \in Node \ {n} : mb[m] = ma[m] /\ ah[m] = ag[m]
    PROVE  Believes(dp, nd, mb, ah)
<1>1. ASSUME NEW m \in Node
      PROVE  Believed(dp, nd, mb, ah, m)
  <2>1. CASE m = n
    BY <2>1
  <2>2. CASE m # n
    <3>1. mb[m] = ma[m] /\ ah[m] = ag[m]
      BY <2>2
    <3> QED
      BY <3>1 DEF Believes, Believed
  <2> QED
    BY <2>1, <2>2
<1> QED
  BY <1>1 DEF Believes, Believed

\* A claim puts an order out before the agent hears of it.
LEMMA HandedSafe ==
    ASSUME IInv, Safe, NEW n \in Node, NEW d \in DOMAIN dep, NEW claim, NEW gr,
           NEW lost \in BOOLEAN, Handed(n, Work(d, n, claim, gr), lost),
           UNCHANGED <<hist, node, serving, draft, mach>>,
           Sound(hist, dep', node), Covered(dep, node, dep', node), Out(dep', d, n),
           node[n].phase \in Participating
    PROVE  Safe'
<1> DEFINE w == Work(d, n, claim, gr)
<1>1. w.pc = "work" /\ w.dep = d /\ w.kind = dep[d].kind
  BY DEF Work
<1>2. agent' = IF lost THEN agent ELSE [agent EXCEPT ![n] = w]
  BY DEF Handed
<1> HIDE DEF w
<1>3. agent \in [Node -> AgentRow]
  BY DEF IInv, MachinesOK, Agents, AgentRow
<1>4. Believes(dep', node, mach, agent)
  BY CoveredBelieves DEF Safe
<1>5. node[n].phase # "retired"
  BY DEF Participating
<1>6. CASE lost
  BY <1>2, <1>4, <1>6 DEF Safe
<1>7. CASE ~lost
  <2>1. agent'[n] = w /\ \A m \in Node \ {n} : agent'[m] = agent[m]
    BY <1>2, <1>3, <1>7
  <2>2. d \in DOMAIN dep' /\ dep'[d].kind = dep[d].kind
    BY DEF Covered
  <2>3. /\ \/ node[n].cfg \in {Unsure, mach[n].cfg}
           \/ \E e \in DOMAIN dep' : dep'[e].kind = "config" /\ Out(dep', e, n)
        /\ \/ node[n].gr \in {Unsure, mach[n].gr}
           \/ \E e \in DOMAIN dep' : Out(dep', e, n)
    BY <1>4 DEF Believes
  <2>4. Believes(dep', node, mach, agent')
    <3>1. Believed(dep', node, mach, agent', n)
      BY <1>1, <2>1, <2>2, <2>3 DEF Believed
    <3> QED
      BY <1>4, <2>1, <3>1, MachineBelieves
  <2>5. Off(hist, node, mach, agent')
    BY <1>5, <2>1 DEF Off, Safe
  <2> QED
    BY <2>4, <2>5 DEF Safe
<1> QED
  BY <1>6, <1>7

LEMMA ClaimObligationSafe ==
    ASSUME IInv, Safe, NEW n \in Node, NEW d \in DOMAIN dep, NEW lost \in BOOLEAN,
           ClaimObligation(n, d, lost)
    PROVE  Safe'
<1> DEFINE t     == dep[d].tgt[n]
           claim == IF t.ost = "pending" THEN t.claim + 1 ELSE t.claim
           tgt   == [dep[d].tgt EXCEPT ![n].ost = "dispatched", ![n].claim = claim]
           row   == [dep[d] EXCEPT !.tgt = tgt]
           u     == tgt[n]
<1>1. /\ dep \in Table /\ dep[d] \in DeploymentRow
      /\ t \in Target /\ dep[d].tgt \in [Node -> Target]
      /\ Sound(hist, dep, node)
  BY RowType DEF IInv, DeploymentsOK, DeploymentRow, Safe
<1>2. /\ dep' = [dep EXCEPT ![d] = row]
      /\ Handed(n, Work(d, n, claim, t.ogr), lost)
      /\ UNCHANGED <<hist, node, serving, draft, mach>>
      /\ Detached(node, n) /\ t.ost \in OpenTarget /\ t.ep = node[n].epoch
  BY DEF ClaimObligation, CurrentDebt
<1> HIDE DEF claim
<1>3. /\ u.wave = t.wave /\ u.disr = t.disr /\ u.ep = t.ep /\ u.fz = t.fz
      /\ u.st = t.st /\ u.ost = "dispatched"
      /\ \A m \in Node \ {n} : tgt[m] = dep[d].tgt[m]
  BY <1>1 DEF Target
<1> HIDE DEF tgt
<1>4. /\ row.kind = dep[d].kind /\ row.rev = dep[d].rev /\ row.tgt = tgt
      /\ row.status = dep[d].status /\ row.activation = dep[d].activation
      /\ row.confirmed = dep[d].confirmed /\ row.settle = dep[d].settle
  BY <1>1 DEF DeploymentRow
<1> HIDE DEF row
<1>5. SoundRow(hist, dep[d]) /\ Resumed(dep[d]) /\ Columns(t)
  BY <1>1 DEF Sound, SoundRow
<1>6. t.st \in {"deferred", "superseded"}
  BY <1>2, <1>5 DEF Columns
<1>7. SoundRow(hist, row)
  <2>1. \A m \in Node : Columns(tgt[m])
    BY <1>3, <1>5, <1>6 DEF SoundRow, Columns
  <2>2. \A m \in Node : ~Unconfirmed(hist, row, m)
    BY <1>3, <1>4, <1>5 DEF SoundRow, Unconfirmed
  <2>3. \A m \in Node : /\ Started(tgt[m]) <=> Started(dep[d].tgt[m])
                        /\ Unsettled(tgt[m]) <=> Unsettled(dep[d].tgt[m])
                        /\ tgt[m].wave = dep[d].tgt[m].wave
    BY <1>3, <1>6 DEF Started, Unsettled
  <2>4. Ordered(row)
    BY <1>4, <1>5, <2>3 DEF SoundRow, Ordered
  <2>5. \A m \in Node : /\ tgt[m].ost = "failed" <=> dep[d].tgt[m].ost = "failed"
                        /\ tgt[m].ost \in OpenTarget <=> dep[d].tgt[m].ost \in OpenTarget
    BY <1>2, <1>3 DEF OpenTarget
  <2>6. Settlement(tgt) = Settlement(dep[d].tgt)
    <3>1. (\E m \in Node : tgt[m].ost = "failed") <=> (\E m \in Node : dep[d].tgt[m].ost = "failed")
      BY <2>5
    <3>2. (\E m \in Node : tgt[m].ost \in OpenTarget)
              <=> (\E m \in Node : dep[d].tgt[m].ost \in OpenTarget)
      BY <2>5
    <3> QED
      BY <3>1, <3>2, Zenon DEF Settlement
  <2> QED
    BY <1>4, <1>5, <2>1, <2>2, <2>4, <2>6 DEF SoundRow
<1>8. Resumed(row)
  <2>1. \A m \in Node : /\ tgt[m].st = dep[d].tgt[m].st /\ tgt[m].wave = dep[d].tgt[m].wave
                        /\ tgt[m].st = "failed" => tgt[m].ost = dep[d].tgt[m].ost
    BY <1>3, <1>6
  <2> QED
    BY <1>4, <1>5, <2>1 DEF Resumed
<1>9. /\ DOMAIN dep' = DOMAIN dep
      /\ \A e \in DOMAIN dep : dep'[e] = IF e = d THEN row ELSE dep[e]
  BY <1>1, <1>2 DEF Table
<1>10. \A e \in DOMAIN dep, m \in Node :
          /\ dep'[e].kind = dep[e].kind /\ dep'[e].tgt[m].ep = dep[e].tgt[m].ep
          /\ dep'[e].tgt[m].ost = dep[e].tgt[m].ost \/ (e = d /\ m = n)
  BY <1>3, <1>4, <1>9
<1>11. Sound(hist, dep', node)
  <2>1. Alone(dep')
    BY <1>1, <1>2, <1>9, <1>10 DEF Sound, Alone, Debt, OpenTarget
  <2>2. Held(dep', node)
    BY <1>1, <1>2, <1>9, <1>10 DEF Sound, Held
  <2>3. \A e \in DOMAIN dep' : SoundRow(hist, dep'[e]) /\ Resumed(dep'[e])
    BY <1>1, <1>7, <1>8, <1>9 DEF Sound
  <2> QED
    BY <2>1, <2>2, <2>3 DEF Sound
<1>12. Covered(dep, node, dep', node)
  <2>1. \A m \in Node : /\ dep[d].tgt[m].st = "dispatched" => tgt[m].st = "dispatched"
                        /\ dep[d].tgt[m].ost = "dispatched" => tgt[m].ost = "dispatched"
    BY <1>3
  <2> QED
    BY <1>1, <1>2, <1>4, <2>1, RowCovered DEF Open
<1>13. Out(dep', d, n)
  BY <1>3, <1>4, <1>9 DEF Out
<1>14. node[n].phase \in Participating
  BY <1>2 DEF Detached, Participating
<1> HIDE DEF t
<1> QED
  BY <1>2, <1>11, <1>12, <1>13, <1>14, HandedSafe

\* The wave a release is in is the lowest one with an open target.
LEMMA LowestWave ==
    ASSUME NEW dp \in Table, NEW d \in DOMAIN dp, NEW n \in Node,
           dp[d].tgt[n].st \in OpenTarget
    PROVE  \A m \in Node : dp[d].tgt[m].st \in OpenTarget
                              => CurrentWave(dp, d) <= dp[d].tgt[m].wave
<1> DEFINE W == {dp[d].tgt[m].wave : m \in OpenNodes(dp, d)}
<1>1. \A m \in Node : dp[d].tgt[m].wave \in Nat
  BY RowType DEF Target
<1>2. W \subseteq Nat /\ W # {}
  BY <1>1 DEF OpenNodes
<1>3. \E w \in W : \A v \in W : w <= v
  BY <1>2, SmallestNumber
<1>4. \E w \in W : \A m \in OpenNodes(dp, d) : w <= dp[d].tgt[m].wave
  BY <1>3
<1>5. \A m \in OpenNodes(dp, d) : CurrentWave(dp, d) <= dp[d].tgt[m].wave
  BY <1>4 DEF CurrentWave
<1> QED
  BY <1>5 DEF OpenNodes

\* A target goes out in the lowest open wave, through the gate.
LEMMA ClaimTargetSafe ==
    ASSUME IInv, Safe, NEW n \in Node, NEW d \in DOMAIN dep, NEW lost \in BOOLEAN,
           ClaimTarget(n, d, lost)
    PROVE  Safe'
<1> DEFINE t     == dep[d].tgt[n]
           fresh == t.st = "pending"
           gr    == IF fresh THEN t.gr ELSE t.fz
           tgt   == [dep[d].tgt EXCEPT ![n].st = "dispatched", ![n].fz = gr]
           row   == [dep[d] EXCEPT !.tgt = tgt, !.status = "running"]
           u     == tgt[n]
<1>1. /\ dep \in Table /\ dep[d] \in DeploymentRow
      /\ t \in Target /\ dep[d].tgt \in [Node -> Target]
      /\ Sound(hist, dep, node)
  BY RowType DEF IInv, DeploymentsOK, DeploymentRow, Safe
<1>2. /\ dep' = IF ~fresh THEN dep ELSE [dep EXCEPT ![d] = row]
      /\ Handed(n, Work(d, n, 0, gr), lost)
      /\ UNCHANGED <<hist, node, serving, draft, mach>>
      /\ t.st \in OpenTarget /\ dep[d].status \in {"planned", "running"}
      /\ node[n].phase \in Participating
      /\ t.wave = CurrentWave(dep, d) /\ GateOpen(d, t.wave)
  BY DEF ClaimTarget, FirstOffer, Offers, Authenticated
<1>3. dep[d].status \in OpenDeployment
  BY <1>2 DEF OpenDeployment
<1>4. SoundRow(hist, dep[d]) /\ Resumed(dep[d]) /\ Columns(t)
  BY <1>1 DEF Sound, SoundRow
<1> HIDE DEF gr
<1>5. CASE ~fresh
  <2>1. dep' = dep /\ t.st = "dispatched"
    BY <1>2, <1>5 DEF OpenTarget
  <2>2. Out(dep, d, n)
    BY <1>3, <2>1 DEF Out, Open
  <2>3. Covered(dep, node, dep, node)
    BY CoveredSelf
  <2> HIDE DEF t, fresh
  <2> QED
    BY <1>1, <1>2, <2>1, <2>2, <2>3, HandedSafe
<1>6. CASE fresh
  <2>1. /\ u.wave = t.wave /\ u.disr = t.disr /\ u.ep = t.ep /\ u.ost = t.ost
        /\ u.st = "dispatched"
        /\ \A m \in Node \ {n} : tgt[m] = dep[d].tgt[m]
    BY <1>1 DEF Target
  <2> HIDE DEF tgt
  <2>2. /\ row.kind = dep[d].kind /\ row.rev = dep[d].rev /\ row.tgt = tgt
        /\ row.status = "running" /\ row.activation = dep[d].activation
        /\ row.confirmed = dep[d].confirmed
    BY <1>1 DEF DeploymentRow
  <2> HIDE DEF row
  <2>3. t.ost \notin OpenTarget /\ t.ost # "failed"
    BY <1>4, <1>6 DEF Columns
  <2>4. \A m \in Node : Columns(tgt[m])
    BY <1>4, <2>1, <2>3 DEF SoundRow, Columns
  <2>5. \A m \in Node : ~Unconfirmed(hist, row, m)
    <3>1. ASSUME Unconfirmed(hist, row, n)
          PROVE  FALSE
      <4>1. /\ ~Unattended /\ t.disr /\ t.wave \notin dep[d].confirmed
            /\ t.wave > 1 \/ hist[dep[d].rev].topo[n] = 0
        BY <3>1, <2>1, <2>2 DEF Unconfirmed
      <4>2. n \in OpenNodes(dep, d)
        BY <1>2 DEF OpenNodes
      <4>3. RequiresConfirmation(dep, d, t.wave)
        BY <4>1, <4>2 DEF RequiresConfirmation
      <4> QED
        BY <1>2, <4>1, <4>3 DEF GateOpen
    <3>2. ASSUME NEW m \in Node \ {n}
          PROVE  ~Unconfirmed(hist, row, m)
      BY <1>4, <2>1, <2>2 DEF SoundRow, Unconfirmed
    <3> QED
      BY <3>1, <3>2
  <2>6. \A m \in Node : Unsettled(dep[d].tgt[m]) => t.wave <= dep[d].tgt[m].wave
    <3> SUFFICES ASSUME NEW m \in Node, Unsettled(dep[d].tgt[m])
                 PROVE  t.wave <= dep[d].tgt[m].wave
      OBVIOUS
    <3>1. \A k \in Node : dep[d].tgt[k].st \in OpenTarget => t.wave <= dep[d].tgt[k].wave
      BY <1>1, <1>2, LowestWave
    <3>2. CASE dep[d].tgt[m].st \in OpenTarget
      BY <3>1, <3>2
    <3>3. CASE dep[d].tgt[m].st = "failed" /\ dep[d].tgt[m].ost # "failed"
      <4>1. PICK k \in Node : /\ dep[d].tgt[k].st \in OpenTarget
                              /\ dep[d].tgt[k].wave <= dep[d].tgt[m].wave
        BY <1>2, <1>4, <3>3 DEF Resumed
      <4>2. \A j \in Node : dep[d].tgt[j].wave \in Nat
        BY <1>1, RowType DEF Target
      <4> QED
        BY <3>1, <4>1, <4>2
    <3> QED
      BY <3>2, <3>3 DEF Unsettled
  <2>7. Ordered(row)
    <3> SUFFICES ASSUME NEW m \in Node, NEW k \in Node,
                        Started(tgt[k]), Unsettled(tgt[m])
                 PROVE  tgt[k].wave <= tgt[m].wave
      BY <2>2 DEF Ordered
    <3>1. Unsettled(dep[d].tgt[m]) /\ tgt[m].wave = dep[d].tgt[m].wave
      BY <1>2, <2>1 DEF Unsettled
    <3>2. CASE k = n
      BY <2>1, <2>6, <3>1, <3>2
    <3>3. CASE k # n
      BY <1>3, <1>4, <2>1, <3>1, <3>3 DEF SoundRow, Ordered
    <3> QED
      BY <3>2, <3>3
  <2>8. SoundRow(hist, row)
    BY <1>3, <1>4, <2>2, <2>4, <2>5, <2>7 DEF SoundRow, OpenDeployment
  <2>9. Resumed(row)
    <3>1. \A m \in Node : /\ tgt[m].st = "failed" => tgt[m] = dep[d].tgt[m]
                          /\ dep[d].tgt[m].st \in OpenTarget => tgt[m].st \in OpenTarget
                          /\ tgt[m].wave = dep[d].tgt[m].wave
      BY <2>1 DEF OpenTarget
    <3> QED
      BY <1>2, <1>4, <2>2, <3>1 DEF Resumed
  <2>10. \A m \in Node : tgt[m].ost = dep[d].tgt[m].ost /\ tgt[m].ep = dep[d].tgt[m].ep
    BY <2>1
  <2>11. dep' = [dep EXCEPT ![d] = row]
    BY <1>2, <1>6
  <2>12. Sound(hist, dep', node)
    BY <1>1, <2>2, <2>8, <2>9, <2>10, <2>11, RowSound
  <2>13. Covered(dep, node, dep', node)
    <3>1. \A m \in Node : dep[d].tgt[m].st = "dispatched" => tgt[m].st = "dispatched"
      BY <2>1
    <3> QED
      BY <1>1, <2>2, <2>10, <2>11, <3>1, RowCovered DEF OpenDeployment
  <2>14. Out(dep', d, n)
    <3>1. dep'[d] = row
      BY <1>1, <2>11 DEF Table
    <3> QED
      BY <2>1, <2>2, <3>1 DEF Out, Open, OpenDeployment
  <2>15. Handed(n, Work(d, n, 0, gr), lost)
    BY <1>2
  <2> HIDE DEF t, fresh
  <2> QED
    BY <1>2, <2>12, <2>13, <2>14, <2>15, HandedSafe
<1> QED
  BY <1>5, <1>6

\* Only configuration work touches Xray; grants work rewrites the list.
LEMMA OutcomesRows ==
    ASSUME IInv, NEW n \in Node, NEW result \in {"applied", "recovered", "dirty"},
           agent[n].kind # "config"
    PROVE  Outcomes(n)[result].cfg = mach[n].cfg
<1> DEFINE a == agent[n]
           want(c, g) == IF a.kind = "config" THEN [cfg |-> c, gr |-> g]
                                              ELSE [mach[n] EXCEPT !.gr = g]
<1>1. mach[n] \in Contents
  BY AgentType
<1>2. ASSUME NEW c, NEW g
      PROVE  want(c, g).cfg = mach[n].cfg
  BY <1>1 DEF Contents
<1>3. Outcomes(n) = [applied |-> want(a.cfg, a.gr), recovered |-> mach[n],
                     dirty |-> want(Unsure, Unsure)]
  BY DEF Outcomes
<1> HIDE DEF want
<1> QED
  BY <1>2, <1>3

\* Whatever work leaves behind, an order is out or the row is dirty.
LEMMA WorkSafe ==
    ASSUME IInv, Safe, NEW n \in Node, NEW result \in {"applied", "recovered", "dirty"},
           agent[n].pc = "work", UNCHANGED <<hist, dep, node>>,
           mach' = [mach EXCEPT ![n] = Outcomes(n)[result]],
           \A m \in Node \ {n} : agent'[m] = agent[m],
           \/ agent'[n] = agent[n]
           \/ agent'[n].pc = "idle"
           \/ /\ agent'[n].pc = "spool"
              /\ agent'[n].dep = agent[n].dep /\ agent'[n].kind = agent[n].kind
              /\ agent'[n].cfg = Outcomes(n)[result].cfg
              /\ agent'[n].gr = Outcomes(n)[result].gr
    PROVE  Safe'
<1> DEFINE seen == Outcomes(n)[result]
<1>1. /\ mach'[n] = seen
      /\ \A m \in Node \ {n} : mach'[m] = mach[m]
  BY DEF IInv, MachinesOK
<1>2. agent[n].kind # "config" => seen.cfg = mach[n].cfg
  BY OutcomesRows
<1>3. /\ agent[n].dep \in DOMAIN dep /\ agent[n].kind = dep[agent[n].dep].kind
      /\ \/ Out(dep, agent[n].dep, n)
         \/ node[n].gr = Unsure /\ (agent[n].kind = "config" => node[n].cfg = Unsure)
      /\ \/ node[n].cfg \in {Unsure, mach[n].cfg}
         \/ \E d \in DOMAIN dep : dep[d].kind = "config" /\ Out(dep, d, n)
  BY DEF Safe, Believes
<1> HIDE DEF seen
<1>4. \/ node[n].cfg \in {Unsure, mach'[n].cfg}
      \/ \E d \in DOMAIN dep : dep[d].kind = "config" /\ Out(dep, d, n)
  <2>1. CASE agent[n].kind = "config"
    BY <1>3, <2>1
  <2>2. CASE agent[n].kind # "config"
    BY <1>1, <1>2, <1>3, <2>2
  <2> QED
    BY <2>1, <2>2
<1>5. \/ node[n].gr \in {Unsure, mach'[n].gr}
      \/ \E d \in DOMAIN dep : Out(dep, d, n)
  BY <1>3
<1>6. /\ agent'[n].pc # "idle" => /\ agent'[n].dep \in DOMAIN dep
                                  /\ agent'[n].kind = dep[agent'[n].dep].kind
      /\ agent'[n].pc = "work" =>
            \/ Out(dep, agent'[n].dep, n)
            \/ node[n].gr = Unsure /\ (agent'[n].kind = "config" => node[n].cfg = Unsure)
      /\ agent'[n].pc = "spool" =>
            /\ agent'[n].gr = mach'[n].gr
            /\ agent'[n].kind = "config" => agent'[n].cfg = mach'[n].cfg
  BY <1>1, <1>3 DEF seen
<1>7. \A m \in Node \ {n} : mach'[m] = mach[m] /\ agent'[m] = agent[m]
  BY <1>1
<1>8. Believes(dep, node, mach, agent)
  BY DEF Safe
<1>9. Believes(dep, node, mach', agent')
  <2>1. Believed(dep, node, mach', agent', n)
    BY <1>4, <1>5, <1>6 DEF Believed
  <2> QED
    <3>1. \A m \in Node \ {n} : mach'[m] = mach[m] /\ agent'[m] = agent[m]
      BY <1>7
    <3>2. n \in Node
      OBVIOUS
    <3> HIDE DEF seen
    <3> QED
      BY ONLY <1>8, <2>1, <3>1, <3>2, MachineBelieves
<1>10. Off(hist, node, mach', agent')
  <2> SUFFICES ASSUME NEW m \in Node, node[m].phase = "retired"
               PROVE  /\ mach'[m].cfg = 0
                      /\ ~(agent'[m].pc = "work" /\ agent'[m].kind = "config")
    BY DEF Off, Safe
  <2>1. mach[m].cfg = 0 /\ ~(agent[m].pc = "work" /\ agent[m].kind = "config")
    BY DEF Off, Safe
  <2>2. CASE m # n
    BY <1>7, <2>1, <2>2
  <2>3. CASE m = n
    BY <1>1, <1>2, <2>1, <2>3
  <2> QED
    BY <2>2, <2>3
<1> QED
  BY <1>9, <1>10 DEF Safe

LEMMA ExecuteSafe ==
    ASSUME IInv, Safe, NEW n \in Node, NEW result \in {"applied", "recovered", "dirty"},
           Execute(n, result)
    PROVE  Safe'
<1> DEFINE seen == Outcomes(n)[result]
           a == [agent[n] EXCEPT !.pc = "spool", !.ok = result = "applied",
                                 !.cfg = seen.cfg, !.gr = seen.gr]
<1>1. /\ mach' = [mach EXCEPT ![n] = seen]
      /\ agent' = [agent EXCEPT ![n].pc = "spool", ![n].ok = result = "applied",
                                ![n].cfg = seen.cfg, ![n].gr = seen.gr]
      /\ agent[n].pc = "work"
      /\ UNCHANGED <<hist, dep, node>>
  BY DEF Execute
<1> HIDE DEF seen
<1>2. agent[n] \in AgentRow /\ agent \in [Node -> AgentRow]
  BY AgentType DEF IInv, MachinesOK, Agents, AgentRow
<1>3. /\ a.pc = "spool" /\ a.dep = agent[n].dep /\ a.kind = agent[n].kind
      /\ a.cfg = seen.cfg /\ a.gr = seen.gr
  BY <1>2 DEF AgentRow
<1>4. agent'[n] = a /\ \A m \in Node \ {n} : agent'[m] = agent[m]
  BY <1>1, <1>2
<1> HIDE DEF a
<1> QED
  BY <1>1, <1>3, <1>4, WorkSafe DEF seen

LEMMA CrashSafe ==
    ASSUME IInv, Safe, NEW n \in Node, NEW result \in {"applied", "recovered", "dirty"},
           Crash(n, result)
    PROVE  Safe'
<1>1. /\ mach' = [mach EXCEPT ![n] = Outcomes(n)[result]]
      /\ agent' = IF agent[n].kind = "config" /\ agent[n].cfg # 0 THEN agent
                  ELSE [agent EXCEPT ![n] = Idle]
      /\ agent[n].pc = "work"
      /\ UNCHANGED <<hist, dep, node>>
  BY DEF Crash
<1>2. agent \in [Node -> AgentRow]
  BY DEF IInv, MachinesOK, Agents, AgentRow
<1>3. agent'[n] \in {agent[n], Idle} /\ \A m \in Node \ {n} : agent'[m] = agent[m]
  BY <1>1, <1>2
<1>4. agent'[n] = agent[n] \/ agent'[n].pc = "idle"
  BY <1>3, IdleType
<1> QED
  BY <1>1, <1>3, <1>4, WorkSafe
----------------------------------------------------------------------------
(* Reports keep what is safe.                                              *)

LEMMA ObservedRows ==
    ASSUME IInv, NEW n \in Node
    PROVE  LET ne == Observed(node, n)
           IN  /\ ne \in Nodes
               /\ ne[n].cfg = IF agent[n].kind = "config" THEN agent[n].cfg ELSE node[n].cfg
               /\ ne[n].gr = agent[n].gr
               /\ \A m \in Node \ {n} : ne[m] = node[m]
               /\ SameMachines(node, ne)
               /\ ne[n].tok = node[n].tok
<1> DEFINE c == IF agent[n].kind = "config" THEN agent[n].cfg ELSE node[n].cfg
           put == [node[n] EXCEPT !.cfg = c, !.gr = agent[n].gr]
           ne == Observed(node, n)
<1>1. node \in Nodes /\ node[n] \in NodeRow
  BY DEF IInv, NodesOK, Nodes
<1>2. /\ put.cfg = c /\ put.gr = agent[n].gr /\ put.iso = node[n].iso
      /\ put.phase = node[n].phase /\ put.epoch = node[n].epoch /\ put.tok = node[n].tok
  BY <1>1 DEF NodeRow
<1>3. \A m \in Node : ne[m] = IF m = n THEN put ELSE node[m]
  BY <1>1 DEF Observed, Nodes, NodeRow
<1>4. ne \in Nodes
  BY ObservedType
<1> HIDE DEF put, ne
<1>5. SameMachines(node, ne)
  BY <1>2, <1>3 DEF SameMachines
<1> QED
  BY <1>2, <1>3, <1>4, <1>5 DEF ne

\* A report ends one order and replaces what was believed of its machine: an
\* order of the other kind that is out accounts for the column it left alone.
LEMMA ReportBelieves ==
    ASSUME IInv, Believes(dep, node, mach, agent), NEW n \in Node, agent[n].pc = "spool",
           NEW dq, DOMAIN dq = DOMAIN dep, \A e \in DOMAIN dep : dq[e].kind = dep[e].kind,
           \A e \in DOMAIN dep, m \in Node :
              (e # agent[n].dep \/ m # n) /\ Out(dep, e, m) => Out(dq, e, m),
           NEW ne,
           ne[n].cfg = IF agent[n].kind = "config" THEN agent[n].cfg ELSE node[n].cfg,
           ne[n].gr = agent[n].gr,
           \A m \in Node \ {n} : ne[m] = node[m]
    PROVE  Believes(dq, ne, mach, agent)
<1>1. /\ agent[n].dep \in DOMAIN dep /\ agent[n].kind = dep[agent[n].dep].kind
      /\ agent[n].gr = mach[n].gr
      /\ agent[n].kind = "config" => agent[n].cfg = mach[n].cfg
      /\ \/ node[n].cfg \in {Unsure, mach[n].cfg}
         \/ \E d \in DOMAIN dep : dep[d].kind = "config" /\ Out(dep, d, n)
  BY DEF Believes
<1>2. \/ ne[n].cfg \in {Unsure, mach[n].cfg}
      \/ \E d \in DOMAIN dq : dq[d].kind = "config" /\ Out(dq, d, n)
  <2>1. CASE agent[n].kind = "config"
    BY <1>1, <2>1
  <2>2. CASE agent[n].kind # "config" /\ node[n].cfg \in {Unsure, mach[n].cfg}
    BY <2>2
  <2>3. ASSUME agent[n].kind # "config", NEW d \in DOMAIN dep,
               dep[d].kind = "config", Out(dep, d, n)
        PROVE  d \in DOMAIN dq /\ dq[d].kind = "config" /\ Out(dq, d, n)
    BY <1>1, <2>3
  <2> QED
    BY <1>1, <2>1, <2>2, <2>3
<1>3. Believed(dq, ne, mach, agent, n)
  BY <1>1, <1>2 DEF Believed
<1>4. ASSUME NEW m \in Node, m # n
      PROVE  Believed(dq, ne, mach, agent, m)
  <2>1. ne[m] = node[m] /\ \A e \in DOMAIN dep : Out(dep, e, m) => Out(dq, e, m)
    BY <1>4
  <2>2. Believed(dep, node, mach, agent, m)
    BY DEF Believes, Believed
  <2> QED
    BY <2>1, <2>2 DEF Believed
<1> QED
  BY <1>3, <1>4 DEF Believes, Believed

\* The agent forgets a report that was answered, and only then.
LEMMA ReportedSafe ==
    ASSUME IInv, NEW n \in Node, NEW lost \in BOOLEAN, agent[n].pc = "spool",
           agent' = IF lost THEN agent ELSE [agent EXCEPT ![n] = Idle],
           UNCHANGED <<hist, mach>>, Sound(hist, dep', node'),
           Believes(dep', node', mach, agent), Off(hist, node', mach, agent)
    PROVE  Safe'
<1>1. agent \in [Node -> AgentRow]
  BY DEF IInv, MachinesOK, Agents, AgentRow
<1>2. /\ agent'[n] \in {agent[n], Idle}
      /\ \A m \in Node \ {n} : agent'[m] = agent[m]
  BY <1>1
<1>3. agent'[n] = agent[n] \/ agent'[n].pc = "idle"
  BY <1>2, IdleType
<1>4. Believed(dep', node', mach, agent', n)
  <2>1. Believed(dep', node', mach, agent, n)
    BY DEF Believes, Believed
  <2> QED
    BY <1>3, <2>1 DEF Believed
<1>5. Believes(dep', node', mach, agent')
  <2>1. n \in Node /\ \A m \in Node \ {n} : mach[m] = mach[m] /\ agent'[m] = agent[m]
    BY <1>2
  <2>2. Believes(dep', node', mach, agent)
    OBVIOUS
  <2> QED
    BY ONLY <1>4, <2>1, <2>2, MachineBelieves
<1>6. Off(hist, node', mach, agent')
  BY <1>2, <1>3 DEF Off
<1> QED
  BY <1>5, <1>6 DEF Safe

LEMMA SettleObligationSafe ==
    ASSUME IInv, Safe, NEW n \in Node, agent[n].pc = "spool",
           SettleObligation(agent[n].dep, n)
    PROVE  /\ Sound(hist, dep', node')
           /\ Believes(dep', node', mach, agent)
           /\ Off(hist, node', mach, agent)
<1> DEFINE d   == agent[n].dep
           t   == dep[d].tgt[n]
           v   == Verdict(d, n, t.ogr)
           tgt == [dep[d].tgt EXCEPT ![n].st = v, ![n].ost = v, ![n].fz = Null]
           row == [dep[d] EXCEPT !.tgt = tgt, !.settle = Settlement(tgt)]
           u   == tgt[n]
<1>1. /\ dep \in Table /\ node \in Nodes /\ d \in DOMAIN dep
      /\ Sound(hist, dep, node)
  BY AgentType DEF IInv, DeploymentsOK, NodesOK, Safe
<1>2. /\ dep' = [dep EXCEPT ![d] = row] /\ node' = Observed(node, n)
      /\ node[n].iso /\ node[n].phase = "active" /\ t.ost = "dispatched"
      /\ t.ep = node[n].epoch
  BY DEF SettleObligation, SettlesObligation, ForObligation
<1>3. v \in {"succeeded", "failed"}
  BY VerdictType
<1> HIDE DEF d, v
<1>4. /\ dep[d] \in DeploymentRow /\ t \in Target /\ dep[d].tgt \in [Node -> Target]
  BY <1>1, RowType DEF DeploymentRow
<1>5. /\ u.wave = t.wave /\ u.disr = t.disr /\ u.ep = t.ep
      /\ u.st = v /\ u.ost = v
      /\ \A m \in Node \ {n} : tgt[m] = dep[d].tgt[m]
  BY <1>4 DEF Target
<1> HIDE DEF tgt
<1>6. /\ row.kind = dep[d].kind /\ row.rev = dep[d].rev /\ row.tgt = tgt
      /\ row.status = dep[d].status /\ row.activation = dep[d].activation
      /\ row.confirmed = dep[d].confirmed /\ row.settle = Settlement(tgt)
  BY <1>4 DEF DeploymentRow
<1> HIDE DEF row
<1>7. SoundRow(hist, dep[d]) /\ Resumed(dep[d]) /\ Columns(t)
  BY <1>1 DEF Sound, SoundRow
<1>8. t.st \in {"deferred", "superseded"}
  BY <1>2, <1>7 DEF Columns, OpenTarget
<1>9. SoundRow(hist, row)
  <2>1. \A m \in Node : Columns(tgt[m])
    BY <1>3, <1>5, <1>7 DEF SoundRow, Columns, OpenTarget
  <2>2. \A m \in Node : ~Unconfirmed(hist, row, m)
    BY <1>3, <1>5, <1>6, <1>7 DEF SoundRow, Unconfirmed
  <2>3. \A m \in Node : /\ Started(tgt[m]) => Started(dep[d].tgt[m])
                        /\ Unsettled(tgt[m]) => Unsettled(dep[d].tgt[m])
                        /\ tgt[m].wave = dep[d].tgt[m].wave
    BY <1>3, <1>5 DEF Started, Unsettled, OpenTarget
  <2>4. Ordered(row)
    BY <1>6, <1>7, <2>3 DEF SoundRow, Ordered
  <2> QED
    BY <1>6, <1>7, <2>1, <2>2, <2>4 DEF SoundRow
<1>10. Resumed(row)
  <2>1. \A m \in Node : /\ tgt[m].wave = dep[d].tgt[m].wave
                        /\ tgt[m].st = "failed" /\ tgt[m].ost # "failed" => tgt[m] = dep[d].tgt[m]
                        /\ dep[d].tgt[m].st \in OpenTarget => tgt[m] = dep[d].tgt[m]
    BY <1>3, <1>5, <1>8 DEF OpenTarget
  <2> QED
    BY <1>6, <1>7, <2>1 DEF Resumed
<1>11. /\ DOMAIN dep' = DOMAIN dep
       /\ \A e \in DOMAIN dep : dep'[e] = IF e = d THEN row ELSE dep[e]
  BY <1>1, <1>2 DEF Table
<1>12. \A e \in DOMAIN dep, m \in Node :
          /\ dep'[e].kind = dep[e].kind /\ dep'[e].tgt[m].ep = dep[e].tgt[m].ep
          /\ dep'[e].tgt[m].ost = dep[e].tgt[m].ost \/ (e = d /\ m = n)
  BY <1>5, <1>6, <1>11
<1>13. LET ne == Observed(node, n)
       IN  /\ ne[n].cfg = IF agent[n].kind = "config" THEN agent[n].cfg ELSE node[n].cfg
           /\ ne[n].gr = agent[n].gr
           /\ \A m \in Node \ {n} : ne[m] = node[m]
           /\ SameMachines(node, ne)
  BY ObservedRows
<1>14. Sound(hist, dep', node)
  <2>1. Alone(dep')
    BY <1>1, <1>2, <1>11, <1>12 DEF Sound, Alone, Debt
  <2>2. Held(dep', node)
    BY <1>1, <1>2, <1>11, <1>12 DEF Sound, Held, Detached
  <2>3. \A e \in DOMAIN dep' : SoundRow(hist, dep'[e]) /\ Resumed(dep'[e])
    BY <1>1, <1>9, <1>10, <1>11 DEF Sound
  <2> QED
    BY <2>1, <2>2, <2>3 DEF Sound
<1>15. Sound(hist, dep', node')
  BY <1>2, <1>13, <1>14, SameSound
<1>16. Believes(dep', node', mach, agent)
  <2>1. ASSUME NEW e \in DOMAIN dep, NEW m \in Node, e # d \/ m # n, Out(dep, e, m)
        PROVE  Out(dep', e, m)
    BY <1>5, <1>6, <1>11, <2>1 DEF Out, Open
  <2>2. Believes(dep, node, mach, agent)
    BY DEF Safe
  <2>3. \A e \in DOMAIN dep, m \in Node :
           (e # agent[n].dep \/ m # n) /\ Out(dep, e, m) => Out(dep', e, m)
    BY <2>1 DEF d
  <2>4. /\ node'[n].cfg = IF agent[n].kind = "config" THEN agent[n].cfg ELSE node[n].cfg
        /\ node'[n].gr = agent[n].gr
        /\ \A m \in Node \ {n} : node'[m] = node[m]
    BY <1>2, <1>13
  <2>5. DOMAIN dep' = DOMAIN dep /\ \A e \in DOMAIN dep : dep'[e].kind = dep[e].kind
    BY <1>11, <1>12
  <2>6. IInv /\ n \in Node /\ agent[n].pc = "spool"
    OBVIOUS
  <2> QED
    BY ONLY <2>2, <2>3, <2>4, <2>5, <2>6, ReportBelieves
<1>17. Off(hist, node', mach, agent)
  BY <1>2, <1>13 DEF SameMachines, Off, Safe
<1> QED
  BY <1>15, <1>16, <1>17

LEMMA SettleTargetSafe ==
    ASSUME IInv, Safe, NEW n \in Node, agent[n].pc = "spool",
           SettleTarget(agent[n].dep, n)
    PROVE  /\ Sound(hist, dep', node')
           /\ Believes(dep', node', mach, agent)
           /\ Off(hist, node', mach, agent)
<1> DEFINE d    == agent[n].dep
           t    == dep[d].tgt[n]
           v    == Verdict(d, n, t.fz)
           done == TeardownProved(d, n, v)
           tgt  == [dep[d].tgt EXCEPT ![n].st = v, ![n].fz = Null]
           row  == [dep[d] EXCEPT !.tgt = tgt]
           dp1  == [dep EXCEPT ![d] = row]
           seen == Observed(node, n)
           nd1  == [seen EXCEPT ![n].phase = IF done THEN "retired" ELSE @,
                                ![n].tok = @ /\ ~done]
           held == /\ dep[d].status = "halted"
                   /\ v = "succeeded"
                   /\ \E m \in Node : tgt[m].st \notin {"none", "succeeded"}
           dp2  == Refresh(dp1, nd1, d)
           u    == tgt[n]
<1>1. /\ dep \in Table /\ node \in Nodes /\ d \in DOMAIN dep
      /\ Sound(hist, dep, node)
  BY AgentType DEF IInv, DeploymentsOK, NodesOK, Safe
<1>2. /\ dep' = (IF held THEN dp1 ELSE dp2)
      /\ node' = nd1
      /\ Open(dep, d) /\ t.st \in OpenTarget /\ t.fz # Null
      /\ held => dep[d].status = "halted"
  BY DEF SettleTarget, SettlesTarget
<1>3. v \in {"succeeded", "failed"}
  BY VerdictType
<1>4. /\ done \in BOOLEAN
      /\ done => /\ node[n].phase = "retiring" /\ dep[d].kind = "config"
                 /\ v = "succeeded" /\ hist[dep[d].rev].topo[n] = 0
  BY DEF TeardownProved
<1>5. v = "succeeded" /\ agent[n].kind = "config" => agent[n].cfg = hist[dep[d].rev].topo[n]
  BY DEF Verdict
<1>6. /\ agent[n].kind = dep[d].kind
      /\ agent[n].kind = "config" => agent[n].cfg = mach[n].cfg
  BY DEF Safe, Believes
<1>7. done => mach[n].cfg = 0
  BY <1>4, <1>5, <1>6
<1> HIDE DEF d, v, done
<1>8. /\ dep[d] \in DeploymentRow /\ t \in Target /\ dep[d].tgt \in [Node -> Target]
  BY <1>1, RowType DEF DeploymentRow
<1>9. /\ u.wave = t.wave /\ u.disr = t.disr /\ u.ep = t.ep /\ u.ost = t.ost
      /\ u.st = v /\ u.fz = Null /\ u \in Target
      /\ \A m \in Node \ {n} : tgt[m] = dep[d].tgt[m]
      /\ tgt \in [Node -> Target]
  <2> DEFINE put == [t EXCEPT !.st = v, !.fz = Null]
  <2>1. put \in Target /\ put.st = v /\ put.fz = Null
        /\ put.wave = t.wave /\ put.disr = t.disr /\ put.ep = t.ep /\ put.ost = t.ost
    BY <1>3, <1>8 DEF Target
  <2>2. tgt = [dep[d].tgt EXCEPT ![n] = put]
    BY <1>8 DEF Target
  <2> HIDE DEF put, tgt
  <2> QED
    BY <1>8, <2>1, <2>2
<1> HIDE DEF tgt
<1>10. /\ row.kind = dep[d].kind /\ row.rev = dep[d].rev /\ row.tgt = tgt
       /\ row.status = dep[d].status /\ row.activation = dep[d].activation
       /\ row.confirmed = dep[d].confirmed /\ row \in DeploymentRow
  BY <1>8, <1>9 DEF DeploymentRow
<1> HIDE DEF row
<1>11. SoundRow(hist, dep[d]) /\ Resumed(dep[d]) /\ Columns(t)
  BY <1>1 DEF Sound, SoundRow
<1>12. t.st = "dispatched" /\ t.ost \notin Debt
  BY <1>2, <1>11 DEF Columns, OpenTarget, Debt
<1>13. SoundRow(hist, row)
  <2>1. \A m \in Node : Columns(tgt[m])
    BY <1>3, <1>9, <1>11, <1>12 DEF SoundRow, Columns, OpenTarget, Debt
  <2>2. \A m \in Node : ~Unconfirmed(hist, row, m)
    BY <1>3, <1>9, <1>10, <1>11, <1>12 DEF SoundRow, Unconfirmed
  <2>3. \A m \in Node : /\ Started(tgt[m]) => Started(dep[d].tgt[m])
                        /\ Unsettled(tgt[m]) => Unsettled(dep[d].tgt[m])
                        /\ tgt[m].wave = dep[d].tgt[m].wave
    BY <1>3, <1>9, <1>12 DEF Started, Unsettled, OpenTarget
  <2>4. Ordered(row)
    BY <1>10, <1>11, <2>3 DEF SoundRow, Ordered
  <2> QED
    BY <1>2, <1>10, <1>11, <2>1, <2>2, <2>4 DEF SoundRow, Open
<1>14. /\ DOMAIN dp1 = DOMAIN dep
       /\ \A e \in DOMAIN dep : dp1[e] = IF e = d THEN row ELSE dep[e]
       /\ dp1 \in Table
  BY <1>1, <1>10 DEF Table
<1> HIDE DEF dp1, held
<1>15. \A e \in DOMAIN dep, m \in Node :
          /\ dp1[e].kind = dep[e].kind /\ dp1[e].tgt[m].ep = dep[e].tgt[m].ep
          /\ dp1[e].tgt[m].ost = dep[e].tgt[m].ost
  BY <1>9, <1>10, <1>14
<1>16. /\ seen \in Nodes
       /\ seen[n].cfg = IF agent[n].kind = "config" THEN agent[n].cfg ELSE node[n].cfg
       /\ seen[n].gr = agent[n].gr
       /\ \A m \in Node \ {n} : seen[m] = node[m]
       /\ SameMachines(node, seen)
  BY ObservedRows
<1> HIDE DEF seen
<1>17. /\ nd1[n].cfg = seen[n].cfg /\ nd1[n].gr = seen[n].gr /\ nd1[n].iso = seen[n].iso
       /\ nd1[n].epoch = seen[n].epoch
       /\ nd1[n].phase = IF done THEN "retired" ELSE seen[n].phase
       /\ \A m \in Node \ {n} : nd1[m] = seen[m]
  <2> DEFINE p == IF done THEN "retired" ELSE seen[n].phase
             k == seen[n].tok /\ ~done
             put == [seen[n] EXCEPT !.phase = p, !.tok = k]
  <2>1. seen[n] \in NodeRow
    BY <1>16 DEF Nodes
  <2>2. nd1 = [seen EXCEPT ![n] = put]
    BY <1>16, <2>1 DEF Nodes, NodeRow
  <2>3. p = IF done THEN "retired" ELSE seen[n].phase
    OBVIOUS
  <2> HIDE DEF p, k
  <2>4. /\ put.cfg = seen[n].cfg /\ put.gr = seen[n].gr /\ put.iso = seen[n].iso
        /\ put.epoch = seen[n].epoch /\ put.phase = p
    BY <2>1 DEF NodeRow
  <2> HIDE DEF put, nd1
  <2>5. \A m \in Node : nd1[m] = IF m = n THEN put ELSE seen[m]
    BY <1>16, <2>2 DEF Nodes
  <2> QED
    BY <2>3, <2>4, <2>5
<1> HIDE DEF nd1
<1>18. Held(dp1, nd1)
  <2>1. Held(dep, node)
    BY <1>1 DEF Sound
  <2> QED
    BY <1>4, <1>14, <1>15, <1>16, <1>17, <2>1 DEF Held, Detached, SameMachines
<1>19. Alone(dp1)
  BY <1>1, <1>14, <1>15 DEF Sound, Alone
<1>20. \A e \in DOMAIN dep : SoundRow(hist, dp1[e]) /\ (e # d => Resumed(dp1[e]))
  BY <1>1, <1>13, <1>14 DEF Sound
<1>21. Believes(dp1, nd1, mach, agent)
  <2>1. ASSUME NEW e \in DOMAIN dep, NEW m \in Node, e # d \/ m # n, Out(dep, e, m)
        PROVE  Out(dp1, e, m)
    BY <1>9, <1>10, <1>14, <2>1 DEF Out, Open
  <2>2. Believes(dep, node, mach, agent)
    BY DEF Safe
  <2>3. \A e \in DOMAIN dep, m \in Node :
           (e # agent[n].dep \/ m # n) /\ Out(dep, e, m) => Out(dp1, e, m)
    BY <2>1 DEF d
  <2>4. /\ nd1[n].cfg = IF agent[n].kind = "config" THEN agent[n].cfg ELSE node[n].cfg
        /\ nd1[n].gr = agent[n].gr
        /\ \A m \in Node \ {n} : nd1[m] = node[m]
    BY <1>16, <1>17
  <2>5. DOMAIN dp1 = DOMAIN dep /\ \A e \in DOMAIN dep : dp1[e].kind = dep[e].kind
    BY <1>14, <1>15
  <2>6. IInv /\ n \in Node /\ agent[n].pc = "spool"
    OBVIOUS
  <2> QED
    BY ONLY <2>2, <2>3, <2>4, <2>5, <2>6, ReportBelieves
<1>22. Off(hist, nd1, mach, agent)
  <2> SUFFICES ASSUME NEW m \in Node
               PROVE  /\ nd1[m].phase = "retired" =>
                            mach[m].cfg = 0 /\ ~(agent[m].pc = "work" /\ agent[m].kind = "config")
                      /\ nd1[m].phase # "active" => hist[Len(hist)].topo[m] = 0
    BY DEF Off
  <2>1. /\ node[m].phase = "retired" =>
              mach[m].cfg = 0 /\ ~(agent[m].pc = "work" /\ agent[m].kind = "config")
        /\ node[m].phase # "active" => hist[Len(hist)].topo[m] = 0
    BY DEF Safe, Off
  <2>2. CASE m # n
    BY <1>16, <1>17, <2>1, <2>2
  <2>3. CASE m = n
    BY <1>4, <1>7, <1>16, <1>17, <2>1, <2>3 DEF SameMachines
  <2> QED
    BY <2>2, <2>3
<1>23. CASE held
  <2>1. Resumed(row)
    BY <1>2, <1>10, <1>23 DEF Resumed
  <2>2. \A e \in DOMAIN dp1 : SoundRow(hist, dp1[e]) /\ Resumed(dp1[e])
    BY <1>14, <1>20, <2>1
  <2>3. dep' = dp1
    BY <1>2, <1>23
  <2> QED
    BY <1>2, <1>18, <1>19, <1>21, <1>22, <2>2, <2>3 DEF Sound
<1>24. CASE ~held
  <2>1. dep' = dp2
    BY <1>2, <1>24
  <2>2. Open(dp1, d) /\ d \in DOMAIN dp1
    BY <1>1, <1>2, <1>10, <1>14 DEF Open
  <2>3. /\ Quiet(dp1, dp2)
        /\ \A e \in DOMAIN dp1 : e # d => Steady(dp1[e], dp2[e])
        /\ Resumed(dp2[d])
        /\ Owes(dp1, dp2, 0, {})
    BY <1>14, <2>2, RefreshQuiet
  <2>4. Covered(dp1, nd1, dp2, nd1)
    BY <1>14, <2>2, RefreshCovered
  <2> HIDE DEF dp2
  <2>5. DOMAIN dp2 = DOMAIN dp1 /\ \A e \in DOMAIN dp1 : QuietRow(dp1[e], dp2[e])
    BY <2>3 DEF Quiet
  <2>6. ASSUME NEW e \in DOMAIN dp2
        PROVE  SoundRow(hist, dp2[e]) /\ Resumed(dp2[e])
    <3>1. QuietRow(dp1[e], dp2[e]) /\ SoundRow(hist, dp1[e])
      BY <1>14, <1>20, <2>5
    <3>2. SoundRow(hist, dp2[e])
      BY <3>1, QuietSoundRow
    <3>3. CASE e = d
      BY <2>3, <3>2, <3>3
    <3>4. CASE e # d
      <4>1. Resumed(dp1[e]) /\ Steady(dp1[e], dp2[e])
        BY <1>14, <1>20, <2>3, <2>5, <3>4
      <4> QED
        BY <3>1, <3>2, <4>1, SteadyResumed
    <3> QED
      BY <3>3, <3>4
  <2>7. Alone(dp2)
    BY <1>19, <2>3, QuietAlone
  <2>8. SameMachines(nd1, nd1)
    BY DEF SameMachines
  <2>9. Held(dp2, nd1)
    BY <1>18, <2>3, <2>8, QuietHeld
  <2>10. Sound(hist, dp2, nd1)
    BY <2>6, <2>7, <2>9 DEF Sound
  <2>11. Believes(dp2, nd1, mach, agent)
    BY <1>21, <2>4, CoveredBelieves
  <2> QED
    BY <1>2, <1>22, <2>1, <2>10, <2>11
<1> QED
  BY <1>23, <1>24

LEMMA DeliverSafe ==
    ASSUME IInv, Safe, NEW n \in Node, NEW lost \in BOOLEAN, Deliver(n, lost)
    PROVE  Safe'
<1>1. /\ agent[n].pc = "spool"
      /\ \/ SettleObligation(agent[n].dep, n)
         \/ SettleTarget(agent[n].dep, n)
         \/ RefuseReport(agent[n].dep, n)
      /\ agent' = IF lost THEN agent ELSE [agent EXCEPT ![n] = Idle]
      /\ UNCHANGED <<hist, mach>>
  BY DEF Deliver
<1>2. /\ Sound(hist, dep', node')
      /\ Believes(dep', node', mach, agent)
      /\ Off(hist, node', mach, agent)
  <2>1. CASE RefuseReport(agent[n].dep, n)
    BY <2>1 DEF RefuseReport, Safe
  <2> QED
    BY <1>1, <2>1, SettleObligationSafe, SettleTargetSafe
<1> QED
  BY <1>1, <1>2, ReportedSafe
----------------------------------------------------------------------------
(* The strengthened invariant is inductive.                                *)

LEMMA InitSafe == Init => Safe
<1> SUFFICES ASSUME Init
             PROVE  Safe
  OBVIOUS
<1> DEFINE put == [NoTarget EXCEPT !.st = "succeeded", !.gr = 1]
<1>1. put.st = "succeeded" /\ put.ost = "none" /\ put.disr = FALSE
  BY DEF NoTarget
<1>2. FirstRelease = [kind |-> "config", rev |-> 1, status |-> "succeeded",
                      settle |-> "converged", activation |-> "activated",
                      confirmed |-> {}, tgt |-> [n \in Node |-> put]]
  BY DEF FirstRelease
<1> HIDE DEF put
<1>3. DOMAIN dep = {1} /\ dep[1] = FirstRelease
  BY DEF Init
<1>4. /\ FirstRelease.status = "succeeded" /\ FirstRelease.settle = "converged"
      /\ \A n \in Node : /\ FirstRelease.tgt[n].st = "succeeded"
                         /\ FirstRelease.tgt[n].ost = "none"
                         /\ FirstRelease.tgt[n].disr = FALSE
  BY <1>1, <1>2
<1>5. SoundRow(hist, dep[1]) /\ Resumed(dep[1])
  <2>1. Settlement(dep[1].tgt) = "converged"
    BY <1>3, <1>4 DEF Settlement, OpenTarget
  <2>2. \A n \in Node : Columns(dep[1].tgt[n]) /\ ~Unconfirmed(hist, dep[1], n)
    BY <1>3, <1>4 DEF Columns, Unconfirmed, OpenTarget
  <2> QED
    BY <1>3, <1>4, <2>1, <2>2 DEF SoundRow, Resumed, Ordered, OpenDeployment
<1>6. Sound(hist, dep, node)
  BY <1>3, <1>4, <1>5 DEF Sound, Alone, Held
<1>7. Believes(dep, node, mach, agent)
  BY DEF Init, Believes, Idle
<1>8. Off(hist, node, mach, agent)
  BY DEF Init, Off
<1> QED
  BY <1>6, <1>7, <1>8 DEF Safe

LEMMA OperateSafe ==
    ASSUME IInv, Safe, Operate
    PROVE  Safe'
<1> QED
  BY EditPermissionsSafe, ConfirmWaveSafe, HaltDeploymentSafe, CancelDeploymentSafe,
     EditTopologySafe, IsolateNodeSafe, RestoreServiceSafe, RetryObligationSafe,
     RetryTargetSafe DEF Operate

LEMMA ConvergeSafe ==
    ASSUME IInv, Safe, NEW n \in Node, Converge(n)
    PROVE  Safe'
<1> QED
  BY ClaimObligationSafe, ClaimTargetSafe, ExecuteSafe, CrashSafe, DeliverSafe
     DEF Converge

LEMMA NextSafe == IInv /\ Safe /\ [Next]_vars => Safe'
<1> SUFFICES ASSUME IInv, Safe, [Next]_vars
             PROVE  Safe'
  OBVIOUS
<1>1. CASE UNCHANGED vars
  BY <1>1 DEF vars, Safe
<1>2. CASE Release
  BY <1>2, ReleaseSafe
<1>3. CASE Operate
  BY <1>3, OperateSafe
<1>4. CASE Lifecycle
  BY <1>4, LifecycleSafe DEF Lifecycle
<1>5. ASSUME NEW n \in Node, IssueToken(n) \/ Converge(n)
      PROVE  Safe'
  BY <1>5, IssueTokenSafe, ConvergeSafe
<1> QED
  BY <1>1, <1>2, <1>3, <1>4, <1>5 DEF Next

\* The rows of the tables are sound, what is believed of a machine is true of it
\* or accounted for by an order that is out, and what is torn down stays off.
LEMMA AlwaysSafe == Spec => [](IInv /\ Safe)
<1>1. Init => IInv /\ Safe
  BY InitIInv, InitSafe
<1>2. (IInv /\ Safe) /\ [Next]_vars => (IInv /\ Safe)'
  BY NextIInv, NextSafe
<1> QED
  BY <1>1, <1>2, PTL DEF Spec

\* node_applied_state never lies: whatever mark_node_applied_dirty_tx and
\* upsert_node_applied_state write, and however cancels, isolations, lifecycle
\* changes, crashes and late reports interleave, a machine without an order out
\* runs what its row says, or the row says dirty.
THEOREM AppliedStateTruthful == Spec => []Truthful
<1>1. Safe => Truthful
  BY DEF Safe, Believes, Truthful, InFlight, Out
<1> QED
  BY <1>1, AlwaysSafe, PTL

\* settlement_status of a closed release is what its obligations say, although
\* insert_or_supersede_obligation_tx, advance_intent_tx, retry_target and
\* report_target_result rewrite them long after it closed.
THEOREM SettlementFollowsDebt == Spec => []LedgerTruthful
<1>1. Safe => LedgerTruthful
  BY DEF Safe, Sound, SoundRow, LedgerTruthful, Open
<1> QED
  BY <1>1, AlwaysSafe, PTL

\* insert_or_supersede_obligation_tx and the retries leave at most one debt of a
\* kind per machine and lifecycle epoch, without the unique index.
THEOREM AtMostOneDebt == Spec => []OneDebt
<1>1. ASSUME IInv, Safe
      PROVE  OneDebt
  <2> SUFFICES ASSUME NEW n \in Node, NEW kind \in Kind
               PROVE  Cardinality(CurrentDebt(n, kind, Debt)) <= 1
    BY DEF OneDebt
  <2> DEFINE D == CurrentDebt(n, kind, Debt)
  <2>1. \A d, e \in D : d = e
    BY <1>1 DEF CurrentDebt, Safe, Sound, Alone
  <2> HIDE DEF D
  <2>2. CASE D = {}
    BY <2>2, FS_EmptySet DEF D
  <2>3. CASE D # {}
    <3>1. PICK d \in D : TRUE
      BY <2>3
    <3>2. D = {d}
      BY <2>1, <3>1
    <3>3. Cardinality(D) = 1
      BY <3>2, FS_Singleton
    <3> QED
      BY <3>3 DEF D
  <2> QED
    BY <2>2, <2>3
<1> QED
  BY <1>1, AlwaysSafe, PTL

\* claim_target sends a target out only in the lowest wave that is open, and no
\* failure, retry, isolation or replayed claim lets a later wave overtake it.
THEOREM WavesInOrder == Spec => []WaveOrder
<1>1. Safe => WaveOrder
  <2> SUFFICES ASSUME Safe, NEW d \in DOMAIN dep, Open(dep, d), NEW m \in Node, NEW n \in Node,
                      dep[d].tgt[n].st = "dispatched", dep[d].tgt[m].st \in OpenTarget
               PROVE  dep[d].tgt[n].wave <= dep[d].tgt[m].wave
    BY DEF WaveOrder
  <2>1. Ordered(dep[d]) /\ dep[d].status \in OpenDeployment
    BY DEF Safe, Sound, SoundRow, Open
  <2>2. Started(dep[d].tgt[n]) /\ Unsettled(dep[d].tgt[m])
    BY DEF Started, Unsettled, OpenTarget
  <2> QED
    BY <2>1, <2>2 DEF Ordered
<1> QED
  BY <1>1, AlwaysSafe, PTL

\* requires_confirmation: no machine is disrupted after the canary, or disabled
\* at all, by a release in a wave that nobody confirmed, also when the wave's
\* other targets failed, were retried, canceled or isolated meanwhile.
THEOREM WavesConfirmed == Spec => []DisruptionConfirmed
<1>1. Safe => DisruptionConfirmed
  BY DEF Safe, Sound, SoundRow, Unconfirmed, DisruptionConfirmed
<1> QED
  BY <1>1, AlwaysSafe, PTL

\* complete_retirement_tx and complete_or_attach_teardown_tx: a machine that is
\* retired runs nothing, and no agent is working on an order that could start it.
THEOREM RetiredIsOff == Spec => []RetiredMeansOff
<1>1. Safe => RetiredMeansOff
  BY DEF Safe, Off, RetiredMeansOff
<1> QED
  BY <1>1, AlwaysSafe, PTL
=============================================================================
