------------------------ MODULE GrantAutomationProofs ------------------------
(***************************************************************************)
(* Type correctness of the permission line, that the quota worker never    *)
(* takes back an operator's decision, and that no permission change is     *)
(* forgotten or undone for good, for every fleet and bound.                *)
(*                                                                         *)
(* Every reference from a job, an order, a machine or the serving pointer  *)
(* names a revision of a history that only grows; the worker and the       *)
(* agents hold orders that exist.  On top of these types, Story says what  *)
(* the queue, the orders and the agents owe each machine.                  *)
(***************************************************************************)
EXTENDS GrantAutomation, NumberLemmas, SequenceTheorems

OrderRow ==
    [kind : {"config", "grants"}, rev : Nat,
     status : {"planned", "running", "halted", "succeeded", "canceled"},
     active : BOOLEAN, proof : BOOLEAN, planned : SUBSET Node, tgt : [Node -> Targets]]

\* The revisions a target names exist, and what is out is frozen.
TargetNamed(h, t) ==
    /\ t.st \notin {"none", "skipped"} => t.gr \in DOMAIN h
    /\ t.fz \in DOMAIN h \cup {Null}
    /\ t.st = "dispatched" => t.fz # Null

Named(h, o) == o.rev \in DOMAIN h /\ \A n \in Node : TargetNamed(h, o.tgt[n])

\* The orders, of which the first is the one that installed the fleet.
Table(h, os) ==
    /\ os \in Seq(OrderRow)
    /\ \A d \in DOMAIN os : Named(h, os[d])
    /\ Len(os) > 0 /\ os[1].status = "succeeded" /\ os[1].active

History(h) == h \in Seq(BOOLEAN) /\ Len(h) > 0

NotesOK == withdrawn \subseteq Node /\ restored \in BOOLEAN

ModelOK ==
    /\ History(perm)
    /\ quota \in [spent : BOOLEAN, suspended : BOOLEAN, plan : {"none", "suspend", "restore"}]
    /\ disabled \in BOOLEAN
    /\ NotesOK

JobsOK == jobs \subseteq [rev : DOMAIN perm, due : BOOLEAN]

WorkerOK ==
    /\ worker \in [pc : {"idle", "plan", "settle"}, batch : SUBSET (DOMAIN perm),
                   order : Nat, verdict : {"none", "finish", "wait"}]
    /\ worker.pc # "idle" => worker.batch # {}
    /\ worker.order \in {0} \cup DOMAIN orders

MachineOK ==
    machine \in [Node -> [list : DOMAIN perm, seen : (DOMAIN perm) \cup {Unsure},
                          clean : BOOLEAN]]

AgentOK ==
    /\ agent \in [Node -> [pc : {"idle", "work", "applied", "recovered", "dirty"},
                           order : Nat, list : Nat]]
    /\ \A n \in Node : agent[n].pc # "idle" =>
            agent[n].order \in DOMAIN orders /\ agent[n].list \in DOMAIN perm

\* The inductive invariant: an operator who disabled the grant left no
\* suspension that a restore could find.
Owned == disabled => ~perm[Latest] /\ ~quota.suspended

Rest ==
    /\ JobsOK /\ WorkerOK /\ Table(perm, orders) /\ MachineOK /\ AgentOK
    /\ served \in DOMAIN perm /\ edits \in 0 .. MaxEdits

IInv == ModelOK /\ Rest /\ Owned

----------------------------------------------------------------------------
(* Histories grow, tables are updated row by row.                          *)

LEMMA Domain ==
    ASSUME NEW h, History(h)
    PROVE  DOMAIN h = 1 .. Len(h) /\ Len(h) \in Nat /\ Len(h) \in DOMAIN h
           /\ DOMAIN h \subseteq Nat /\ h[Len(h)] \in BOOLEAN
<1> QED
  BY DEF History

LEMMA Grows ==
    ASSUME NEW h, History(h), NEW b \in BOOLEAN
    PROVE  /\ History(Append(h, b)) /\ DOMAIN h \subseteq DOMAIN Append(h, b)
           /\ Len(Append(h, b)) = Len(h) + 1
           /\ Len(h) + 1 \in DOMAIN Append(h, b)
           /\ Append(h, b)[Len(h) + 1] = b
<1> QED
  BY DEF History

LEMMA TableGrows ==
    ASSUME NEW h, NEW g, DOMAIN h \subseteq DOMAIN g, NEW os, Table(h, os)
    PROVE  Table(g, os)
<1> QED
  BY DEF Table, Named, TargetNamed

LEMMA Row ==
    ASSUME NEW h, NEW os, Table(h, os), NEW d \in DOMAIN os
    PROVE  /\ os[d] \in OrderRow /\ Named(h, os[d])
           /\ d \in 1 .. Len(os) /\ Len(os) \in Nat /\ DOMAIN os = 1 .. Len(os)
<1> QED
  BY DEF Table

LEMMA Target ==
    ASSUME NEW h, NEW o \in OrderRow, Named(h, o), NEW n \in Node
    PROVE  o.tgt[n] \in Targets /\ TargetNamed(h, o.tgt[n])
<1> QED
  BY DEF OrderRow, Named

LEMMA RowChanged ==
    ASSUME NEW h, NEW os, Table(h, os), NEW d \in DOMAIN os, NEW o \in OrderRow,
           Named(h, o), os[d].status # "succeeded" \/ (o.status = os[d].status /\ o.active)
    PROVE  Table(h, [os EXCEPT ![d] = o]) /\ DOMAIN [os EXCEPT ![d] = o] = DOMAIN os
           /\ Len([os EXCEPT ![d] = o]) = Len(os)
<1>1. os \in Seq(OrderRow) /\ Len(os) > 0 /\ Len(os) \in Nat /\ DOMAIN os = 1 .. Len(os)
  BY DEF Table
<1>2. /\ [os EXCEPT ![d] = o] \in Seq(OrderRow)
      /\ DOMAIN [os EXCEPT ![d] = o] = DOMAIN os
      /\ Len([os EXCEPT ![d] = o]) = Len(os)
  BY <1>1
<1>3. \A e \in DOMAIN os : [os EXCEPT ![d] = o][e] = IF e = d THEN o ELSE os[e]
  BY <1>1
<1>4. 1 \in DOMAIN os
  BY <1>1
<1> QED
  BY <1>2, <1>3, <1>4 DEF Table

\* The row of an order that is open may change in any way.
LEMMA RowReplaced ==
    ASSUME NEW h, NEW os, Table(h, os), NEW d \in DOMAIN os, os[d].status # "succeeded",
           NEW after, \E o \in OrderRow : Named(h, o) /\ after = [os EXCEPT ![d] = o]
    PROVE  Table(h, after) /\ DOMAIN after = DOMAIN os
<1>0. PICK o \in OrderRow : Named(h, o) /\ after = [os EXCEPT ![d] = o]
  OBVIOUS
<1>1. os \in Seq(OrderRow) /\ Len(os) > 0 /\ Len(os) \in Nat /\ DOMAIN os = 1 .. Len(os)
  BY DEF Table
<1>2. after \in Seq(OrderRow) /\ DOMAIN after = DOMAIN os /\ Len(after) = Len(os)
  BY <1>0, <1>1
<1>3. \A e \in DOMAIN os : after[e] = IF e = d THEN o ELSE os[e]
  BY <1>0, <1>1
<1>4. 1 \in DOMAIN os
  BY <1>1
<1> QED
  BY <1>0, <1>2, <1>3, <1>4 DEF Table

LEMMA RowAdded ==
    ASSUME NEW h, NEW os, Table(h, os), NEW o \in OrderRow, Named(h, o)
    PROVE  Table(h, Append(os, o)) /\ DOMAIN os \subseteq DOMAIN Append(os, o)
           /\ Len(Append(os, o)) = Len(os) + 1
<1>1. os \in Seq(OrderRow) /\ Len(os) > 0 /\ Len(os) \in Nat /\ DOMAIN os = 1 .. Len(os)
  BY DEF Table
<1>2. /\ Append(os, o) \in Seq(OrderRow) /\ Len(Append(os, o)) = Len(os) + 1
      /\ DOMAIN Append(os, o) = 1 .. (Len(os) + 1)
      /\ \A e \in DOMAIN Append(os, o) : Append(os, o)[e] = IF e = Len(os) + 1 THEN o ELSE os[e]
  BY <1>1
<1>3. \A e \in DOMAIN Append(os, o) : Named(h, Append(os, o)[e])
  BY <1>1, <1>2 DEF Table
<1>4. Append(os, o)[1] = os[1]
  BY <1>1, <1>2
<1> QED
  BY <1>1, <1>2, <1>3, <1>4 DEF Table

\* The newest of some revisions is one of them.
LEMMA NewestIn ==
    ASSUME NEW h, History(h), NEW S \in SUBSET (DOMAIN h), S # {}
    PROVE  Newest(S) \in S
<1>1. S \subseteq 1 .. Len(h) /\ Len(h) \in Nat
  BY Domain
<1>2. PICK x \in S : \A y \in S : y <= x
  BY <1>1, LargestNumber
<1> QED
  BY <1>2 DEF Newest

LEMMA PublishedIn ==
    ASSUME Table(perm, orders)
    PROVE  Published \in DOMAIN perm
<1> DEFINE done == {d \in DOMAIN orders : orders[d].status = "succeeded" /\ orders[d].active}
<1>1. Len(orders) \in Nat /\ DOMAIN orders = 1 .. Len(orders) /\ 1 \in done
  BY DEF Table
<1>2. PICK x \in done : \A y \in done : y <= x
  BY <1>1, LargestNumber
<1>3. (CHOOSE d \in done : \A e \in done : e <= d) \in done
  BY <1>2
<1> QED
  BY <1>3 DEF Published, Table, Named

----------------------------------------------------------------------------
(* The model and its editors.                                              *)

LEMMA CommitKeeps ==
    ASSUME History(perm), JobsOK, NotesOK, NEW b \in BOOLEAN, Commit(b)
    PROVE  /\ History(perm') /\ DOMAIN perm \subseteq DOMAIN perm'
           /\ perm'[Latest'] = b /\ JobsOK' /\ NotesOK'
<1>1. CASE perm[Latest] = b
  BY <1>1 DEF Commit, Latest, JobsOK, NotesOK
<1>2. CASE perm[Latest] # b
  <2>1. /\ perm' = Append(perm, b) /\ withdrawn' = {} /\ restored' = FALSE
        /\ jobs' = jobs \cup {[rev |-> Latest + 1, due |-> TRUE]}
    BY <1>2 DEF Commit
  <2>2. /\ History(perm') /\ DOMAIN perm \subseteq DOMAIN perm'
        /\ Len(perm') = Len(perm) + 1 /\ Len(perm) + 1 \in DOMAIN perm'
        /\ perm'[Len(perm) + 1] = b
    BY <2>1, Grows
  <2>3. [rev |-> Latest + 1, due |-> TRUE] \in [rev : DOMAIN perm', due : BOOLEAN]
    BY <2>2 DEF Latest
  <2>4. \A j \in jobs : j \in [rev : DOMAIN perm', due : BOOLEAN]
    BY <2>2 DEF JobsOK
  <2> QED
    BY <2>1, <2>2, <2>3, <2>4 DEF Latest, JobsOK, NotesOK
<1> QED
  BY <1>1, <1>2

\* What an edit of the model leaves alone stays right while the history grows.
LEMMA EditKeeps ==
    ASSUME IInv, DOMAIN perm \subseteq DOMAIN perm', History(perm'), JobsOK',
           UNCHANGED <<worker, orders, machine, agent, served>>, edits' \in 0 .. MaxEdits
    PROVE  Rest'
<1>1. Table(perm', orders')
  BY TableGrows DEF IInv, Rest
<1>2. WorkerOK'
  BY DEF IInv, Rest, WorkerOK
<1>3. MachineOK'
  <2>1. \A n \in Node : machine[n] \in [list : DOMAIN perm', seen : (DOMAIN perm') \cup {Unsure},
                          clean : BOOLEAN]
    BY DEF IInv, Rest, MachineOK
  <2> QED
    BY <2>1 DEF IInv, Rest, MachineOK
<1>4. AgentOK'
  BY DEF IInv, Rest, AgentOK
<1>5. served' \in DOMAIN perm'
  BY DEF IInv, Rest
<1> QED
  BY <1>1, <1>2, <1>3, <1>4, <1>5 DEF Rest

LEMMA SpendsKeeps ==
    ASSUME edits \in 0 .. MaxEdits, NEW c, Spends(c)
    PROVE  edits' \in 0 .. MaxEdits
<1> QED
  BY GrantAssumption DEF Spends

LEMMA EditorSteps ==
    ASSUME IInv, Enable \/ Disable \/ Discard \/ ApplyQuotaChanges
    PROVE  IInv'
<1> USE DEF ModelOK
<1>0. /\ History(perm) /\ JobsOK /\ edits \in 0 .. MaxEdits /\ Table(perm, orders)
      /\ perm[Latest] \in BOOLEAN /\ NotesOK
  BY Domain DEF IInv, Rest, Latest
<1>1. CASE Enable
  <2>1. History(perm') /\ DOMAIN perm \subseteq DOMAIN perm' /\ JobsOK'
        /\ NotesOK'
    BY <1>0, <1>1, CommitKeeps DEF Enable
  <2>2. Rest'
    BY <1>0, <1>1, <2>1, EditKeeps, SpendsKeeps DEF Enable
  <2>3. ModelOK' /\ Owned'
    BY <1>1, <2>1 DEF Enable, IInv, Owned
  <2> QED
    BY <2>2, <2>3 DEF IInv
<1>2. CASE Disable
  <2>1. /\ History(perm') /\ DOMAIN perm \subseteq DOMAIN perm' /\ JobsOK'
        /\ perm'[Latest'] = FALSE /\ NotesOK'
    BY <1>0, <1>2, CommitKeeps DEF Disable
  <2>2. Rest'
    BY <1>0, <1>2, <2>1, EditKeeps, SpendsKeeps DEF Disable
  <2>3. ModelOK' /\ Owned'
    BY <1>2, <2>1 DEF Disable, IInv, Owned
  <2> QED
    BY <2>2, <2>3 DEF IInv
<1>3. CASE Discard
  <2>1. perm[Published] \in BOOLEAN /\ perm' = Append(perm, perm[Published])
    BY <1>0, <1>3, PublishedIn DEF Discard, History
  <2>2. History(perm') /\ DOMAIN perm \subseteq DOMAIN perm'
    BY <1>0, <2>1, Grows
  <2>3. JobsOK'
    BY <1>0, <1>3, <2>2 DEF Discard, JobsOK
  <2>4. edits' \in 0 .. MaxEdits
    BY <1>0, <1>3, SpendsKeeps DEF Discard
  <2>5. Rest'
    BY <1>3, <2>2, <2>3, <2>4, EditKeeps DEF Discard
  <2>6. ModelOK' /\ Owned'
    BY <1>3, <2>2 DEF Discard, IInv, Owned, NotesOK
  <2> QED
    BY <2>5, <2>6 DEF IInv
<1>4. CASE ApplyQuotaChanges
  <2> DEFINE suspends == quota.plan = "suspend" /\ quota.spent /\ perm[Latest]
             restores == quota.plan = "restore" /\ ~quota.spent /\ quota.suspended
  <2>1. /\ quota' = [quota EXCEPT !.plan = "none",
                                  !.suspended = suspends \/ (@ /\ ~restores)]
        /\ UNCHANGED <<disabled, worker, orders, machine, agent, served, edits>>
        /\ IF suspends THEN Commit(FALSE)
           ELSE IF restores THEN Commit(TRUE) ELSE UNCHANGED <<perm, withdrawn, restored, jobs>>
    BY <1>4 DEF ApplyQuotaChanges
  <2>2. /\ quota \in [spent : BOOLEAN, suspended : BOOLEAN,
                      plan : {"none", "suspend", "restore"}]
        /\ disabled \in BOOLEAN
    BY DEF IInv
  <2>3. /\ quota' \in [spent : BOOLEAN, suspended : BOOLEAN,
                       plan : {"none", "suspend", "restore"}]
        /\ quota'.suspended = (suspends \/ (quota.suspended /\ ~restores))
    BY <1>0, <2>1, <2>2
  <2>4. History(perm') /\ DOMAIN perm \subseteq DOMAIN perm' /\ JobsOK'
        /\ NotesOK'
    <3>1. CASE suspends
      BY <1>0, <2>1, <3>1, CommitKeeps
    <3>2. CASE ~suspends /\ restores
      BY <1>0, <2>1, <3>2, CommitKeeps
    <3>3. CASE ~suspends /\ ~restores
      BY <1>0, <2>1, <3>3 DEF JobsOK, NotesOK
    <3> QED
      BY <3>1, <3>2, <3>3
  <2>5. Rest'
    BY <1>0, <2>1, <2>4, EditKeeps
  <2>6. Owned'
    \* a disabled grant leaves nothing to suspend and nothing to restore
    <3> SUFFICES ASSUME disabled PROVE ~perm'[Latest'] /\ ~quota'.suspended
      BY <2>1 DEF Owned
    <3>1. ~perm[Latest] /\ ~quota.suspended
      BY DEF IInv, Owned
    <3>2. ~suspends /\ ~restores
      BY <3>1
    <3> QED
      BY <2>1, <2>3, <3>1, <3>2 DEF Latest
  <2> QED
    BY <2>1, <2>2, <2>3, <2>4, <2>5, <2>6 DEF IInv
<1> QED
  BY <1>1, <1>2, <1>3, <1>4

LEMMA QuotaSteps ==
    ASSUME IInv, Consume \/ Reset \/ PlanQuotaEnforcement
    PROVE  IInv'
<1>1. UNCHANGED <<perm, disabled, withdrawn, restored, jobs, worker, orders, machine, agent,
                  served>>
  BY DEF Consume, Reset, PlanQuotaEnforcement
<1>2. edits' \in 0 .. MaxEdits
  BY SpendsKeeps DEF IInv, Rest, Consume, Reset, PlanQuotaEnforcement
<1>3. History(perm') /\ JobsOK'
  BY <1>1 DEF IInv, Rest, ModelOK, JobsOK
<1>4. Rest'
  BY <1>1, <1>2, <1>3, EditKeeps
<1>5. quota \in [spent : BOOLEAN, suspended : BOOLEAN, plan : {"none", "suspend", "restore"}]
  BY DEF IInv, ModelOK
<1>6. /\ quota' \in [spent : BOOLEAN, suspended : BOOLEAN,
                     plan : {"none", "suspend", "restore"}]
      /\ quota'.suspended = quota.suspended
  <2>1. CASE Consume
    BY <1>5, <2>1 DEF Consume
  <2>2. CASE Reset
    BY <1>5, <2>2 DEF Reset
  <2>3. CASE PlanQuotaEnforcement
    BY <1>5, <2>3 DEF PlanQuotaEnforcement
  <2> QED
    BY <2>1, <2>2, <2>3
<1> QED
  BY <1>1, <1>3, <1>4, <1>6 DEF IInv, ModelOK, NotesOK, Owned, Latest

----------------------------------------------------------------------------
(* The worker.                                                             *)

\* What a step of the worker, an operator or an agent leaves alone.
LEMMA ModelKept ==
    ASSUME IInv, UNCHANGED modelVars
    PROVE  ModelOK' /\ Owned' /\ Latest' = Latest
<1> QED
  BY DEF IInv, ModelOK, NotesOK, Owned, Latest, modelVars

LEMMA RebasedKeeps ==
    ASSUME Table(perm, orders), NEW r \in DOMAIN perm, History(perm)
    PROVE  /\ Table(perm, Rebased(r)) /\ Len(Rebased(r)) = Len(orders)
           /\ DOMAIN Rebased(r) = DOMAIN orders
<1>1. /\ orders \in Seq(OrderRow) /\ Len(orders) \in Nat /\ Len(orders) > 0
      /\ DOMAIN orders = 1 .. Len(orders)
  BY DEF Table
<1> DEFINE tgt(d) == [n \in Node |->
               IF ConfigTarget(d, n) /\ ~Frozen(d, n)
               THEN [orders[d].tgt[n] EXCEPT !.gr = r] ELSE orders[d].tgt[n]]
           row(d) == [orders[d] EXCEPT !.tgt = tgt(d)]
<1>2. Rebased(r) = [d \in DOMAIN orders |-> row(d)]
  BY DEF Rebased
<1>3. ASSUME NEW d \in DOMAIN orders
      PROVE  row(d) \in OrderRow /\ Named(perm, row(d))
             /\ row(d).status = orders[d].status /\ row(d).active = orders[d].active
  <2>1. orders[d] \in OrderRow /\ Named(perm, orders[d])
    BY Row
  <2>2. \A n \in Node : orders[d].tgt[n] \in Targets /\ TargetNamed(perm, orders[d].tgt[n])
    BY <2>1, Target
  <2>3. r \in Nat
    BY Domain
  <2>4. ASSUME NEW n \in Node
        PROVE  tgt(d)[n] \in Targets /\ TargetNamed(perm, tgt(d)[n])
    <3>1. orders[d].tgt[n] \in Targets /\ TargetNamed(perm, orders[d].tgt[n])
      BY <2>2
    <3>2. /\ [orders[d].tgt[n] EXCEPT !.gr = r] \in Targets
          /\ TargetNamed(perm, [orders[d].tgt[n] EXCEPT !.gr = r])
      BY <2>3, <3>1 DEF Targets, TargetNamed
    <3> QED
      BY <3>1, <3>2
  <2>5. tgt(d) \in [Node -> Targets]
    BY <2>4
  <2> HIDE DEF tgt
  <2>6. row(d) \in OrderRow /\ row(d).tgt = tgt(d) /\ row(d).rev = orders[d].rev
        /\ row(d).status = orders[d].status /\ row(d).active = orders[d].active
    BY <2>1, <2>5 DEF OrderRow
  <2>7. Named(perm, row(d))
    BY <2>1, <2>4, <2>6 DEF Named
  <2> QED
    BY <2>6, <2>7
<1> HIDE DEF row
<1>4. Rebased(r) \in Seq(OrderRow) /\ Len(Rebased(r)) = Len(orders)
      /\ DOMAIN Rebased(r) = DOMAIN orders
  <2>1. Rebased(r) \in [1 .. Len(orders) -> OrderRow]
    BY <1>1, <1>2, <1>3
  <2> QED
    BY <1>1, <2>1, SeqDef
<1>5. 1 \in DOMAIN orders
  BY <1>1
<1> QED
  BY <1>1, <1>2, <1>3, <1>4, <1>5 DEF Table

LEMMA GrantsOrderType ==
    ASSUME History(perm), NEW r \in DOMAIN perm, NEW S \in SUBSET Node
    PROVE  GrantsOrder(r, S) \in OrderRow /\ Named(perm, GrantsOrder(r, S))
<1>1. r \in Nat
  BY Domain
<1> DEFINE tgt == [n \in Node |-> IF n \in S THEN [st |-> "pending", gr |-> r, fz |-> Null]
                                 ELSE NoTarget]
<1>2. ASSUME NEW n \in Node
      PROVE  tgt[n] \in Targets /\ TargetNamed(perm, tgt[n])
  BY <1>1 DEF Targets, TargetNamed, NoTarget, Null
<1>3. tgt \in [Node -> Targets]
  BY <1>2
<1> HIDE DEF tgt
<1>4. GrantsOrder(r, S) = [kind |-> "grants", rev |-> r, status |-> "planned", active |-> FALSE,
                           proof |-> FALSE, planned |-> S, tgt |-> tgt]
  BY DEF GrantsOrder, tgt
<1> QED
  BY <1>1, <1>2, <1>3, <1>4 DEF OrderRow, Named

\* A worker's or an operator's step: the queue, the worker and the table may change.
LEMMA OrdersTurn ==
    ASSUME IInv, UNCHANGED <<perm, quota, disabled, agent>>, NotesOK',
           JobsOK', WorkerOK', MachineOK',
           Table(perm, orders'), DOMAIN orders \subseteq DOMAIN orders',
           served' \in DOMAIN perm, edits' \in 0 .. MaxEdits
    PROVE  IInv'
<1>1. ModelOK' /\ Owned'
  BY DEF IInv, ModelOK, Owned, Latest
<1>2. AgentOK'
  BY DEF IInv, Rest, AgentOK
<1> QED
  BY <1>1, <1>2 DEF IInv, Rest

LEMMA OrdersKeep ==
    ASSUME IInv, UNCHANGED <<modelVars, agent>>, JobsOK', WorkerOK', MachineOK',
           Table(perm, orders'), DOMAIN orders \subseteq DOMAIN orders',
           served' \in DOMAIN perm, edits' \in 0 .. MaxEdits
    PROVE  IInv'
<1>1. UNCHANGED <<perm, quota, disabled>> /\ NotesOK'
  BY DEF IInv, ModelOK, NotesOK, modelVars
<1> QED
  BY <1>1, OrdersTurn

LEMMA WorkerSteps ==
    ASSUME IInv, SelectBatch \/ Reschedule \/ WorkerDies \/ RunAfter
    PROVE  IInv'
<1>1. /\ UNCHANGED <<modelVars, agent, orders, machine, served>>
      /\ JobsOK /\ WorkerOK /\ MachineOK /\ Table(perm, orders)
      /\ served \in DOMAIN perm /\ edits \in 0 .. MaxEdits
  BY DEF SelectBatch, Reschedule, WorkerDies, RunAfter, IInv, Rest
<1>2. /\ MachineOK' /\ Table(perm, orders') /\ served' \in DOMAIN perm
      /\ DOMAIN orders \subseteq DOMAIN orders' /\ perm' = perm /\ Len(orders) \in Nat
  BY <1>1 DEF MachineOK, modelVars, Table
<1>3. edits' \in 0 .. MaxEdits
  BY <1>1, SpendsKeeps DEF SelectBatch, Reschedule, WorkerDies, RunAfter
<1>4. Free \in [pc : {"idle", "plan", "settle"}, batch : SUBSET (DOMAIN perm),
                order : Nat, verdict : {"none", "finish", "wait"}]
      /\ Free.pc = "idle" /\ Free.order = 0
  BY DEF Free
<1>5. CASE SelectBatch
  <2> DEFINE batch == {j.rev : j \in jobs}
  <2>1. batch \subseteq DOMAIN perm /\ batch # {}
    BY <1>1, <1>5 DEF SelectBatch, JobsOK
  <2>2. worker' = [pc |-> "plan", batch |-> batch, order |-> 0, verdict |-> "none"]
    BY <1>5 DEF SelectBatch, Free
  <2>3. WorkerOK'
    BY <1>1, <1>2, <2>1, <2>2 DEF WorkerOK
  <2>4. JobsOK'
    BY <1>1, <1>2, <1>5 DEF SelectBatch, JobsOK
  <2> QED
    BY <1>1, <1>2, <1>3, <2>3, <2>4, OrdersKeep
<1>6. CASE Reschedule
  <2>1. \A j \in jobs : [j EXCEPT !.due = @ /\ j.rev \notin worker.batch]
                            \in [rev : DOMAIN perm, due : BOOLEAN]
    BY <1>1 DEF JobsOK
  <2>2. JobsOK'
    BY <1>2, <1>6, <2>1 DEF Reschedule, JobsOK
  <2>3. WorkerOK'
    BY <1>1, <1>2, <1>4, <1>6 DEF WorkerOK, Reschedule
  <2> QED
    BY <1>1, <1>2, <1>3, <2>2, <2>3, OrdersKeep
<1>7. CASE WorkerDies
  <2>1. JobsOK' /\ WorkerOK'
    BY <1>1, <1>2, <1>4, <1>7 DEF WorkerOK, WorkerDies, JobsOK
  <2> QED
    BY <1>1, <1>2, <1>3, <2>1, OrdersKeep
<1>8. CASE RunAfter
  <2>1. PICK j \in jobs : jobs' = (jobs \ {j}) \cup {[j EXCEPT !.due = TRUE]}
    BY <1>8 DEF RunAfter
  <2>2. [j EXCEPT !.due = TRUE] \in [rev : DOMAIN perm, due : BOOLEAN]
    BY <1>1 DEF JobsOK
  <2>3. JobsOK'
    BY <1>1, <1>2, <2>1, <2>2 DEF JobsOK
  <2>4. WorkerOK'
    BY <1>1, <1>2, <1>8 DEF WorkerOK, RunAfter
  <2> QED
    BY <1>1, <1>2, <1>3, <2>3, <2>4, OrdersKeep
<1> QED
  BY <1>5, <1>6, <1>7, <1>8

LEMMA RevisionIn ==
    ASSUME IInv, worker.pc # "idle"
    PROVE  Revision \in DOMAIN perm
<1>1. worker.batch \in SUBSET (DOMAIN perm) /\ worker.batch # {}
  BY DEF IInv, Rest, WorkerOK
<1> QED
  BY <1>1, NewestIn DEF Revision, IInv, ModelOK

LEMMA SettlingKeeps ==
    ASSUME IInv, worker.pc = "plan", UNCHANGED perm, DOMAIN orders' \subseteq Nat,
           NEW order \in {0} \cup DOMAIN orders', NEW verdict \in {"finish", "wait"},
           Settling(order, verdict)
    PROVE  WorkerOK'
<1>1. worker' = [worker EXCEPT !.pc = "settle", !.order = order, !.verdict = verdict]
  BY DEF Settling
<1>2. /\ worker \in [pc : {"idle", "plan", "settle"}, batch : SUBSET (DOMAIN perm),
                     order : Nat, verdict : {"none", "finish", "wait"}]
      /\ worker.batch # {}
  BY DEF IInv, Rest, WorkerOK
<1>3. order \in Nat
  OBVIOUS
<1>4. /\ worker' \in [pc : {"idle", "plan", "settle"}, batch : SUBSET (DOMAIN perm),
                      order : Nat, verdict : {"none", "finish", "wait"}]
      /\ worker'.batch = worker.batch /\ worker'.order = order
  BY <1>1, <1>2, <1>3
<1> QED
  BY <1>2, <1>4 DEF WorkerOK

LEMMA CreateStep ==
    ASSUME IInv, CreateGrantsOrder
    PROVE  IInv'
<1> DEFINE r       == Revision
           later   == Deferred(r)
           plan    == Differing(r) \ later
           verdict == IF later = {} THEN "finish" ELSE "wait"
<1>1. /\ worker.pc = "plan" /\ UNCHANGED <<modelVars, jobs, machine, agent, served, edits>>
      /\ \/ (\E d \in Existing(r, plan) : Settling(d, verdict)) /\ orders' = Rebased(r)
         \/ Settling(0, "wait") /\ orders' = orders
         \/ Settling(0, verdict) /\ orders' = Rebased(r)
         \/ /\ Settling(Len(orders) + 1, verdict)
            /\ orders' = Append(Rebased(r), GrantsOrder(r, plan))
  BY DEF CreateGrantsOrder
<1>2. /\ r \in DOMAIN perm /\ verdict \in {"finish", "wait"} /\ plan \in SUBSET Node
      /\ History(perm) /\ Table(perm, orders) /\ Len(orders) \in Nat
      /\ DOMAIN orders = 1 .. Len(orders)
  BY <1>1, RevisionIn DEF IInv, ModelOK, Rest, Table, Differing
<1>3. Existing(r, plan) \subseteq DOMAIN orders
  BY DEF Existing
<1> HIDE DEF r, plan, verdict
<1>4. /\ Table(perm, Rebased(r)) /\ Len(Rebased(r)) = Len(orders)
      /\ DOMAIN Rebased(r) = DOMAIN orders
  BY <1>2, RebasedKeeps
<1>5. perm' = perm /\ JobsOK' /\ MachineOK' /\ served' \in DOMAIN perm /\ edits' \in 0 .. MaxEdits
  BY <1>1 DEF modelVars, IInv, Rest, JobsOK, MachineOK
<1>6. ASSUME orders' \in {orders, Rebased(r)},
             NEW d \in {0} \cup DOMAIN orders, NEW v \in {"finish", "wait"}, Settling(d, v)
      PROVE  IInv'
  <2>1. /\ Table(perm, orders') /\ DOMAIN orders' \subseteq Nat
        /\ DOMAIN orders = DOMAIN orders'
    BY <1>2, <1>4, <1>6
  <2>2. WorkerOK'
    BY <1>1, <1>2, <1>5, <1>6, <2>1, SettlingKeeps
  <2> QED
    BY <1>1, <1>5, <2>1, <2>2, OrdersKeep
<1>7. ASSUME orders' = Append(Rebased(r), GrantsOrder(r, plan)),
             Settling(Len(orders) + 1, verdict)
      PROVE  IInv'
  <2>1. GrantsOrder(r, plan) \in OrderRow /\ Named(perm, GrantsOrder(r, plan))
    BY <1>2, GrantsOrderType
  <2>2. /\ Table(perm, orders') /\ Len(orders') = Len(orders) + 1
        /\ DOMAIN orders \subseteq DOMAIN orders'
    BY <1>4, <1>7, <2>1, RowAdded
  <2>3. Len(orders) + 1 \in DOMAIN orders' /\ DOMAIN orders' \subseteq Nat
    BY <1>2, <2>2 DEF Table
  <2>4. WorkerOK'
    BY <1>1, <1>2, <1>5, <1>7, <2>3, SettlingKeeps
  <2> QED
    BY <1>1, <1>5, <2>2, <2>4, OrdersKeep
<1>8. \A d \in Existing(r, plan) : d \in DOMAIN orders
  BY <1>3
<1> QED
  BY <1>1, <1>2, <1>6, <1>7, <1>8

LEMMA FinishStep ==
    ASSUME IInv, FinishBatch
    PROVE  IInv'
<1>1. /\ Table(perm, orders) /\ JobsOK /\ WorkerOK /\ MachineOK /\ History(perm)
      /\ served \in DOMAIN perm /\ edits \in 0 .. MaxEdits
      /\ Len(orders) \in Nat /\ DOMAIN orders = 1 .. Len(orders)
  BY DEF IInv, Rest, ModelOK, Table
<1>2. /\ worker.pc = "settle" /\ worker' = Free
      /\ jobs' = {j \in jobs : j.rev \notin worker.batch}
      /\ UNCHANGED <<modelVars, machine, agent, edits>>
  BY DEF FinishBatch
<1>3. JobsOK' /\ MachineOK' /\ perm' = perm /\ edits' \in 0 .. MaxEdits
  BY <1>1, <1>2 DEF JobsOK, MachineOK, modelVars
<1>4. /\ Table(perm, orders') /\ DOMAIN orders' = DOMAIN orders /\ Len(orders') = Len(orders)
      /\ served' \in DOMAIN perm
  <2>1. CASE worker.order = 0
    BY <1>1, <1>2, <2>1, RevisionIn DEF FinishBatch
  <2>2. CASE worker.order # 0
    <3> DEFINE d    == worker.order
               late == orders[d].status = "succeeded" /\ ~orders[d].active
               row  == [orders[d] EXCEPT !.proof = TRUE, !.active = @ \/ late]
    <3>1. d \in DOMAIN orders
      BY <1>1, <2>2 DEF WorkerOK
    <3>2. orders[d] \in OrderRow /\ Named(perm, orders[d])
      BY <1>1, <3>1, Row
    <3>3. orders' = [orders EXCEPT ![d].proof = TRUE, ![d].active = @ \/ late]
          /\ served' = IF late THEN orders[d].rev ELSE served
      BY <2>2 DEF FinishBatch
    <3>4. orders' = [orders EXCEPT ![d] = row]
      BY <1>1, <3>1, <3>3
    <3>5. row \in OrderRow /\ row.status = orders[d].status
          /\ row.tgt = orders[d].tgt /\ row.rev = orders[d].rev
      BY <3>2 DEF OrderRow
    <3>6. Named(perm, row)
      BY <3>2, <3>5 DEF Named
    <3>7. orders[d].status # "succeeded" \/ (row.status = orders[d].status /\ row.active)
      BY <3>2 DEF OrderRow
    <3> HIDE DEF row, late, d
    <3>8. Table(perm, orders') /\ DOMAIN orders' = DOMAIN orders /\ Len(orders') = Len(orders)
      <4>1. row \in OrderRow /\ Table(perm, orders)
        BY <1>1, <3>5
      <4>2. ASSUME NEW o \in OrderRow, Named(perm, o),
                   orders[d].status # "succeeded" \/ (o.status = orders[d].status /\ o.active)
            PROVE  /\ Table(perm, [orders EXCEPT ![d] = o])
                   /\ DOMAIN [orders EXCEPT ![d] = o] = DOMAIN orders
                   /\ Len([orders EXCEPT ![d] = o]) = Len(orders)
        BY <3>1, <4>1, <4>2, RowChanged
      <4> QED
        BY <3>4, <3>6, <3>7, <4>1, <4>2
    <3>9. served' \in DOMAIN perm
      BY <1>1, <3>2, <3>3 DEF Named
    <3> QED
      BY <3>8, <3>9
  <2> QED
    BY <2>1, <2>2
<1>5. WorkerOK'
  BY <1>1, <1>2, <1>3, <1>4 DEF WorkerOK, Free
<1> QED
  BY <1>2, <1>3, <1>4, <1>5, OrdersKeep

----------------------------------------------------------------------------
(* Configuration orders and operators.                                     *)

LEMMA ConfigStep ==
    ASSUME IInv, NEW S \in SUBSET Node, CreateConfigOrder(S)
    PROVE  IInv'
<1> DEFINE tgt == [n \in Node |-> IF n \in S THEN [st |-> "pending", gr |-> Latest, fz |-> Null]
                                 ELSE [NoTarget EXCEPT !.st = "skipped"]]
           row == [kind |-> "config", rev |-> Latest, status |-> "planned", active |-> FALSE,
                   proof |-> FALSE, planned |-> S, tgt |-> tgt]
<1>1. orders' = Append(orders, row)
      /\ UNCHANGED <<modelVars, jobs, worker, machine, agent, served, edits>>
  BY DEF CreateConfigOrder
<1>2. Latest \in DOMAIN perm /\ Latest \in Nat
  BY Domain DEF IInv, ModelOK, Latest
<1>3. ASSUME NEW n \in Node
      PROVE  tgt[n] \in Targets /\ TargetNamed(perm, tgt[n])
  BY <1>2 DEF Targets, TargetNamed, NoTarget, Null
<1>4. tgt \in [Node -> Targets]
  BY <1>3
<1> HIDE DEF tgt
<1>5. row \in OrderRow /\ Named(perm, row)
  BY <1>2, <1>3, <1>4 DEF OrderRow, Named
<1> HIDE DEF row
<1>6. /\ Table(perm, orders') /\ DOMAIN orders \subseteq DOMAIN orders'
      /\ Len(orders') = Len(orders) + 1 /\ Len(orders) \in Nat
  BY <1>1, <1>5, RowAdded DEF IInv, Rest, Table
<1>7. JobsOK' /\ MachineOK' /\ perm' = perm /\ served' \in DOMAIN perm /\ edits' \in 0 .. MaxEdits
  BY <1>1 DEF IInv, Rest, JobsOK, MachineOK, modelVars
<1>8. WorkerOK'
  BY <1>1, <1>6, <1>7 DEF IInv, Rest, WorkerOK
<1> QED
  BY <1>1, <1>6, <1>7, <1>8, OrdersKeep

LEMMA CancelStep ==
    ASSUME IInv, NEW d \in DOMAIN orders, CancelOrder(d)
    PROVE  IInv'
<1> DEFINE tgt == Canceled(orders[d].tgt)
           row == [orders[d] EXCEPT !.status = "canceled", !.tgt = tgt]
<1>1. /\ orders' = [orders EXCEPT ![d] = row] /\ Open(d)
      /\ UNCHANGED <<perm, quota, disabled, restored, jobs, worker, agent, served>>
      /\ NotesOK'
  BY DEF CancelOrder, IInv, ModelOK, NotesOK
<1>2. /\ Table(perm, orders) /\ orders[d] \in OrderRow /\ Named(perm, orders[d])
      /\ orders[d].status # "succeeded"
  BY <1>1, Row DEF IInv, Rest, Open
<1>3. ASSUME NEW n \in Node
      PROVE  tgt[n] \in Targets /\ TargetNamed(perm, tgt[n])
  <2>1. orders[d].tgt[n] \in Targets /\ TargetNamed(perm, orders[d].tgt[n])
    BY <1>2, Target
  <2> QED
    BY <2>1 DEF Targets, TargetNamed, Null, Canceled
<1>4. tgt \in [Node -> Targets]
  BY <1>3 DEF Canceled
<1> HIDE DEF tgt
<1>5. row \in OrderRow /\ Named(perm, row)
  BY <1>2, <1>3, <1>4 DEF OrderRow, Named
<1> HIDE DEF row
<1>6. /\ Table(perm, orders') /\ DOMAIN orders' = DOMAIN orders
  <2>1. orders[d].status # "succeeded"
    BY <1>1, <1>2
  <2>2. \E o \in OrderRow : Named(perm, o) /\ orders' = [orders EXCEPT ![d] = o]
    BY <1>1, <1>5
  <2> QED
    BY <1>2, <2>1, <2>2, RowReplaced
<1>7. MachineOK'
  <2>1. machine' = [n \in Node |->
          IF orders[d].tgt[n].st # "dispatched" THEN machine[n]
          ELSE [machine[n] EXCEPT !.seen = Unsure,
                                  !.clean = @ /\ orders[d].kind = "grants"]]
    BY DEF CancelOrder
  <2>2. perm' = perm
    BY <1>1
  <2>3. \A n \in Node : machine[n] \in [list : DOMAIN perm,
                                        seen : (DOMAIN perm) \cup {Unsure}, clean : BOOLEAN]
    BY DEF IInv, Rest, MachineOK
  <2>4. \A n \in Node : [machine[n] EXCEPT !.seen = Unsure,
                                           !.clean = @ /\ orders[d].kind = "grants"]
            \in [list : DOMAIN perm, seen : (DOMAIN perm) \cup {Unsure}, clean : BOOLEAN]
    BY <2>3
  <2> QED
    BY <2>1, <2>2, <2>3, <2>4 DEF MachineOK
<1>8. JobsOK' /\ WorkerOK' /\ served' \in DOMAIN perm
  BY <1>1, <1>6 DEF IInv, Rest, JobsOK, WorkerOK
<1>9. edits' \in 0 .. MaxEdits
  BY SpendsKeeps DEF CancelOrder, IInv, Rest
<1> QED
  BY <1>1, <1>6, <1>7, <1>8, <1>9, OrdersTurn

LEMMA RetryStep ==
    ASSUME IInv, NEW d \in DOMAIN orders, NEW n \in Node, RetryTarget(d, n)
    PROVE  IInv'
<1> DEFINE t   == [orders[d].tgt[n] EXCEPT !.st = "pending", !.fz = Null]
           row == Retried(orders[d], n)
<1>1. /\ orders' = [orders EXCEPT ![d] = row]
      /\ orders[d].status = "halted" /\ orders[d].tgt[n].st = "failed"
      /\ UNCHANGED <<modelVars, jobs, worker, machine, agent, served, edits>>
  BY DEF RetryTarget
<1>2. /\ Table(perm, orders) /\ orders[d] \in OrderRow /\ Named(perm, orders[d])
  BY Row DEF IInv, Rest
<1>3. orders[d].tgt[n] \in Targets /\ TargetNamed(perm, orders[d].tgt[n])
  BY <1>2, Target
<1>4. t \in Targets /\ TargetNamed(perm, t)
  BY <1>1, <1>3 DEF Targets, TargetNamed, Null
<1> HIDE DEF t
<1>5. row \in OrderRow /\ Named(perm, row)
  <2>1. row = [orders[d] EXCEPT !.status = "running", !.tgt = [orders[d].tgt EXCEPT ![n] = t]]
    BY <1>2 DEF Retried, OrderRow, t
  <2> HIDE DEF row
  <2> QED
    BY <1>2, <1>4, <2>1 DEF OrderRow, Named
<1> HIDE DEF row
<1>6. /\ Table(perm, orders') /\ DOMAIN orders' = DOMAIN orders
  <2>1. orders[d].status # "succeeded"
    BY <1>1, <1>2
  <2>2. \E o \in OrderRow : Named(perm, o) /\ orders' = [orders EXCEPT ![d] = o]
    BY <1>1, <1>5
  <2> QED
    BY <1>2, <2>1, <2>2, RowReplaced
<1>7. /\ JobsOK' /\ WorkerOK' /\ served' \in DOMAIN perm /\ MachineOK'
      /\ edits' \in 0 .. MaxEdits
  BY <1>1, <1>6 DEF IInv, Rest, JobsOK, WorkerOK, MachineOK, modelVars
<1> QED
  BY <1>1, <1>6, <1>7, OrdersKeep

----------------------------------------------------------------------------
(* Agents.                                                                 *)

\* An agent's step: orders keep their number, the queue and the worker stay.
LEMMA AgentKeeps ==
    ASSUME IInv, UNCHANGED <<modelVars, jobs, worker>>, MachineOK', AgentOK',
           Table(perm, orders'), DOMAIN orders' = DOMAIN orders,
           served' \in DOMAIN perm, edits' \in 0 .. MaxEdits
    PROVE  IInv'
<1>1. ModelOK' /\ Owned' /\ perm' = perm
  BY ModelKept DEF modelVars
<1>2. JobsOK' /\ WorkerOK'
  BY <1>1 DEF IInv, Rest, JobsOK, WorkerOK
<1> QED
  BY <1>1, <1>2 DEF IInv, Rest

AgentRow ==
    [pc : {"idle", "work", "applied", "recovered", "dirty"}, order : Nat, list : Nat]

LEMMA AgentChanged ==
    ASSUME IInv, perm' = perm, DOMAIN orders' = DOMAIN orders, NEW n \in Node,
           NEW a \in AgentRow, agent' = [agent EXCEPT ![n] = a],
           a.pc # "idle" => a.order \in DOMAIN orders /\ a.list \in DOMAIN perm
    PROVE  AgentOK'
<1>1. agent \in [Node -> AgentRow]
  BY DEF IInv, Rest, AgentOK, AgentRow
<1>2. agent' \in [Node -> AgentRow]
      /\ \A m \in Node : agent'[m] = IF m = n THEN a ELSE agent[m]
  BY <1>1
<1> QED
  BY <1>2 DEF IInv, Rest, AgentOK, AgentRow

LEMMA ClaimStep ==
    ASSUME IInv, NEW n \in Node, NEW lost \in BOOLEAN, Claim(n, lost)
    PROVE  IInv'
<1>1. PICK d \in Offers(n) :
        LET t    == orders[d].tgt[n]
            list == IF t.st = "pending" THEN t.gr ELSE t.fz
        IN  /\ orders' = [orders EXCEPT ![d] = HandedOut(orders[d], n, list)]
            /\ agent' = IF lost THEN agent
                        ELSE [agent EXCEPT ![n] = [pc |-> "work", order |-> d, list |-> list]]
  BY DEF Claim
<1>2. UNCHANGED <<modelVars, jobs, worker, machine, served, edits>>
  BY DEF Claim
<1> DEFINE t    == orders[d].tgt[n]
           list == IF t.st = "pending" THEN t.gr ELSE t.fz
           new  == [t EXCEPT !.st = "dispatched", !.fz = list]
           row  == HandedOut(orders[d], n, list)
<1>3. /\ d \in DOMAIN orders /\ orders[d].status \in {"planned", "running"}
      /\ t.st \in {"pending", "dispatched"}
  BY DEF Offers
<1>4. /\ Table(perm, orders) /\ orders[d] \in OrderRow /\ Named(perm, orders[d])
      /\ d \in Nat /\ DOMAIN perm \subseteq Nat
  BY <1>3, Row, Domain DEF IInv, Rest, ModelOK
<1>5. orders' = [orders EXCEPT ![d] = row]
  BY <1>1
<1>6. t \in Targets /\ TargetNamed(perm, t)
  BY <1>4, Target
<1>7. list \in DOMAIN perm
  BY <1>3, <1>6 DEF TargetNamed
<1>8. new \in Targets /\ TargetNamed(perm, new)
  <2>1. list # Null /\ list \in Nat
    BY <1>4, <1>7 DEF Null
  <2>2. t \in Targets /\ t.gr \in DOMAIN perm
    BY <1>3, <1>6 DEF TargetNamed
  <2> HIDE DEF list, t
  <2>3. /\ new \in Targets /\ new.st = "dispatched" /\ new.fz = list /\ new.gr = t.gr
    BY <2>1, <2>2 DEF Targets
  <2> HIDE DEF new
  <2> QED
    BY <1>7, <2>1, <2>2, <2>3 DEF TargetNamed
<1>9. row \in OrderRow /\ Named(perm, row)
  <2> HIDE DEF list
  <2>1. row = [orders[d] EXCEPT !.status = "running", !.tgt = [orders[d].tgt EXCEPT ![n] = new]]
    BY <1>4 DEF HandedOut, OrderRow
  <2> HIDE DEF row, new
  <2> QED
    BY <1>4, <1>8, <2>1 DEF OrderRow, Named
<1> HIDE DEF row
<1>10. /\ Table(perm, orders') /\ DOMAIN orders' = DOMAIN orders
  <2>1. orders[d].status # "succeeded"
    BY <1>3
  <2>2. \E o \in OrderRow : Named(perm, o) /\ orders' = [orders EXCEPT ![d] = o]
    BY <1>5, <1>9
  <2> QED
    BY <1>3, <1>4, <2>1, <2>2, RowReplaced
<1>11. /\ MachineOK' /\ served' \in DOMAIN perm /\ edits' \in 0 .. MaxEdits /\ perm' = perm
  BY <1>2 DEF IInv, Rest, MachineOK, modelVars
<1>12. AgentOK'
  <2>1. CASE lost
    BY <1>1, <1>10, <1>11, <2>1 DEF IInv, Rest, AgentOK
  <2>2. CASE ~lost
    <3> DEFINE a == [pc |-> "work", order |-> d, list |-> list]
    <3>1. agent' = [agent EXCEPT ![n] = a]
      BY <1>1, <2>2
    <3>2. a \in AgentRow
      BY <1>4, <1>7 DEF AgentRow
    <3> QED
      BY <1>3, <1>7, <1>10, <1>11, <3>1, <3>2, AgentChanged
  <2> QED
    BY <2>1, <2>2
<1> QED
  BY <1>2, <1>10, <1>11, <1>12, AgentKeeps

MachineRow == [list : DOMAIN perm, seen : (DOMAIN perm) \cup {Unsure}, clean : BOOLEAN]

LEMMA WorkStep ==
    ASSUME IInv, NEW n \in Node, Execute(n) \/ Fail(n)
    PROVE  IInv'
<1>1. /\ agent \in [Node -> AgentRow] /\ agent[n].pc = "work"
      /\ agent[n].order \in DOMAIN orders /\ agent[n].list \in DOMAIN perm
      /\ machine \in [Node -> MachineRow]
      /\ Table(perm, orders) /\ served \in DOMAIN perm /\ edits \in 0 .. MaxEdits
  BY DEF Execute, Fail, IInv, Rest, AgentOK, AgentRow, MachineOK, MachineRow
<1>2. UNCHANGED <<modelVars, jobs, worker, orders, served>>
  BY DEF Execute, Fail
<1>3. perm' = perm /\ DOMAIN orders' = DOMAIN orders
  BY <1>2 DEF modelVars
<1>4. edits' \in 0 .. MaxEdits
  BY <1>1, SpendsKeeps DEF Execute, Fail
<1>5. ASSUME NEW pc \in {"applied", "recovered", "dirty"}, agent' = [agent EXCEPT ![n].pc = pc]
      PROVE  AgentOK'
  <2> DEFINE a == [agent[n] EXCEPT !.pc = pc]
  <2>1. agent' = [agent EXCEPT ![n] = a]
    BY <1>1, <1>5
  <2>2. a \in AgentRow /\ a.order = agent[n].order /\ a.list = agent[n].list
    BY <1>1 DEF AgentRow
  <2> QED
    BY <1>1, <1>3, <2>1, <2>2, AgentChanged
<1>6. ASSUME NEW list \in DOMAIN perm, machine' = [machine EXCEPT ![n].list = list]
      PROVE  MachineOK'
  BY <1>1, <1>3, <1>6 DEF MachineOK, MachineRow
<1>7. CASE Execute(n)
  <2>1. MachineOK' /\ AgentOK'
    BY <1>1, <1>5, <1>6, <1>7 DEF Execute
  <2> QED
    BY <1>1, <1>2, <1>3, <1>4, <2>1, AgentKeeps
<1>8. CASE Fail(n)
  <2>1. AgentOK'
    BY <1>5, <1>8 DEF Fail
  <2>2. machine[n].list \in DOMAIN perm
    BY <1>1 DEF MachineRow
  <2>3. CASE machine' = machine
    <3>1. MachineOK'
      BY <1>1, <1>3, <2>3 DEF MachineOK, MachineRow
    <3> QED
      BY <1>1, <1>2, <1>3, <1>4, <2>1, <3>1, AgentKeeps
  <2>4. CASE \E list \in {machine[n].list, agent[n].list} :
                machine' = [machine EXCEPT ![n].list = list]
    <3>1. MachineOK'
      BY <1>1, <1>6, <2>2, <2>4
    <3> QED
      BY <1>1, <1>2, <1>3, <1>4, <2>1, <3>1, AgentKeeps
  <2> QED
    BY <1>8, <2>3, <2>4 DEF Fail
<1> QED
  BY <1>7, <1>8

LEMMA RefreshedType ==
    ASSUME Table(perm, orders), NEW d \in DOMAIN orders, NEW n \in Node,
           NEW st \in {"succeeded", "failed"}, orders[d].tgt[n].st = "dispatched"
    PROVE  Refreshed(d, n, st) \in OrderRow /\ Named(perm, Refreshed(d, n, st))
<1>1. orders[d] \in OrderRow /\ Named(perm, orders[d])
  BY Row
<1>2. orders[d].tgt[n] \in Targets /\ TargetNamed(perm, orders[d].tgt[n])
  BY <1>1, Target
<1> DEFINE t   == [orders[d].tgt[n] EXCEPT !.st = st, !.fz = Null]
           tgt == [orders[d].tgt EXCEPT ![n].st = st, ![n].fz = Null]
<1>3. t \in Targets /\ TargetNamed(perm, t)
  BY <1>2 DEF Targets, TargetNamed, Null
<1>4. tgt = [orders[d].tgt EXCEPT ![n] = t]
  BY <1>1 DEF OrderRow
<1> HIDE DEF t
<1>5. /\ tgt \in [Node -> Targets]
      /\ \A m \in Node : TargetNamed(perm, tgt[m])
  BY <1>1, <1>3, <1>4 DEF OrderRow, Named
<1> DEFINE full == orders[d].kind = "config" \/ orders[d].proof
<1>6. full \in BOOLEAN
  BY <1>1 DEF OrderRow
<1>7. \/ Refreshed(d, n, st) = [orders[d] EXCEPT !.tgt = tgt]
      \/ Refreshed(d, n, st) = [orders[d] EXCEPT !.tgt = tgt, !.status = "halted"]
      \/ Refreshed(d, n, st) = [orders[d] EXCEPT !.tgt = tgt, !.status = "running"]
      \/ Refreshed(d, n, st) = [orders[d] EXCEPT !.tgt = tgt, !.status = "succeeded",
                                                 !.active = full]
  BY DEF Refreshed
<1> HIDE DEF tgt, full
<1>8. Refreshed(d, n, st) \in OrderRow /\ Refreshed(d, n, st).tgt = tgt
      /\ Refreshed(d, n, st).rev = orders[d].rev
  BY <1>1, <1>5, <1>6, <1>7 DEF OrderRow
<1> QED
  BY <1>1, <1>5, <1>8 DEF Named

LEMMA CarriedIn ==
    ASSUME History(perm), served \in DOMAIN perm, NEW order \in OrderRow, Named(perm, order)
    PROVE  Carried(order) \in DOMAIN perm
<1> DEFINE landed == {order.tgt[n].gr : n \in {m \in Node : order.tgt[m].st = "succeeded"}}
<1>1. landed \in SUBSET (DOMAIN perm)
  BY DEF Named, TargetNamed
<1>2. landed # {} => Newest(landed) \in DOMAIN perm
  BY <1>1, NewestIn
<1> QED
  BY <1>2 DEF Carried, Named

LEMMA ReportStep ==
    ASSUME IInv, NEW n \in Node, Report(n)
    PROVE  IInv'
<1> DEFINE d     == agent[n].order
           st    == IF agent[n].pc = "applied" THEN "succeeded" ELSE "failed"
           order == Refreshed(d, n, st)
           known == agent[n].pc # "dirty"
<1>1. /\ agent[n].pc # "idle" /\ agent' = [agent EXCEPT ![n] = Resting]
      /\ UNCHANGED <<modelVars, jobs, worker, edits>>
  BY DEF Report
<1>2. IF ReportAccepted(n)
      THEN /\ orders' = [orders EXCEPT ![d] = order]
           /\ machine' = [machine EXCEPT
                 ![n].seen = IF known THEN machine[n].list ELSE Unsure,
                 ![n].clean = IF orders[d].kind = "config" THEN known ELSE @]
           /\ served' = IF order.active THEN Carried(order) ELSE served
      ELSE UNCHANGED <<orders, machine, served>>
  BY DEF Report
<1>3. /\ machine \in [Node -> MachineRow] /\ d \in DOMAIN orders
      /\ Table(perm, orders) /\ served \in DOMAIN perm /\ edits \in 0 .. MaxEdits
      /\ History(perm)
  BY <1>1 DEF IInv, Rest, ModelOK, AgentOK, MachineOK, MachineRow
<1>4. perm' = perm /\ edits' \in 0 .. MaxEdits
  BY <1>1, <1>3 DEF modelVars
<1>5. Resting \in AgentRow /\ Resting.pc = "idle"
  BY DEF Resting, AgentRow
<1>6. CASE ReportAccepted(n)
  <2>1. orders[d].tgt[n].st = "dispatched" /\ orders[d].status # "succeeded"
    BY <1>6 DEF ReportAccepted, Open
  <2>2. order \in OrderRow /\ Named(perm, order)
    BY <1>3, <2>1, RefreshedType
  <2> HIDE DEF order
  <2>3. \E o \in OrderRow : Named(perm, o) /\ orders' = [orders EXCEPT ![d] = o]
    BY <1>2, <1>6, <2>2
  <2>4. Table(perm, orders') /\ DOMAIN orders' = DOMAIN orders
    BY <1>3, <2>1, <2>3, RowReplaced
  <2>5. served' \in DOMAIN perm
    BY <1>2, <1>3, <1>6, <2>2, CarriedIn
  <2>6. MachineOK'
    BY <1>2, <1>3, <1>4, <1>6 DEF MachineOK, MachineRow
  <2>7. AgentOK'
    BY <1>1, <1>4, <1>5, <2>4, AgentChanged
  <2> QED
    BY <1>1, <1>4, <2>4, <2>5, <2>6, <2>7, AgentKeeps
<1>7. CASE ~ReportAccepted(n)
  <2>1. /\ Table(perm, orders') /\ DOMAIN orders' = DOMAIN orders
        /\ served' \in DOMAIN perm
    BY <1>2, <1>3, <1>7
  <2>2. MachineOK'
    BY <1>2, <1>3, <1>4, <1>7 DEF MachineOK, MachineRow
  <2>3. AgentOK'
    BY <1>1, <1>4, <1>5, <2>1, AgentChanged
  <2> QED
    BY <1>1, <1>4, <2>1, <2>2, <2>3, AgentKeeps
<1> QED
  BY <1>6, <1>7

----------------------------------------------------------------------------
(* The theorems.                                                           *)

LEMMA Initially == Init => IInv
<1> SUFFICES ASSUME Init PROVE IInv
  OBVIOUS
<1> DEFINE tgt == [n \in Node |-> [st |-> "succeeded", gr |-> 1, fz |-> Null]]
           row == [kind |-> "config", rev |-> 1, status |-> "succeeded", active |-> TRUE,
                   proof |-> FALSE, planned |-> Node, tgt |-> tgt]
<1>1. perm = <<TRUE>> /\ DOMAIN perm = {1} /\ orders = <<row>>
  BY DEF Init
<1>2. ModelOK /\ Owned
  <2>1. perm \in Seq(BOOLEAN) /\ Len(perm) > 0
    BY <1>1
  <2>2. quota \in [spent : BOOLEAN, suspended : BOOLEAN, plan : {"none", "suspend", "restore"}]
    BY DEF Init
  <2>3. disabled = FALSE /\ withdrawn = {} /\ restored = FALSE
    BY DEF Init
  <2> QED
    BY <2>1, <2>2, <2>3 DEF ModelOK, NotesOK, Owned, History
<1>3. Table(perm, orders)
  <2>1. tgt \in [Node -> Targets] /\ \A n \in Node : TargetNamed(perm, tgt[n])
    BY <1>1 DEF Targets, TargetNamed, Null
  <2> HIDE DEF tgt
  <2>2. row \in OrderRow /\ Named(perm, row) /\ row.status = "succeeded" /\ row.active
    BY <1>1, <2>1 DEF OrderRow, Named
  <2> HIDE DEF row
  <2>3. orders \in Seq(OrderRow) /\ DOMAIN orders = {1} /\ orders[1] = row /\ Len(orders) > 0
    BY <1>1, <2>2
  <2> QED
    BY <2>2, <2>3 DEF Table
<1>4. JobsOK /\ WorkerOK /\ MachineOK /\ AgentOK
  BY <1>1 DEF Init, JobsOK, WorkerOK, MachineOK, AgentOK, Free, Resting, Unsure
<1>5. served \in DOMAIN perm /\ edits \in 0 .. MaxEdits
  BY <1>1, GrantAssumption DEF Init
<1> QED
  BY <1>2, <1>3, <1>4, <1>5 DEF IInv, Rest

LEMMA Stuttering == IInv /\ UNCHANGED vars => IInv'
<1> SUFFICES ASSUME IInv, UNCHANGED vars PROVE IInv'
  OBVIOUS
<1>1. ModelOK' /\ Owned'
  BY ModelKept DEF vars
<1> QED
  BY <1>1 DEF vars, modelVars, IInv, Rest, JobsOK, WorkerOK, MachineOK, AgentOK

LEMMA Inductive == IInv /\ [Next]_vars => IInv'
<1> SUFFICES ASSUME IInv, Next PROVE IInv'
  BY Stuttering
<1>1. CASE Enable \/ Disable \/ Discard \/ ApplyQuotaChanges
  BY <1>1, EditorSteps
<1>2. CASE Consume \/ Reset \/ PlanQuotaEnforcement
  BY <1>2, QuotaSteps
<1>3. CASE SelectBatch \/ Reschedule \/ WorkerDies \/ RunAfter
  BY <1>3, WorkerSteps
<1>4. CASE CreateGrantsOrder
  BY <1>4, CreateStep
<1>5. CASE FinishBatch
  BY <1>5, FinishStep
<1>6. CASE \E S \in SUBSET Node \ {{}} : CreateConfigOrder(S)
  BY <1>6, ConfigStep
<1>7. CASE \E d \in DOMAIN orders : CancelOrder(d) \/ \E n \in Node : RetryTarget(d, n)
  BY <1>7, CancelStep, RetryStep
<1>8. CASE \E n \in Node : \/ \E lost \in BOOLEAN : Claim(n, lost)
                           \/ Execute(n) \/ Fail(n) \/ Report(n)
  BY <1>8, ClaimStep, WorkStep, ReportStep
<1> QED
  BY <1>1, <1>2, <1>3, <1>4, <1>5, <1>6, <1>7, <1>8 DEF Next

LEMMA Always == Spec => []IInv
<1> QED
  BY Initially, Inductive, PTL DEF Spec

\* Every job, order, machine and the serving pointer name revisions that exist
\* (enqueue_tx, insert_revision, create_automatic_grants_deployment).
THEOREM TypeCorrect == Spec => []TypeOK
<1>1. ASSUME IInv PROVE TypeOK
  <2>1. /\ perm \in Seq(BOOLEAN) /\ disabled \in BOOLEAN /\ NotesOK
        /\ quota \in [spent : BOOLEAN, suspended : BOOLEAN,
                      plan : {"none", "suspend", "restore"}]
    BY <1>1 DEF IInv, ModelOK, History
  <2>2. orders \in Seq([kind : {"config", "grants"}, rev : DOMAIN perm,
                        status : {"planned", "running", "halted", "succeeded", "canceled"},
                        active : BOOLEAN, proof : BOOLEAN, planned : SUBSET Node,
                        tgt : [Node -> Targets]])
    <3>1. \A d \in DOMAIN orders : orders[d] \in
                       [kind : {"config", "grants"}, rev : DOMAIN perm,
                        status : {"planned", "running", "halted", "succeeded", "canceled"},
                        active : BOOLEAN, proof : BOOLEAN, planned : SUBSET Node,
                        tgt : [Node -> Targets]]
      BY <1>1, Row DEF IInv, Rest, OrderRow, Named
    <3>2. orders \in Seq(OrderRow)
      BY <1>1 DEF IInv, Rest, Table
    <3> DEFINE Rows == [kind : {"config", "grants"}, rev : DOMAIN perm,
                        status : {"planned", "running", "halted", "succeeded", "canceled"},
                        active : BOOLEAN, proof : BOOLEAN, planned : SUBSET Node,
                        tgt : [Node -> Targets]]
    <3>3. \A d \in DOMAIN orders : orders[d] \in Rows
      BY <3>1
    <3> HIDE DEF Rows
    <3>4. orders \in Seq(Rows)
      BY <3>2, <3>3, SeqDef
    <3> QED
      BY <3>4 DEF Rows
  <2> QED
    BY <1>1, <2>1, <2>2 DEF TypeOK, NotesOK, IInv, Rest, JobsOK, WorkerOK, MachineOK, AgentOK
<1> QED
  BY <1>1, Always, PTL

\* Whatever plan the quota worker read, and whenever it applies it, an operator's
\* disabled grant stays disabled (prepare_operator_grant_tx, apply_quota_changes).
THEOREM OperatorKeepsDisable == Spec => []OperatorOwnsDisable
<1>1. IInv => OperatorOwnsDisable
  BY DEF IInv, Owned, OperatorOwnsDisable
<1> QED
  BY <1>1, Always, PTL

----------------------------------------------------------------------------
(* No permission change is forgotten.                                      *)

\* While anything is queued the newest revision is, unless a discard put that
\* one back, and what the worker took is the older part of the queue.
Headed ==
    /\ jobs # {} /\ ~restored => \E k \in jobs : k.rev = Latest
    /\ worker.pc # "idle" =>
          /\ \A b \in worker.batch : \E j \in jobs : j.rev = b
          /\ \A j \in jobs, b \in worker.batch : j.rev <= b => j.rev \in worker.batch

\* Exactly what is handed out is frozen, and with the list it is planned with.
Sealed ==
    \A d \in DOMAIN orders, n \in Node :
        orders[d].tgt[n].fz =
            IF orders[d].tgt[n].st = "dispatched" THEN orders[d].tgt[n].gr ELSE Null

\* Grants orders follow each other, none for an older revision comes after one
\* for the newest, and each one brings its machines its own list.
InTurn ==
    /\ \A d \in DOMAIN orders : orders[d].kind = "grants" =>
          \A n \in Node :
              IF n \in orders[d].planned THEN orders[d].tgt[n].gr = orders[d].rev
              ELSE orders[d].tgt[n].st = "none"
    /\ \A d, e \in DOMAIN orders :
          orders[d].kind = "grants" /\ orders[e].kind = "grants" /\ d < e =>
              /\ ~Open(d)
              /\ ~restored /\ orders[d].rev = Latest => orders[e].rev = Latest
    /\ worker.pc = "plan" /\ ~restored =>
          \A d \in DOMAIN orders :
              orders[d].kind = "grants" /\ orders[d].rev = Latest => Revision = Latest

\* An agent works on an order that waits for its report, or on one that was
\* canceled under its hands and left the machine unknown.
Held(n) ==
    Open(agent[n].order) /\ orders[agent[n].order].tgt[n].st = "dispatched"

Dropped(n) ==
    /\ orders[agent[n].order].status = "canceled"
    /\ machine[n].seen = Unsure
    /\ orders[agent[n].order].kind = "config" => ~machine[n].clean

Working ==
    \A n \in Node : agent[n].pc # "idle" =>
        /\ orders[agent[n].order].tgt[n].gr = agent[n].list
        /\ Held(n) \/ Dropped(n)
        /\ agent[n].pc = "applied" => machine[n].list = agent[n].list

\* What a machine was last seen with it has, unless its report is to come.
SeenTruly ==
    \A n \in Node : machine[n].seen # Unsure =>
        \/ machine[n].list = machine[n].seen
        \/ agent[n].pc \in {"applied", "dirty"} /\ Held(n)

\* Nothing is left to do for the newest permissions: no job, or only jobs that
\* are about to be settled; or an order for them names the machine.
Answered ==
    \/ jobs = {}
    \/ /\ worker.pc = "settle" /\ worker.verdict = "finish"
       /\ \A j \in jobs : j.rev \in worker.batch

Ordered(n) ==
    \E d \in DOMAIN orders :
        orders[d].kind = "grants" /\ orders[d].rev = Latest /\ n \in orders[d].planned

\* No order under way would bring machine n other permissions ...
Unfinished(d, n) ==
    Open(d) /\ orders[d].tgt[n].st \in {"pending", "dispatched", "failed"}

Agreed(n) ==
    \A d \in DOMAIN orders : Unfinished(d, n) => Same(orders[d].tgt[n].gr, Latest)

\* ... and the machine has them, or an order that will bring them, or a reason.
Cared(n) ==
    \/ ~machine[n].clean
    \/ n \in withdrawn
    \/ \E d \in DOMAIN orders : Delivers(d, n)
    \/ /\ Same(machine[n].list, Latest)
       /\ agent[n].pc = "work" => Same(agent[n].list, Latest)

Provided ==
    ~restored => \A n \in Node : Answered \/ Ordered(n) => Agreed(n) /\ Cared(n)

Story == Headed /\ Sealed /\ InTurn /\ Working /\ SeenTruly /\ Provided

\* The types the proofs below need, row by row.
LEMMA Types ==
    ASSUME IInv
    PROVE  /\ DOMAIN perm = 1 .. Latest /\ Latest \in Nat /\ Latest \in DOMAIN perm
           /\ \A j \in jobs : j.rev \in DOMAIN perm
           /\ worker.batch \in SUBSET (DOMAIN perm)
           /\ worker.pc # "idle" => worker.batch # {}
           /\ worker.pc \in {"idle", "plan", "settle"}
           /\ DOMAIN orders = 1 .. Len(orders) /\ Len(orders) \in Nat
           /\ \A d \in DOMAIN orders :
                 /\ orders[d] \in OrderRow /\ orders[d].rev \in DOMAIN perm
                 /\ orders[d].tgt \in [Node -> Targets]
           /\ \A n \in Node :
                 /\ machine[n].list \in DOMAIN perm
                 /\ machine[n].seen \in (DOMAIN perm) \cup {Unsure}
                 /\ agent[n].pc # "idle" =>
                       agent[n].order \in DOMAIN orders /\ agent[n].list \in DOMAIN perm
<1>1. DOMAIN perm = 1 .. Latest /\ Latest \in Nat /\ Latest \in DOMAIN perm
  BY Domain DEF IInv, ModelOK, Latest
<1>2. /\ \A j \in jobs : j.rev \in DOMAIN perm
      /\ worker.batch \in SUBSET (DOMAIN perm)
      /\ worker.pc # "idle" => worker.batch # {}
      /\ worker.pc \in {"idle", "plan", "settle"}
  BY DEF IInv, Rest, JobsOK, WorkerOK
<1>3. /\ DOMAIN orders = 1 .. Len(orders) /\ Len(orders) \in Nat
      /\ \A d \in DOMAIN orders : orders[d] \in OrderRow /\ Named(perm, orders[d])
  BY DEF IInv, Rest, Table
<1>4. \A d \in DOMAIN orders :
         orders[d].rev \in DOMAIN perm /\ orders[d].tgt \in [Node -> Targets]
  BY <1>3 DEF OrderRow, Named
<1>5. \A n \in Node :
         /\ machine[n].list \in DOMAIN perm
         /\ machine[n].seen \in (DOMAIN perm) \cup {Unsure}
         /\ agent[n].pc # "idle" =>
               agent[n].order \in DOMAIN orders /\ agent[n].list \in DOMAIN perm
  BY DEF IInv, Rest, MachineOK, AgentOK
<1> QED
  BY <1>1, <1>2, <1>3, <1>4, <1>5

LEMMA NewestAbove ==
    ASSUME NEW h, History(h), NEW S \in SUBSET (DOMAIN h), S # {}
    PROVE  Newest(S) \in S /\ \A s \in S : s <= Newest(S)
<1>1. S \subseteq 1 .. Len(h) /\ Len(h) \in Nat
  BY Domain
<1>2. PICK x \in S : \A y \in S : y <= x
  BY <1>1, LargestNumber
<1> QED
  BY <1>2 DEF Newest

----------------------------------------------------------------------------
(* Edits.                                                                  *)

LEMMA StoryKept ==
    ASSUME Story, UNCHANGED <<perm, withdrawn, restored, jobs, worker, orders, machine, agent>>
    PROVE  Story'
<1>1. Headed' /\ Sealed' /\ InTurn'
  BY DEF Story, Headed, Sealed, InTurn, Revision, Newest, Open, Latest
<1>2. Working' /\ SeenTruly'
  BY DEF Story, Working, SeenTruly, Held, Dropped, Open
<1>3. ASSUME ~restored', NEW n \in Node
      PROVE  (Answered \/ Ordered(n) => Agreed(n) /\ Cared(n))'
  BY <1>3 DEF Story, Provided, Answered, Ordered, Agreed, Cared, Unfinished, Delivers, Open,
         Same, Latest
<1>4. Provided'
  BY <1>3 DEF Provided
<1> QED
  BY <1>1, <1>2, <1>4 DEF Story

\* A commit puts its job behind all others, and no order is one for it yet.
LEMMA CommitStory ==
    ASSUME IInv, Story, UNCHANGED <<worker, orders, machine, agent>>, NEW b,
           perm' = Append(perm, b), restored' = FALSE,
           jobs' = jobs \cup {[rev |-> Latest + 1, due |-> TRUE]}
    PROVE  Story'
<1>1. /\ DOMAIN perm = 1 .. Latest /\ Latest \in Nat
      /\ \A j \in jobs : j.rev \in DOMAIN perm
      /\ worker.batch \in SUBSET (DOMAIN perm)
      /\ \A d \in DOMAIN orders : orders[d].rev \in DOMAIN perm
  BY Types
<1>2. Latest' = Latest + 1 /\ DOMAIN perm' = 1 .. (Latest + 1)
  BY <1>1 DEF IInv, ModelOK, History, Latest
<1>3. \A j \in jobs' : j \in jobs \/ j.rev = Latest + 1
  OBVIOUS
<1>4. \E j \in jobs' : j.rev = Latest + 1
  <2> DEFINE j == [rev |-> Latest + 1, due |-> TRUE]
  <2>1. j \in jobs' /\ j.rev = Latest + 1
    OBVIOUS
  <2> QED
    BY <2>1
<1>5. Headed'
  <2>1. \E k \in jobs' : k.rev = Latest'
    BY <1>2, <1>4
  <2>2. worker'.pc # "idle" =>
          /\ \A c \in worker'.batch : \E j \in jobs' : j.rev = c
          /\ \A j \in jobs', c \in worker'.batch : j.rev <= c => j.rev \in worker'.batch
    BY <1>1, <1>3 DEF Story, Headed
  <2> QED
    BY <2>1, <2>2 DEF Headed
<1>6. Sealed' /\ InTurn'
  BY <1>1, <1>2 DEF Story, Sealed, InTurn, Revision, Newest, Open
<1>7. Working' /\ SeenTruly'
  BY DEF Story, Working, SeenTruly, Held, Dropped, Open
<1>8. ~Answered'
  <2>1. Latest + 1 \notin worker'.batch
    BY <1>1
  <2> QED
    BY <1>4, <2>1 DEF Answered
<1>9. \A n \in Node : ~Ordered(n)'
  BY <1>1, <1>2 DEF Ordered
<1> QED
  BY <1>5, <1>6, <1>7, <1>8, <1>9 DEF Story, Provided

LEMMA EditStory ==
    ASSUME IInv, Story, Enable \/ Disable \/ ApplyQuotaChanges \/ Consume \/ Reset
                        \/ PlanQuotaEnforcement
    PROVE  Story'
<1>1. UNCHANGED <<worker, orders, machine, agent>>
  BY DEF Enable, Disable, ApplyQuotaChanges, Consume, Reset, PlanQuotaEnforcement
<1>2. ASSUME NEW b, Commit(b) PROVE Story'
  BY <1>1, <1>2, StoryKept, CommitStory DEF Commit
<1>3. \/ \E b \in BOOLEAN : Commit(b)
      \/ UNCHANGED <<perm, withdrawn, restored, jobs>>
  BY DEF Enable, Disable, ApplyQuotaChanges, Consume, Reset, PlanQuotaEnforcement
<1> QED
  BY <1>1, <1>2, <1>3, StoryKept

----------------------------------------------------------------------------
(* The worker.                                                             *)

\* Orders, machines and agents as they are, and no other revisions queued:
\* what was provided for stays provided for.
LEMMA QueueStory ==
    ASSUME Story, UNCHANGED <<perm, withdrawn, restored, machine, agent>>,
           Headed', Sealed', InTurn', Answered' => Answered,
           DOMAIN orders' = DOMAIN orders,
           \A d \in DOMAIN orders :
               /\ orders'[d].kind = orders[d].kind /\ orders'[d].rev = orders[d].rev
               /\ orders'[d].planned = orders[d].planned
               /\ orders'[d].status = orders[d].status /\ orders'[d].tgt = orders[d].tgt,
           \A n \in Node : agent[n].pc # "idle" => agent[n].order \in DOMAIN orders
    PROVE  Story'
<1>1. \A d \in DOMAIN orders : Open(d)' = Open(d)
  BY DEF Open
<1>2. Working'
  BY <1>1 DEF Story, Working, Held, Dropped
<1>3. SeenTruly'
  BY <1>1 DEF Story, SeenTruly, Held
<1>4. ASSUME ~restored', NEW n \in Node, (Answered \/ Ordered(n))'
      PROVE  (Agreed(n) /\ Cared(n))'
  <2>1. Latest' = Latest /\ \A a, b : Same(a, b)' = Same(a, b)
    BY DEF Latest, Same
  <2>2. Answered \/ Ordered(n)
    BY <1>4, <2>1 DEF Ordered
  <2>3. Agreed(n) /\ Cared(n)
    BY <1>4, <2>2 DEF Story, Provided
  <2>4. \A d \in DOMAIN orders : Unfinished(d, n)' = Unfinished(d, n)
                                 /\ Delivers(d, n)' = Delivers(d, n)
    BY <1>1, <2>1 DEF Unfinished, Delivers
  <2>5. Agreed(n)'
    BY <2>1, <2>3, <2>4 DEF Agreed
  <2>6. Cared(n)'
    BY <2>1, <2>3, <2>4 DEF Cared
  <2> QED
    BY <2>5, <2>6
<1> QED
  BY <1>2, <1>3, <1>4 DEF Story, Provided

LEMMA SelectStory ==
    ASSUME IInv, Story, SelectBatch
    PROVE  Story'
<1>1. /\ worker'.pc = "plan" /\ worker'.batch = {j.rev : j \in jobs} /\ jobs # {}
      /\ UNCHANGED <<modelVars, jobs, orders, machine, agent>>
  BY DEF SelectBatch, Free
<1>2. /\ DOMAIN perm = 1 .. Latest /\ Latest \in Nat /\ Latest \in DOMAIN perm
      /\ \A j \in jobs : j.rev \in DOMAIN perm
      /\ \A d \in DOMAIN orders : orders[d].rev \in DOMAIN perm
      /\ \A n \in Node : agent[n].pc # "idle" => agent[n].order \in DOMAIN orders
  BY Types
<1>3. UNCHANGED <<perm, withdrawn, restored, machine, agent, jobs, orders>>
  BY <1>1 DEF modelVars
<1>4. Headed'
  BY <1>1, <1>3 DEF Story, Headed, Latest
<1>5. Sealed'
  BY <1>3 DEF Story, Sealed
<1>6. InTurn'
  <2>1. ASSUME ~restored PROVE Revision' = Latest
    \* the newest job is of the newest revision
    <3>1. \E k \in jobs : k.rev = Latest
      BY <1>1, <2>1 DEF Story, Headed
    <3>2. worker'.batch \in SUBSET (DOMAIN perm) /\ Latest \in worker'.batch
      BY <1>1, <1>2, <3>1
    <3>3. Latest <= Newest(worker'.batch)
      BY <3>2, NewestAbove DEF IInv, ModelOK
    <3>4. Newest(worker'.batch) \in DOMAIN perm
      BY <3>2, NewestIn DEF IInv, ModelOK
    <3>5. Revision' = Newest(worker'.batch)
      BY DEF Revision, Newest
    <3> QED
      BY <1>2, <3>3, <3>4, <3>5
  <2>2. Latest' = Latest /\ \A d \in DOMAIN orders : Open(d)' = Open(d)
    BY <1>3 DEF Latest, Open
  <2> QED
    BY <1>3, <2>1, <2>2 DEF Story, InTurn
<1>7. ~Answered'
  BY <1>1, <1>3 DEF Answered
<1> QED
  BY <1>2, <1>3, <1>4, <1>5, <1>6, <1>7, QueueStory

\* The batch goes back, or is left where it is.
LEMMA ReturnStory ==
    ASSUME IInv, Story, Reschedule \/ WorkerDies \/ RunAfter
    PROVE  Story'
<1>1. /\ UNCHANGED <<modelVars, orders, machine, agent>>
      /\ worker' = Free \/ worker' = worker
  BY DEF Reschedule, WorkerDies, RunAfter
<1>2. UNCHANGED <<perm, withdrawn, restored, machine, agent, orders>>
  BY <1>1 DEF modelVars
<1>3. /\ \A j \in jobs : \E k \in jobs' : k.rev = j.rev
      /\ \A k \in jobs' : \E j \in jobs : k.rev = j.rev
  <2>1. CASE Reschedule
    <3>1. jobs' = {[j EXCEPT !.due = @ /\ j.rev \notin worker.batch] : j \in jobs}
      BY <2>1 DEF Reschedule
    <3>2. \A j \in jobs : [j EXCEPT !.due = @ /\ j.rev \notin worker.batch].rev = j.rev
      BY DEF IInv, Rest, JobsOK
    <3> QED
      BY <3>1, <3>2
  <2>2. CASE WorkerDies
    BY <2>2 DEF WorkerDies
  <2>3. CASE RunAfter
    <3>1. PICK j \in jobs : jobs' = (jobs \ {j}) \cup {[j EXCEPT !.due = TRUE]}
      BY <2>3 DEF RunAfter
    <3>2. [j EXCEPT !.due = TRUE].rev = j.rev
      BY DEF IInv, Rest, JobsOK
    <3> QED
      BY <3>1, <3>2
  <2> QED
    BY <2>1, <2>2, <2>3
<1>4. worker'.pc # "idle" => worker' = worker
  BY <1>1 DEF Free
<1>5. Headed'
  <2>1. ASSUME jobs' # {}, ~restored PROVE \E l \in jobs' : l.rev = Latest
    <3>1. jobs # {}
      BY <1>3, <2>1
    <3>2. PICK l \in jobs : l.rev = Latest
      BY <2>1, <3>1 DEF Story, Headed
    <3> QED
      BY <1>3, <3>2
  <2>2. ASSUME worker'.pc # "idle"
        PROVE  /\ \A b \in worker'.batch : \E j \in jobs' : j.rev = b
               /\ \A k \in jobs', b \in worker'.batch : k.rev <= b => k.rev \in worker'.batch
    <3>1. /\ \A b \in worker.batch : \E j \in jobs : j.rev = b
          /\ \A j \in jobs, b \in worker.batch : j.rev <= b => j.rev \in worker.batch
      BY <1>4, <2>2 DEF Story, Headed
    <3>2. \A b \in worker.batch : \E k \in jobs' : k.rev = b
      BY <1>3, <3>1
    <3>3. \A k \in jobs', b \in worker.batch : k.rev <= b => k.rev \in worker.batch
      BY <1>3, <3>1
    <3> QED
      BY <1>4, <2>2, <3>2, <3>3
  <2> QED
    BY <1>2, <2>1, <2>2 DEF Headed, Latest
<1>6. Sealed'
  BY <1>2 DEF Story, Sealed
<1>7. InTurn'
  BY <1>2, <1>4 DEF Story, InTurn, Open, Revision, Newest, Latest
<1>8. Answered' => Answered
  BY <1>3, <1>4 DEF Answered
<1>9. \A n \in Node : agent[n].pc # "idle" => agent[n].order \in DOMAIN orders
  BY Types
<1> QED
  BY <1>2, <1>5, <1>6, <1>7, <1>8, <1>9, QueueStory

LEMMA FinishStory ==
    ASSUME IInv, Story, FinishBatch
    PROVE  Story'
<1>1. /\ worker.pc = "settle" /\ worker.verdict = "finish" /\ worker' = Free
      /\ jobs' = {j \in jobs : j.rev \notin worker.batch}
      /\ UNCHANGED <<modelVars, machine, agent>>
  BY DEF FinishBatch
<1>2. UNCHANGED <<perm, withdrawn, restored, machine, agent>> /\ worker'.pc = "idle"
  BY <1>1 DEF modelVars, Free
<1>3. /\ DOMAIN orders' = DOMAIN orders
      /\ \A d \in DOMAIN orders :
            /\ orders'[d].kind = orders[d].kind /\ orders'[d].rev = orders[d].rev
            /\ orders'[d].planned = orders[d].planned
            /\ orders'[d].status = orders[d].status /\ orders'[d].tgt = orders[d].tgt
  <2>1. CASE worker.order = 0
    BY <2>1 DEF FinishBatch
  <2>2. CASE worker.order # 0
    <3>1. /\ worker.order \in DOMAIN orders
          /\ \A d \in DOMAIN orders : orders[d] \in OrderRow
      BY <2>2, Types DEF IInv, Rest, WorkerOK
    <3>2. \E late \in BOOLEAN :
              orders' = [orders EXCEPT ![worker.order].proof = TRUE,
                                       ![worker.order].active = @ \/ late]
      BY <2>2 DEF FinishBatch
    <3>3. PICK late \in BOOLEAN :
              orders' = [orders EXCEPT ![worker.order].proof = TRUE,
                                       ![worker.order].active = @ \/ late]
      BY <3>2
    <3>4. DOMAIN orders' = DOMAIN orders
      BY <3>3
    <3>5. ASSUME NEW d \in DOMAIN orders
          PROVE  \/ orders'[d] = orders[d]
                 \/ orders'[d] = [orders[d] EXCEPT !.proof = TRUE, !.active = @ \/ late]
      BY <3>1, <3>3
    <3>6. ASSUME NEW d \in DOMAIN orders, NEW a
          PROVE  LET o == [orders[d] EXCEPT !.proof = TRUE, !.active = a]
                 IN  /\ o.kind = orders[d].kind /\ o.rev = orders[d].rev
                     /\ o.planned = orders[d].planned /\ o.status = orders[d].status
                     /\ o.tgt = orders[d].tgt
      <4>1. orders[d] \in OrderRow
        BY <3>1
      <4> QED
        BY <4>1 DEF OrderRow
    <3>7. ASSUME NEW d \in DOMAIN orders
          PROVE  /\ orders'[d].kind = orders[d].kind /\ orders'[d].rev = orders[d].rev
                 /\ orders'[d].planned = orders[d].planned
                 /\ orders'[d].status = orders[d].status /\ orders'[d].tgt = orders[d].tgt
      <4>1. CASE orders'[d] = orders[d]
        BY <4>1
      <4>2. CASE orders'[d] = [orders[d] EXCEPT !.proof = TRUE, !.active = @ \/ late]
        <5> DEFINE a == orders[d].active \/ late
        <5>1. orders'[d] = [orders[d] EXCEPT !.proof = TRUE, !.active = a]
          BY <4>2
        <5> HIDE DEF a
        <5> QED
          BY <3>6, <5>1
      <4> QED
        BY <3>5, <4>1, <4>2
    <3> QED
      BY <3>4, <3>7
  <2> QED
    BY <2>1, <2>2
<1>4. Headed'
  <2>1. ASSUME NEW j \in jobs', ~restored PROVE \E k \in jobs' : k.rev = Latest
    <3>1. j \in jobs /\ j.rev \notin worker.batch
      BY <1>1
    <3>2. PICK k \in jobs : k.rev = Latest
      BY <2>1, <3>1 DEF Story, Headed
    <3>3. j.rev <= Latest
      BY <3>1, Types
    <3>4. Latest \notin worker.batch
      BY <1>1, <3>1, <3>3 DEF Story, Headed
    <3> QED
      BY <1>1, <3>2, <3>4
  <2>2. jobs' # {} /\ ~restored => \E k \in jobs' : k.rev = Latest
    BY <2>1
  <2> QED
    BY <1>2, <2>2 DEF Headed, Latest
<1>5. Sealed'
  BY <1>3 DEF Story, Sealed
<1>6. InTurn'
  BY <1>2, <1>3 DEF Story, InTurn, Open, Latest
<1>7. Answered' => Answered
  BY <1>1, <1>2 DEF Answered
<1>8. \A n \in Node : agent[n].pc # "idle" => agent[n].order \in DOMAIN orders
  BY Types
<1> QED
  BY <1>2, <1>3, <1>4, <1>5, <1>6, <1>7, <1>8, QueueStory

LEMMA ConfigStory ==
    ASSUME IInv, Story, NEW S \in SUBSET Node, CreateConfigOrder(S)
    PROVE  Story'
<1> DEFINE tgt == [n \in Node |-> IF n \in S THEN [st |-> "pending", gr |-> Latest, fz |-> Null]
                                 ELSE [NoTarget EXCEPT !.st = "skipped"]]
           row == [kind |-> "config", rev |-> Latest, status |-> "planned", active |-> FALSE,
                   proof |-> FALSE, planned |-> S, tgt |-> tgt]
<1>0. PICK new : new = Len(orders) + 1
  OBVIOUS
<1>1. orders' = Append(orders, row)
      /\ UNCHANGED <<modelVars, jobs, worker, machine, agent>>
  BY DEF CreateConfigOrder
<1>2. \A n \in Node : \/ tgt[n].st = "pending" /\ tgt[n].gr = Latest /\ tgt[n].fz = Null
                      \/ tgt[n].st = "skipped" /\ tgt[n].fz = Null
  BY DEF NoTarget
<1> HIDE DEF tgt
<1>3. row.kind = "config" /\ row.tgt = tgt
  OBVIOUS
<1> HIDE DEF row
<1>4. /\ DOMAIN orders' = DOMAIN orders \cup {new} /\ new \notin DOMAIN orders
      /\ \A d \in DOMAIN orders : orders'[d] = orders[d]
      /\ orders'[new] = row
  BY <1>0, <1>1, Types DEF IInv, Rest, Table
<1>5. UNCHANGED <<perm, withdrawn, restored, jobs, worker, machine, agent>>
  BY <1>1 DEF modelVars
<1>6. /\ \A n \in Node : agent[n].pc # "idle" => agent[n].order \in DOMAIN orders
      /\ \A a, b : Same(a, b)' = Same(a, b)
      /\ Latest' = Latest /\ \A d \in DOMAIN orders : Open(d)' = Open(d)
  BY <1>4, <1>5, Types DEF Same, Latest, Open
<1>7. Headed'
  BY <1>5, <1>6 DEF Story, Headed
<1>8. Sealed'
  BY <1>2, <1>3, <1>4 DEF Story, Sealed
<1>9. InTurn'
  <2>1. \A d \in DOMAIN orders' : orders'[d].kind = "grants" => d \in DOMAIN orders
    BY <1>3, <1>4
  <2>2. Revision' = Revision
    BY <1>5 DEF Revision, Newest
  <2> QED
    BY <1>4, <1>5, <1>6, <2>1, <2>2 DEF Story, InTurn
<1>10. Working' /\ SeenTruly'
  <2>1. ASSUME NEW n \in Node, agent[n].pc # "idle"
        PROVE  /\ Held(n)' = Held(n) /\ Dropped(n)' = Dropped(n)
               /\ orders'[agent[n].order] = orders[agent[n].order]
    BY <1>4, <1>5, <1>6, <2>1 DEF Held, Dropped, Open
  <2>2. Working'
    BY <1>5, <2>1 DEF Story, Working
  <2>3. SeenTruly'
    BY <1>5, <2>1 DEF Story, SeenTruly
  <2> QED
    BY <2>2, <2>3
<1>11. ASSUME ~restored', NEW n \in Node, (Answered \/ Ordered(n))'
       PROVE  (Agreed(n) /\ Cared(n))'
  <2>1. Answered \/ Ordered(n)
    BY <1>3, <1>4, <1>5, <1>6, <1>11 DEF Answered, Ordered
  <2>2. Agreed(n) /\ Cared(n)
    BY <1>5, <1>11, <2>1 DEF Story, Provided
  <2>3. \A d \in DOMAIN orders : Unfinished(d, n)' = Unfinished(d, n)
                                 /\ Delivers(d, n)' = Delivers(d, n)
    BY <1>4, <1>6 DEF Unfinished, Delivers
  <2>4. Unfinished(new, n)' => Same(orders'[new].tgt[n].gr, Latest)
    <3>1. tgt[n].st = "skipped" => ~Unfinished(new, n)'
      BY <1>3, <1>4 DEF Unfinished
    <3>2. tgt[n].gr = Latest => Same(orders'[new].tgt[n].gr, Latest)
      BY <1>3, <1>4 DEF Same
    <3> QED
      BY <1>2, <3>1, <3>2
  <2>5. Agreed(n)'
    <3>1. ASSUME NEW d \in DOMAIN orders', Unfinished(d, n)'
          PROVE  Same(orders'[d].tgt[n].gr, Latest)
      <4>1. CASE d = new
        BY <2>4, <3>1, <4>1
      <4>2. CASE d \in DOMAIN orders
        <5>1. Unfinished(d, n)
          BY <2>3, <3>1, <4>2
        <5> QED
          BY <1>4, <2>2, <4>2, <5>1 DEF Agreed
      <4> QED
        BY <1>4, <4>1, <4>2
    <3> QED
      BY <1>6, <3>1 DEF Agreed
  <2>6. Cared(n)'
    BY <1>4, <1>5, <1>6, <2>2, <2>3 DEF Cared
  <2> QED
    BY <2>5, <2>6
<1> QED
  BY <1>7, <1>8, <1>9, <1>10, <1>11 DEF Story, Provided

\* What rebasing leaves alone, and what it changes.
LEMMA RebasedRows ==
    ASSUME IInv, NEW r
    PROVE  /\ DOMAIN Rebased(r) = DOMAIN orders
           /\ \A d \in DOMAIN orders :
                 /\ Rebased(r)[d].kind = orders[d].kind /\ Rebased(r)[d].rev = orders[d].rev
                 /\ Rebased(r)[d].planned = orders[d].planned
                 /\ Rebased(r)[d].status = orders[d].status
                 /\ \A n \in Node :
                       /\ Rebased(r)[d].tgt[n].st = orders[d].tgt[n].st
                       /\ Rebased(r)[d].tgt[n].fz = orders[d].tgt[n].fz
                       /\ Rebased(r)[d].tgt[n].gr =
                             IF ConfigTarget(d, n) /\ ~Frozen(d, n) THEN r
                             ELSE orders[d].tgt[n].gr
<1> DEFINE tgt(d) == [n \in Node |->
               IF ConfigTarget(d, n) /\ ~Frozen(d, n)
               THEN [orders[d].tgt[n] EXCEPT !.gr = r] ELSE orders[d].tgt[n]]
           row(d) == [orders[d] EXCEPT !.tgt = tgt(d)]
<1>1. Rebased(r) = [d \in DOMAIN orders |-> row(d)]
  BY DEF Rebased
<1>2. ASSUME NEW d \in DOMAIN orders
      PROVE  /\ row(d).kind = orders[d].kind /\ row(d).rev = orders[d].rev
             /\ row(d).planned = orders[d].planned /\ row(d).status = orders[d].status
             /\ row(d).tgt = tgt(d)
  <2>1. orders[d] \in OrderRow
    BY Types
  <2> HIDE DEF tgt
  <2> QED
    BY <2>1 DEF OrderRow
<1>3. ASSUME NEW d \in DOMAIN orders, NEW n \in Node
      PROVE  /\ tgt(d)[n].st = orders[d].tgt[n].st /\ tgt(d)[n].fz = orders[d].tgt[n].fz
             /\ tgt(d)[n].gr = IF ConfigTarget(d, n) /\ ~Frozen(d, n) THEN r
                               ELSE orders[d].tgt[n].gr
  <2>1. orders[d].tgt[n] \in Targets
    BY Types
  <2>2. LET t == [orders[d].tgt[n] EXCEPT !.gr = r]
        IN  t.st = orders[d].tgt[n].st /\ t.fz = orders[d].tgt[n].fz /\ t.gr = r
    BY <2>1 DEF Targets
  <2> QED
    BY <2>2
<1> HIDE DEF row, tgt
<1> QED
  BY <1>1, <1>2, <1>3

\* The worker answers the newest permissions: it plans the machines that
\* differ, takes pending configuration along and defers what is handed out.
LEMMA RebaseStory ==
    ASSUME IInv, Story, worker.pc = "plan",
           NEW r, r = Revision, NEW later, later = Deferred(r),
           NEW plan, plan = Differing(r) \ later,
           UNCHANGED <<perm, withdrawn, restored, jobs, machine, agent>>,
           worker'.pc = "settle", worker'.batch = worker.batch,
           worker'.verdict = "finish" => later = {},
           NEW New, DOMAIN orders' = DOMAIN orders \cup New,
           \A d \in New : \A e \in DOMAIN orders : e < d /\ d \notin DOMAIN orders,
           \A d, e \in New : d \in Nat /\ d = e,
           \A d \in DOMAIN orders : orders'[d] = Rebased(r)[d],
           \A d \in New : orders'[d] = GrantsOrder(r, plan),
           New # {} => ActiveGrants = {},
           plan # {} => New # {} \/ Existing(r, plan) # {},
           ActiveGrants = {} \/ Existing(r, plan) # {}
    PROVE  Story'
<1>1. /\ DOMAIN perm = 1 .. Latest /\ Latest \in Nat /\ Latest \in DOMAIN perm
      /\ \A j \in jobs : j.rev \in DOMAIN perm
      /\ worker.batch \in SUBSET (DOMAIN perm) /\ worker.batch # {}
      /\ DOMAIN orders = 1 .. Len(orders) /\ Len(orders) \in Nat
      /\ \A d \in DOMAIN orders : orders[d].rev \in DOMAIN perm
      /\ \A n \in Node : agent[n].pc # "idle" => agent[n].order \in DOMAIN orders
  BY Types
<1>2. r \in worker.batch /\ \A b \in worker.batch : b <= r
  BY <1>1, NewestAbove DEF Revision, IInv, ModelOK
<1>3. r \in DOMAIN perm
  BY <1>1, <1>2
<1>4. Latest' = Latest /\ \A a, b : Same(a, b)' = Same(a, b)
  BY DEF Latest, Same
<1>5. \A d \in DOMAIN orders :
         /\ orders'[d].kind = orders[d].kind /\ orders'[d].rev = orders[d].rev
         /\ orders'[d].planned = orders[d].planned /\ orders'[d].status = orders[d].status
         /\ Open(d)' = Open(d)
         /\ \A n \in Node :
               /\ orders'[d].tgt[n].st = orders[d].tgt[n].st
               /\ orders'[d].tgt[n].fz = orders[d].tgt[n].fz
               /\ orders'[d].tgt[n].gr =
                     IF ConfigTarget(d, n) /\ ~Frozen(d, n) THEN r ELSE orders[d].tgt[n].gr
  BY RebasedRows DEF Open
<1>6. \A d \in New :
         /\ orders'[d].kind = "grants" /\ orders'[d].rev = r /\ orders'[d].planned = plan
         /\ orders'[d].status = "planned" /\ Open(d)'
         /\ \A n \in plan : /\ orders'[d].tgt[n].st = "pending" /\ orders'[d].tgt[n].gr = r
                            /\ orders'[d].tgt[n].fz = Null
         /\ \A n \in Node \ plan : orders'[d].tgt[n].st = "none" /\ orders'[d].tgt[n].fz = Null
  <2>1. plan \subseteq Node
    BY DEF Differing
  <2>2. \A n \in Node : /\ n \in plan => /\ GrantsOrder(r, plan).tgt[n].st = "pending"
                                         /\ GrantsOrder(r, plan).tgt[n].gr = r
                                         /\ GrantsOrder(r, plan).tgt[n].fz = Null
                        /\ n \notin plan => /\ GrantsOrder(r, plan).tgt[n].st = "none"
                                            /\ GrantsOrder(r, plan).tgt[n].fz = Null
    BY DEF GrantsOrder, NoTarget
  <2>3. /\ GrantsOrder(r, plan).kind = "grants" /\ GrantsOrder(r, plan).rev = r
        /\ GrantsOrder(r, plan).planned = plan /\ GrantsOrder(r, plan).status = "planned"
    BY DEF GrantsOrder
  <2> SUFFICES ASSUME NEW d \in New
               PROVE  /\ orders'[d].kind = "grants" /\ orders'[d].rev = r
                      /\ orders'[d].planned = plan /\ orders'[d].status = "planned" /\ Open(d)'
                      /\ \A n \in plan : /\ orders'[d].tgt[n].st = "pending"
                                         /\ orders'[d].tgt[n].gr = r
                                         /\ orders'[d].tgt[n].fz = Null
                      /\ \A n \in Node \ plan : /\ orders'[d].tgt[n].st = "none"
                                                /\ orders'[d].tgt[n].fz = Null
    OBVIOUS
  <2>4. orders'[d] = GrantsOrder(r, plan)
    OBVIOUS
  <2>5. Open(d)'
    BY <2>3, <2>4 DEF Open
  <2>6. /\ orders'[d].kind = "grants" /\ orders'[d].rev = r
        /\ orders'[d].planned = plan /\ orders'[d].status = "planned"
    BY <2>3, <2>4
  <2> DEFINE t == GrantsOrder(r, plan).tgt
  <2>7. orders'[d].tgt = t
    BY <2>4
  <2>8. \A n \in Node : /\ n \in plan => t[n].st = "pending" /\ t[n].gr = r /\ t[n].fz = Null
                        /\ n \notin plan => t[n].st = "none" /\ t[n].fz = Null
    BY <2>2
  <2> HIDE DEF t
  <2> QED
    BY <2>1, <2>5, <2>6, <2>7, <2>8
<1>7. Headed'
  BY <1>4 DEF Story, Headed
<1>8. Sealed'
  <2>1. ASSUME NEW d \in DOMAIN orders, NEW n \in Node
        PROVE  orders'[d].tgt[n].fz =
                  IF orders'[d].tgt[n].st = "dispatched" THEN orders'[d].tgt[n].gr ELSE Null
    BY <1>5 DEF Story, Sealed, Frozen
  <2>2. ASSUME NEW d \in New, NEW n \in Node
        PROVE  orders'[d].tgt[n].fz =
                  IF orders'[d].tgt[n].st = "dispatched" THEN orders'[d].tgt[n].gr ELSE Null
    BY <1>6
  <2> QED
    BY <2>1, <2>2 DEF Sealed
<1>9. ASSUME ~restored, NEW d \in DOMAIN orders, orders[d].kind = "grants", orders[d].rev = Latest
      PROVE  r = Latest
  BY <1>9 DEF Story, InTurn
<1>10. InTurn'
  <2>1. ASSUME NEW d \in DOMAIN orders', orders'[d].kind = "grants", NEW n \in Node
        PROVE  IF n \in orders'[d].planned THEN orders'[d].tgt[n].gr = orders'[d].rev
               ELSE orders'[d].tgt[n].st = "none"
    <3>1. CASE d \in DOMAIN orders
      BY <1>5, <2>1, <3>1 DEF Story, InTurn, ConfigTarget
    <3>2. CASE d \in New
      BY <1>6, <3>2
    <3> QED
      BY <3>1, <3>2
  <2>2. ASSUME NEW d \in DOMAIN orders', NEW e \in DOMAIN orders', d < e,
               orders'[d].kind = "grants", orders'[e].kind = "grants"
        PROVE  /\ ~Open(d)'
               /\ ~restored /\ orders'[d].rev = Latest => orders'[e].rev = Latest
    <3>1. CASE d \in DOMAIN orders /\ e \in DOMAIN orders
      BY <1>5, <2>2, <3>1 DEF Story, InTurn
    <3>2. CASE d \in DOMAIN orders /\ e \in New
      <4>1. ActiveGrants = {} /\ orders[d].kind = "grants"
        BY <1>5, <2>2, <3>2
      <4>2. ~Open(d)
        BY <3>2, <4>1 DEF ActiveGrants
      <4> QED
        BY <1>5, <1>6, <1>9, <3>2, <4>1, <4>2
    <3>3. CASE d \in New
      <4>1. e \in New \/ e < d
        BY <3>3
      <4> QED
        BY <1>1, <2>2, <3>3, <4>1
    <3> QED
      BY <3>1, <3>2, <3>3
  <2> QED
    BY <1>4, <2>1, <2>2 DEF InTurn
<1>11. \A n \in Node : agent[n].pc # "idle" =>
          /\ Held(n)' = Held(n) /\ (Dropped(n) => Dropped(n)')
          /\ Held(n) \/ Dropped(n) => orders'[agent[n].order].tgt[n].gr = orders[agent[n].order].tgt[n].gr
  <2> SUFFICES ASSUME NEW n \in Node, agent[n].pc # "idle"
               PROVE  /\ Held(n)' = Held(n) /\ (Dropped(n) => Dropped(n)')
                      /\ Held(n) \/ Dropped(n) =>
                            orders'[agent[n].order].tgt[n].gr = orders[agent[n].order].tgt[n].gr
    OBVIOUS
  <2> DEFINE d == agent[n].order
  <2>1. d \in DOMAIN orders
    BY <1>1
  <2>2. Held(n)' = Held(n) /\ (Dropped(n) => Dropped(n)')
    BY <1>5, <2>1 DEF Held, Dropped, Open
  <2>3. Held(n) => Frozen(d, n)
    BY DEF Held, Frozen
  <2>4. Dropped(n) => ~ConfigTarget(d, n)
    BY DEF Dropped, ConfigTarget, Open
  <2> QED
    BY <1>5, <2>1, <2>2, <2>3, <2>4
<1>12. Working'
  BY <1>11 DEF Story, Working
<1>13. SeenTruly'
  BY <1>11 DEF Story, SeenTruly
<1>14. ASSUME ~restored', NEW n \in Node, (Answered \/ Ordered(n))'
       PROVE  (Agreed(n) /\ Cared(n))'
  <2>1. jobs # {}
    BY <1>1 DEF Story, Headed
  <2>2. Answered' => later = {} /\ r = Latest
    <3>1. \E j \in jobs : j.rev = Latest
      BY <1>14, <2>1 DEF Story, Headed
    <3>2. Answered' => Latest \in worker.batch /\ later = {}
      BY <2>1, <3>1 DEF Answered
    <3> QED
      BY <1>1, <1>2, <3>2
  <2>3. Ordered(n)' => r = Latest /\ (Ordered(n) \/ (New # {} /\ n \in plan))
    <3>1. ASSUME NEW d \in DOMAIN orders', orders'[d].kind = "grants",
                 orders'[d].rev = Latest, n \in orders'[d].planned
          PROVE  r = Latest /\ (Ordered(n) \/ (New # {} /\ n \in plan))
      <4>1. CASE d \in New
        BY <1>6, <3>1, <4>1
      <4>2. CASE d \in DOMAIN orders
        BY <1>1, <1>3, <1>5, <1>9, <1>14, <3>1, <4>2 DEF Ordered
      <4> QED
        BY <4>1, <4>2
    <3> QED
      BY <1>4, <3>1 DEF Ordered
  <2>4. r = Latest
    BY <1>14, <2>2, <2>3
  <2>5. n \in plan => Ordered(n) \/ New # {}
    <3>1. ASSUME n \in plan, NEW d \in Existing(r, plan) PROVE Ordered(n)
      BY <2>4, <3>1 DEF Existing, Ordered
    <3> QED
      BY <3>1
  <2>6. Ordered(n) => Agreed(n) /\ Cared(n)
    BY <1>14 DEF Story, Provided
  <2>7. Ordered(n) \/ n \notin later
    BY <1>14, <2>2, <2>3
  <2>8. ASSUME NEW d \in DOMAIN orders, Unfinished(d, n)
        PROVE  Same(orders'[d].tgt[n].gr, Latest)
    <3>1. CASE Ordered(n)
      <4>1. Same(orders[d].tgt[n].gr, Latest)
        BY <2>6, <2>8, <3>1 DEF Agreed
      <4> QED
        BY <1>5, <2>4, <4>1 DEF Same
    <3>2. CASE n \notin later /\ orders[d].kind = "config"
      <4>1. ConfigTarget(d, n)
        BY <2>8, <3>2 DEF ConfigTarget, Unfinished
      <4>2. CASE Frozen(d, n)
        <5>1. Same(FrozenList(d, n), r)
          BY <3>2, <4>1, <4>2 DEF Deferred
        <5>2. FrozenList(d, n) = orders[d].tgt[n].gr
          BY DEF FrozenList, Story, Sealed
        <5> QED
          BY <1>5, <2>4, <4>2, <5>1, <5>2
      <4>3. CASE ~Frozen(d, n)
        BY <1>5, <2>4, <4>1, <4>3 DEF Same
      <4> QED
        BY <4>2, <4>3
    <3>3. CASE orders[d].kind = "grants"
      <4>1. d \in ActiveGrants
        BY <2>8, <3>3 DEF ActiveGrants, Unfinished
      <4>2. PICK e \in DOMAIN orders : orders[e].kind = "grants" /\ orders[e].rev = Latest
        BY <2>4, <4>1 DEF Existing
      <4>3. ~(d < e)
        BY <2>8, <3>3, <4>2 DEF Story, InTurn, Unfinished
      <4>4. d = e \/ e < d
        BY <1>1, <4>3
      <4>5. orders[d].rev = Latest \/ d = e
        BY <1>1, <1>14, <2>8, <3>3, <4>2, <4>4 DEF Story, InTurn, Unfinished
      <4>6. orders[d].rev = Latest
        BY <4>2, <4>5
      <4>7. n \in orders[d].planned
        BY <2>8, <3>3 DEF Story, InTurn, Unfinished
      <4>8. orders[d].tgt[n].gr = Latest
        BY <3>3, <4>6, <4>7 DEF Story, InTurn
      <4> QED
        BY <1>5, <2>4, <4>8 DEF Same
    <3>4. orders[d].kind \in {"config", "grants"}
      BY Types DEF OrderRow
    <3> QED
      BY <2>7, <3>1, <3>2, <3>3, <3>4
  <2>9. \A d \in DOMAIN orders : Unfinished(d, n)' = Unfinished(d, n)
    BY <1>5 DEF Unfinished
  <2>10. ASSUME NEW d \in DOMAIN orders', Unfinished(d, n)'
         PROVE  Same(orders'[d].tgt[n].gr, Latest)
    <3>1. CASE d \in DOMAIN orders
      BY <2>8, <2>9, <2>10, <3>1
    <3>2. CASE d \in New
      BY <1>6, <2>4, <2>10, <3>2 DEF Unfinished, Same
    <3> QED
      BY <3>1, <3>2
  <2>11. Agreed(n)'
    BY <1>4, <2>10 DEF Agreed
  <2>12. \A d \in DOMAIN orders' : Unfinished(d, n)' => Delivers(d, n)'
    BY <1>4, <2>10 DEF Unfinished, Delivers
  <2>13. Cared(n)'
    <3>1. CASE Ordered(n)
      <4>1. Cared(n)
        BY <2>6, <3>1
      <4>2. \A d \in DOMAIN orders : Delivers(d, n) => Delivers(d, n)'
        BY <2>9, <2>12 DEF Delivers, Unfinished
      <4> QED
        BY <1>4, <4>1, <4>2 DEF Cared
    <3>2. CASE n \in plan /\ New # {}
      <4>1. PICK d \in New : TRUE
        BY <3>2
      <4>2. Unfinished(d, n)'
        BY <1>6, <3>2 DEF Unfinished
      <4> QED
        BY <2>12, <4>2 DEF Cared
    <3>3. CASE n \notin plan /\ n \notin later /\ machine[n].clean
      <4>1. machine[n].seen # Unsure /\ Same(machine[n].seen, Latest)
        BY <2>4, <3>3 DEF Differing
      <4>2. agent[n].pc # "idle" => Held(n) \/ Dropped(n)
        BY DEF Story, Working
      <4>3. ASSUME agent[n].pc # "idle", Held(n) PROVE Unfinished(agent[n].order, n)'
        BY <1>1, <2>9, <4>3 DEF Held, Unfinished
      <4>4. CASE agent[n].pc \in {"applied", "dirty"} /\ Held(n)
        BY <1>1, <2>12, <4>3, <4>4 DEF Cared
      <4>5. CASE machine[n].list = machine[n].seen
        <5>1. ASSUME agent[n].pc = "work" PROVE Same(agent[n].list, Latest)
          <6>1. Held(n)
            BY <4>1, <4>2, <5>1 DEF Dropped
          <6>2. orders'[agent[n].order].tgt[n].gr = agent[n].list
            BY <1>11, <5>1, <6>1 DEF Story, Working
          <6> QED
            BY <1>1, <2>10, <4>3, <5>1, <6>1, <6>2
        <5> QED
          BY <1>4, <4>1, <4>5, <5>1 DEF Cared
      <4> QED
        BY <4>1, <4>4, <4>5 DEF Story, SeenTruly
    <3>4. CASE ~machine[n].clean
      BY <3>4 DEF Cared
    <3> QED
      BY <2>5, <2>7, <3>1, <3>2, <3>3, <3>4
  <2> QED
    BY <2>11, <2>13
<1> QED
  BY <1>7, <1>8, <1>10, <1>12, <1>13, <1>14 DEF Story, Provided

LEMMA CreateStory ==
    ASSUME IInv, Story, CreateGrantsOrder
    PROVE  Story'
<1>0. PICK r : r = Revision
  OBVIOUS
<1>1. PICK later : later = Deferred(r)
  OBVIOUS
<1>2. PICK plan : plan = Differing(r) \ later
  OBVIOUS
<1>3. PICK new : new = Len(orders) + 1
  OBVIOUS
<1>4. PICK verdict : verdict = IF later = {} THEN "finish" ELSE "wait"
  OBVIOUS
<1>5. /\ worker.pc = "plan" /\ UNCHANGED <<modelVars, jobs, machine, agent, served, edits>>
      /\ \/ /\ Existing(r, plan) # {}
            /\ \E d \in Existing(r, plan) : Settling(d, verdict)
            /\ orders' = Rebased(r)
         \/ /\ Settling(0, "wait")
            /\ orders' = orders
         \/ /\ ActiveGrants = {} /\ plan = {}
            /\ Settling(0, verdict)
            /\ orders' = Rebased(r)
         \/ /\ ActiveGrants = {} /\ Existing(r, plan) = {}
            /\ Settling(new, verdict)
            /\ orders' = Append(Rebased(r), GrantsOrder(r, plan))
  BY <1>0, <1>1, <1>2, <1>3, <1>4 DEF CreateGrantsOrder
<1>6. UNCHANGED <<perm, withdrawn, restored, jobs, machine, agent>>
  BY <1>5 DEF modelVars
<1>7. ASSUME NEW d, NEW v, Settling(d, v)
      PROVE  worker'.pc = "settle" /\ worker'.batch = worker.batch /\ worker'.verdict = v
  BY <1>7 DEF Settling, IInv, Rest, WorkerOK
<1>8. verdict = "finish" => later = {}
  BY <1>4
<1>9. CASE orders' = orders /\ Settling(0, "wait")
  <2>1. worker'.pc = "settle" /\ worker'.batch = worker.batch /\ worker'.verdict = "wait"
    BY <1>7, <1>9
  <2>2. Headed'
    BY <1>5, <1>6, <2>1 DEF Story, Headed, Latest
  <2>3. Sealed'
    BY <1>9 DEF Story, Sealed
  <2>4. InTurn'
    BY <1>6, <1>9, <2>1 DEF Story, InTurn, Open, Latest
  <2>5. Answered' => Answered
    BY <1>6, <2>1 DEF Answered
  <2> QED
    BY <1>6, <1>9, <2>2, <2>3, <2>4, <2>5, QueueStory, Types
<1>10. CASE /\ orders' = Rebased(r)
            /\ \E d : Settling(d, verdict)
            /\ Existing(r, plan) # {} \/ (ActiveGrants = {} /\ plan = {})
  <2>1. worker'.pc = "settle" /\ worker'.batch = worker.batch
        /\ (worker'.verdict = "finish" => later = {})
    BY <1>7, <1>8, <1>10
  <2>2. PICK New : New = {}
    OBVIOUS
  <2>3. DOMAIN orders' = DOMAIN orders \cup New
    BY <1>10, <2>2, RebasedRows
  <2>4. /\ \A d \in New : \A e \in DOMAIN orders : e < d /\ d \notin DOMAIN orders
        /\ \A d, e \in New : d \in Nat /\ d = e
        /\ \A d \in New : orders'[d] = GrantsOrder(r, plan)
        /\ New # {} => ActiveGrants = {}
    BY <2>2
  <2>5. /\ worker.pc = "plan"
        /\ plan # {} => New # {} \/ Existing(r, plan) # {}
        /\ ActiveGrants = {} \/ Existing(r, plan) # {}
        /\ \A d \in DOMAIN orders : orders'[d] = Rebased(r)[d]
    BY <1>5, <1>10
  <2>6. CASE Existing(r, plan) # {}
    BY <1>0, <1>1, <1>2, <1>6, <2>1, <2>3, <2>4, <2>5, <2>6, RebaseStory
  <2>7. CASE ActiveGrants = {} /\ plan = {}
    BY <1>0, <1>1, <1>2, <1>6, <2>1, <2>3, <2>4, <2>5, <2>7, RebaseStory
  <2> QED
    BY <1>10, <2>6, <2>7
<1>11. CASE /\ ActiveGrants = {} /\ Existing(r, plan) = {}
            /\ Settling(new, verdict)
            /\ orders' = Append(Rebased(r), GrantsOrder(r, plan))
  <2>1. worker'.pc = "settle" /\ worker'.batch = worker.batch
        /\ (worker'.verdict = "finish" => later = {})
    BY <1>7, <1>8, <1>11
  <2>2. r \in DOMAIN perm
    BY <1>0, <1>5, RevisionIn
  <2>3. Rebased(r) \in Seq(OrderRow) /\ Len(Rebased(r)) = Len(orders)
        /\ Len(orders) \in Nat /\ DOMAIN Rebased(r) = DOMAIN orders
        /\ DOMAIN orders = 1 .. Len(orders)
    BY <2>2, RebasedKeeps, Types DEF IInv, Rest, ModelOK, Table
  <2>4. /\ DOMAIN orders' = DOMAIN orders \cup {new}
        /\ \A d \in DOMAIN orders : orders'[d] = Rebased(r)[d]
        /\ orders'[new] = GrantsOrder(r, plan)
    <3> HIDE DEF GrantsOrder
    <3> QED
      BY <1>3, <1>11, <2>3
  <2>5. new \in Nat /\ new \notin DOMAIN orders /\ \A e \in DOMAIN orders : e < new
    BY <1>3, <2>3
  <2>6. \A d, e \in {new} : d \in Nat /\ d = e
    BY <2>5
  <2>7. \A d \in {new} : \A e \in DOMAIN orders : e < d /\ d \notin DOMAIN orders
    BY <2>5
  <2>8. \A d \in {new} : orders'[d] = GrantsOrder(r, plan)
    BY <2>4
  <2>9. {new} # {}
    OBVIOUS
  <2>10. PICK New : New = {new}
    OBVIOUS
  <2>11. /\ DOMAIN orders' = DOMAIN orders \cup New /\ New # {}
         /\ \A d \in New : \A e \in DOMAIN orders : e < d /\ d \notin DOMAIN orders
         /\ \A d, e \in New : d \in Nat /\ d = e
         /\ \A d \in New : orders'[d] = GrantsOrder(r, plan)
    BY <2>4, <2>6, <2>7, <2>8, <2>9, <2>10
  <2>12. /\ worker.pc = "plan" /\ ActiveGrants = {}
         /\ plan # {} => New # {} \/ Existing(r, plan) # {}
         /\ ActiveGrants = {} \/ Existing(r, plan) # {}
         /\ New # {} => ActiveGrants = {}
         /\ \A d \in DOMAIN orders : orders'[d] = Rebased(r)[d]
    BY <1>5, <1>11, <2>4, <2>11
  <2> QED
    BY <1>0, <1>1, <1>2, <1>6, <2>1, <2>11, <2>12, RebaseStory
<1> QED
  BY <1>5, <1>9, <1>10, <1>11

----------------------------------------------------------------------------
(* Operators and orders.                                                   *)

\* Closing an order and what happens to its targets does not disturb the turn.
LEMMA TurnKept ==
    ASSUME InTurn, UNCHANGED <<worker, perm, restored>>,
           DOMAIN orders' = DOMAIN orders,
           \A d \in DOMAIN orders :
               /\ orders'[d].kind = orders[d].kind /\ orders'[d].rev = orders[d].rev
               /\ orders'[d].planned = orders[d].planned
               /\ Open(d)' => Open(d)
               /\ \A n \in Node :
                     /\ orders'[d].tgt[n].gr = orders[d].tgt[n].gr
                     /\ orders[d].tgt[n].st = "none" => orders'[d].tgt[n].st = "none"
    PROVE  InTurn'
<1>1. Revision' = Revision /\ Latest' = Latest
  BY DEF Revision, Newest, Latest
<1>2. \A d \in DOMAIN orders' : orders'[d].kind = "grants" =>
          \A n \in Node :
              IF n \in orders'[d].planned THEN orders'[d].tgt[n].gr = orders'[d].rev
              ELSE orders'[d].tgt[n].st = "none"
  BY DEF InTurn
<1>3. \A d, e \in DOMAIN orders' :
          orders'[d].kind = "grants" /\ orders'[e].kind = "grants" /\ d < e =>
              /\ ~Open(d)'
              /\ ~restored' /\ orders'[d].rev = Latest' => orders'[e].rev = Latest'
  BY <1>1 DEF InTurn
<1>4. worker'.pc = "plan" /\ ~restored' =>
          \A d \in DOMAIN orders' :
              orders'[d].kind = "grants" /\ orders'[d].rev = Latest' => Revision' = Latest'
  BY <1>1 DEF InTurn
<1> QED
  BY <1>2, <1>3, <1>4 DEF InTurn

LEMMA CancelStory ==
    ASSUME IInv, Story, NEW d \in DOMAIN orders, CancelOrder(d)
    PROVE  Story'
<1>1. /\ Open(d)
      /\ orders' = [orders EXCEPT ![d].status = "canceled", ![d].tgt = Canceled(orders[d].tgt)]
      /\ withdrawn' = withdrawn \cup {n \in Node : Delivers(d, n)}
      /\ UNCHANGED <<perm, restored, jobs, worker, agent>>
  BY DEF CancelOrder
<1>2. /\ \A n \in Node : agent[n].pc # "idle" => agent[n].order \in DOMAIN orders
      /\ orders[d] \in OrderRow /\ orders[d].tgt \in [Node -> Targets]
  BY Types
<1>3. /\ DOMAIN orders' = DOMAIN orders
      /\ \A e \in DOMAIN orders : e # d => orders'[e] = orders[e]
      /\ orders'[d] = [orders[d] EXCEPT !.status = "canceled", !.tgt = Canceled(orders[d].tgt)]
  BY <1>1
<1>4. \A n \in Node :
         /\ Canceled(orders[d].tgt)[n].st =
               IF orders[d].tgt[n].st \in {"pending", "dispatched"} THEN "canceled"
               ELSE orders[d].tgt[n].st
         /\ Canceled(orders[d].tgt)[n].gr = orders[d].tgt[n].gr
         /\ Canceled(orders[d].tgt)[n].fz = Null
  BY <1>2 DEF Canceled, Targets
<1>5. /\ orders'[d].kind = orders[d].kind /\ orders'[d].rev = orders[d].rev
      /\ orders'[d].planned = orders[d].planned /\ orders'[d].status = "canceled"
      /\ orders'[d].tgt = Canceled(orders[d].tgt)
  BY <1>2, <1>3 DEF OrderRow
<1>6. \A n \in Node :
         IF orders[d].tgt[n].st # "dispatched" THEN machine'[n] = machine[n]
         ELSE /\ machine'[n].list = machine[n].list /\ machine'[n].seen = Unsure
              /\ machine'[n].clean = (machine[n].clean /\ orders[d].kind = "grants")
  BY DEF CancelOrder, IInv, Rest, MachineOK
<1>7. \A n \in Node :
         /\ machine'[n].list = machine[n].list
         /\ machine'[n].seen # Unsure =>
               machine'[n].seen = machine[n].seen /\ orders[d].tgt[n].st # "dispatched"
         /\ machine[n].seen = Unsure => machine'[n].seen = Unsure
         /\ machine'[n].clean => machine[n].clean
  BY <1>6
<1>8. \A e \in DOMAIN orders :
         /\ orders'[e].kind = orders[e].kind /\ orders'[e].rev = orders[e].rev
         /\ orders'[e].planned = orders[e].planned
         /\ Open(e)' => Open(e) /\ e # d
         /\ \A n \in Node : /\ orders'[e].tgt[n].gr = orders[e].tgt[n].gr
                            /\ orders[e].tgt[n].st = "none" => orders'[e].tgt[n].st = "none"
  <2> SUFFICES ASSUME NEW e \in DOMAIN orders
               PROVE  /\ orders'[e].kind = orders[e].kind /\ orders'[e].rev = orders[e].rev
                      /\ orders'[e].planned = orders[e].planned
                      /\ Open(e)' => Open(e) /\ e # d
                      /\ \A n \in Node :
                            /\ orders'[e].tgt[n].gr = orders[e].tgt[n].gr
                            /\ orders[e].tgt[n].st = "none" => orders'[e].tgt[n].st = "none"
    OBVIOUS
  <2>1. CASE e = d
    <3>1. ~Open(e)'
      BY <1>5, <2>1 DEF Open
    <3> QED
      BY <1>4, <1>5, <2>1, <3>1
  <2>2. CASE e # d
    <3>1. orders'[e] = orders[e] /\ Open(e)' = Open(e)
      BY <1>3, <2>2 DEF Open
    <3> QED
      BY <2>2, <3>1
  <2> QED
    BY <2>1, <2>2
<1>9. Latest' = Latest /\ \A a, b : Same(a, b)' = Same(a, b)
  BY <1>1 DEF Latest, Same
<1>10. Headed'
  BY <1>1 DEF Story, Headed, Latest
<1>11. Sealed'
  <2>1. ASSUME NEW e \in DOMAIN orders, NEW n \in Node
        PROVE  orders'[e].tgt[n].fz =
                  IF orders'[e].tgt[n].st = "dispatched" THEN orders'[e].tgt[n].gr ELSE Null
    <3>1. CASE e = d
      BY <1>4, <1>5, <3>1
    <3>2. CASE e # d
      BY <1>3, <3>2 DEF Story, Sealed
    <3> QED
      BY <3>1, <3>2
  <2> QED
    BY <1>3, <2>1 DEF Sealed
<1>12. InTurn'
  BY <1>1, <1>3, <1>8, TurnKept DEF Story
<1>13. ASSUME NEW n \in Node, agent[n].pc # "idle"
       PROVE  /\ agent[n].order # d => Held(n)' = Held(n) /\ (Dropped(n) => Dropped(n)')
              /\ agent[n].order = d => orders[d].tgt[n].st = "dispatched" /\ Dropped(n)'
              /\ Held(n)' \/ Dropped(n)'
  <2>1. CASE agent[n].order # d
    <3>1. Held(n)' = Held(n)
      BY <1>1, <1>2, <1>3, <1>13, <2>1 DEF Held, Open
    <3>2. Dropped(n) => Dropped(n)'
      BY <1>1, <1>2, <1>3, <1>7, <1>13, <2>1 DEF Dropped
    <3> QED
      BY <1>13, <2>1, <3>1, <3>2 DEF Story, Working
  <2>2. CASE agent[n].order = d
    <3>1. Held(n)
      BY <1>1, <1>13, <2>2 DEF Story, Working, Dropped, Open
    <3>2. orders[d].tgt[n].st = "dispatched"
      BY <2>2, <3>1 DEF Held
    <3>3. Dropped(n)'
      BY <1>1, <1>5, <1>6, <2>2, <3>2 DEF Dropped
    <3> QED
      BY <2>2, <3>2, <3>3
  <2> QED
    BY <2>1, <2>2
<1>14. Working'
  BY <1>1, <1>2, <1>7, <1>8, <1>13 DEF Story, Working
<1>15. SeenTruly'
  <2>1. ASSUME NEW n \in Node, machine'[n].seen # Unsure
        PROVE  \/ machine'[n].list = machine'[n].seen
               \/ agent'[n].pc \in {"applied", "dirty"} /\ Held(n)'
    <3>1. machine[n].seen # Unsure /\ machine'[n].seen = machine[n].seen
          /\ orders[d].tgt[n].st # "dispatched"
      BY <1>7, <2>1
    <3>2. CASE machine[n].list = machine[n].seen
      BY <1>7, <3>1, <3>2
    <3>3. CASE agent[n].pc \in {"applied", "dirty"} /\ Held(n)
      BY <1>1, <1>13, <3>1, <3>3
    <3> QED
      BY <3>1, <3>2, <3>3 DEF Story, SeenTruly
  <2> QED
    BY <2>1 DEF SeenTruly
<1>16. ASSUME ~restored', NEW n \in Node, (Answered \/ Ordered(n))'
       PROVE  (Agreed(n) /\ Cared(n))'
  <2>1. Answered \/ Ordered(n)
    BY <1>1, <1>3, <1>8, <1>9, <1>16 DEF Answered, Ordered
  <2>2. Agreed(n) /\ Cared(n)
    BY <1>1, <1>16, <2>1 DEF Story, Provided
  <2>3. ASSUME NEW e \in DOMAIN orders, Unfinished(e, n)' PROVE Unfinished(e, n)
    BY <1>3, <1>8, <2>3 DEF Unfinished
  <2>4. Agreed(n)'
    BY <1>3, <1>8, <1>9, <2>2, <2>3 DEF Agreed
  <2>5. ASSUME NEW e \in DOMAIN orders, Delivers(e, n) PROVE Delivers(e, n)' \/ n \in withdrawn'
    <3>1. CASE e = d
      BY <1>1, <2>5, <3>1
    <3>2. CASE e # d
      BY <1>3, <1>9, <2>5, <3>2 DEF Delivers, Open
    <3> QED
      BY <3>1, <3>2
  <2>6. Cared(n)'
    BY <1>1, <1>3, <1>7, <1>9, <2>2, <2>5 DEF Cared
  <2> QED
    BY <2>4, <2>6
<1> QED
  BY <1>10, <1>11, <1>12, <1>14, <1>15, <1>16 DEF Story, Provided

\* A target is handed out, again or for the first time: it stays unfinished,
\* with the list it has, and whoever takes it up holds that list.
LEMMA HandedStory ==
    ASSUME IInv, Story, UNCHANGED <<perm, withdrawn, restored, jobs, worker, machine>>,
           Sealed', DOMAIN orders' = DOMAIN orders,
           \A d \in DOMAIN orders :
               /\ orders'[d].kind = orders[d].kind /\ orders'[d].rev = orders[d].rev
               /\ orders'[d].planned = orders[d].planned
               /\ Open(d)' = Open(d)
               /\ orders[d].status = "canceled" => orders'[d].status = "canceled"
               /\ \A n \in Node :
                     /\ orders'[d].tgt[n].gr = orders[d].tgt[n].gr
                     /\ orders[d].tgt[n].st = "none" => orders'[d].tgt[n].st = "none"
                     /\ orders[d].tgt[n].st = "dispatched" => orders'[d].tgt[n].st = "dispatched"
                     /\ Unfinished(d, n)' = Unfinished(d, n),
           \A n \in Node :
               \/ agent'[n] = agent[n]
               \/ /\ agent[n].pc = "idle" /\ agent'[n].pc = "work"
                  /\ agent'[n].order \in DOMAIN orders /\ Held(n)'
                  /\ orders'[agent'[n].order].tgt[n].gr = agent'[n].list
    PROVE  Story'
<1>1. \A n \in Node : agent[n].pc # "idle" => agent[n].order \in DOMAIN orders
  BY Types
<1>2. Latest' = Latest /\ \A a, b : Same(a, b)' = Same(a, b)
  BY DEF Latest, Same
<1>3. Headed'
  BY <1>2 DEF Story, Headed
<1>4. InTurn'
  BY TurnKept DEF Story
<1>5. ASSUME NEW n \in Node, agent'[n] = agent[n], agent[n].pc # "idle"
      PROVE  (Held(n) => Held(n)') /\ (Dropped(n) => Dropped(n)')
  BY <1>1, <1>5 DEF Held, Dropped
<1>6. Working'
  <2>1. ASSUME NEW n \in Node, agent'[n].pc # "idle"
        PROVE  /\ orders'[agent'[n].order].tgt[n].gr = agent'[n].list
               /\ Held(n)' \/ Dropped(n)'
               /\ agent'[n].pc = "applied" => machine'[n].list = agent'[n].list
    <3>1. CASE agent'[n] = agent[n]
      BY <1>1, <1>5, <2>1, <3>1 DEF Story, Working
    <3>2. CASE agent'[n] # agent[n]
      BY <2>1, <3>2
    <3> QED
      BY <3>1, <3>2
  <2> QED
    BY <2>1 DEF Working
<1>7. SeenTruly'
  <2>1. ASSUME NEW n \in Node, machine'[n].seen # Unsure
        PROVE  \/ machine'[n].list = machine'[n].seen
               \/ agent'[n].pc \in {"applied", "dirty"} /\ Held(n)'
    <3>1. CASE agent'[n] = agent[n]
      BY <1>5, <2>1, <3>1 DEF Story, SeenTruly
    <3>2. CASE agent[n].pc = "idle"
      BY <2>1, <3>2 DEF Story, SeenTruly
    <3> QED
      BY <3>1, <3>2
  <2> QED
    BY <2>1 DEF SeenTruly
<1>8. ASSUME ~restored', NEW n \in Node, (Answered \/ Ordered(n))'
      PROVE  (Agreed(n) /\ Cared(n))'
  <2>1. Answered \/ Ordered(n)
    BY <1>2, <1>8 DEF Answered, Ordered
  <2>2. Agreed(n) /\ Cared(n)
    BY <1>8, <2>1 DEF Story, Provided
  <2>3. Agreed(n)'
    BY <1>2, <2>2 DEF Agreed
  <2>4. ASSUME NEW d \in DOMAIN orders, Delivers(d, n) PROVE Delivers(d, n)'
    <3>1. Unfinished(d, n)'
      BY <2>4 DEF Delivers, Unfinished
    <3> QED
      BY <1>2, <2>4, <3>1 DEF Delivers, Unfinished
  <2>5. Cared(n)'
    <3>1. CASE agent'[n] = agent[n]
      BY <1>2, <2>2, <2>4, <3>1 DEF Cared
    <3>2. CASE Held(n)' /\ agent'[n].order \in DOMAIN orders
      <4>1. Unfinished(agent'[n].order, n)
        BY <3>2 DEF Held, Unfinished
      <4>2. Delivers(agent'[n].order, n)
        BY <2>2, <3>2, <4>1 DEF Agreed, Delivers, Unfinished
      <4> QED
        BY <2>4, <3>2, <4>2 DEF Cared
    <3> QED
      BY <3>1, <3>2
  <2> QED
    BY <2>3, <2>5
<1> QED
  BY <1>3, <1>4, <1>6, <1>7, <1>8 DEF Story, Provided

LEMMA RetryStory ==
    ASSUME IInv, Story, NEW d \in DOMAIN orders, NEW n \in Node, RetryTarget(d, n)
    PROVE  Story'
<1>1. /\ orders[d].status = "halted" /\ orders[d].tgt[n].st = "failed"
      /\ orders' = [orders EXCEPT ![d] = Retried(orders[d], n)]
      /\ UNCHANGED <<perm, withdrawn, restored, jobs, worker, machine, agent>>
  BY DEF RetryTarget, modelVars
<1>2. orders[d] \in OrderRow /\ orders[d].tgt \in [Node -> Targets]
  BY Types
<1>3. /\ DOMAIN orders' = DOMAIN orders
      /\ \A e \in DOMAIN orders : e # d => orders'[e] = orders[e]
      /\ orders'[d] = Retried(orders[d], n)
  BY <1>1
<1>4. PICK o : o = Retried(orders[d], n)
  OBVIOUS
<1>5. /\ o.kind = orders[d].kind /\ o.rev = orders[d].rev /\ o.planned = orders[d].planned
      /\ o.status = "running"
      /\ \A m \in Node : m # n => o.tgt[m] = orders[d].tgt[m]
      /\ o.tgt[n].st = "pending" /\ o.tgt[n].gr = orders[d].tgt[n].gr /\ o.tgt[n].fz = Null
  BY <1>2, <1>4 DEF Retried, OrderRow, Targets
<1>6. orders'[d] = o
  BY <1>3, <1>4
<1>7. \A e \in DOMAIN orders :
               /\ orders'[e].kind = orders[e].kind /\ orders'[e].rev = orders[e].rev
               /\ orders'[e].planned = orders[e].planned
               /\ Open(e)' = Open(e)
               /\ orders[e].status = "canceled" => orders'[e].status = "canceled"
  BY <1>1, <1>3, <1>5, <1>6 DEF Open
<1>8. ASSUME NEW e \in DOMAIN orders, NEW m \in Node
      PROVE  /\ orders'[e].tgt[m].gr = orders[e].tgt[m].gr
             /\ orders[e].tgt[m].st = "none" => orders'[e].tgt[m].st = "none"
             /\ orders[e].tgt[m].st = "dispatched" => orders'[e].tgt[m].st = "dispatched"
             /\ Unfinished(e, m)' = Unfinished(e, m)
             /\ orders'[e].tgt[m].fz =
                   IF orders'[e].tgt[m].st = "dispatched" THEN orders'[e].tgt[m].gr ELSE Null
  <2>1. CASE e = d /\ m = n
    BY <1>1, <1>5, <1>6, <1>7, <2>1 DEF Unfinished
  <2>2. CASE e # d \/ m # n
    <3>1. orders'[e].tgt[m] = orders[e].tgt[m]
      BY <1>3, <1>5, <1>6, <2>2
    <3> QED
      BY <1>7, <3>1 DEF Unfinished, Story, Sealed
  <2> QED
    BY <2>1, <2>2
<1>9. Sealed'
  BY <1>3, <1>8 DEF Sealed
<1> QED
  BY <1>1, <1>3, <1>7, <1>8, <1>9, HandedStory

LEMMA ClaimStory ==
    ASSUME IInv, Story, NEW n \in Node, NEW lost \in BOOLEAN, Claim(n, lost)
    PROVE  Story'
<1>1. agent[n].pc = "idle" /\ UNCHANGED <<perm, withdrawn, restored, jobs, worker, machine>>
  BY DEF Claim, modelVars
<1>2. PICK d \in Offers(n) :
         LET t    == orders[d].tgt[n]
             list == IF t.st = "pending" THEN t.gr ELSE t.fz
         IN  /\ orders' = [orders EXCEPT ![d] = HandedOut(orders[d], n, list)]
             /\ agent' = IF lost THEN agent
                         ELSE [agent EXCEPT ![n] = [pc |-> "work", order |-> d, list |-> list]]
  BY DEF Claim
<1>3. /\ d \in DOMAIN orders /\ orders[d].status \in {"planned", "running"}
      /\ orders[d].tgt[n].st \in {"pending", "dispatched"}
  BY DEF Offers
<1>4. PICK list : list = IF orders[d].tgt[n].st = "pending" THEN orders[d].tgt[n].gr
                         ELSE orders[d].tgt[n].fz
  OBVIOUS
<1>5. list = orders[d].tgt[n].gr
  BY <1>3, <1>4 DEF Story, Sealed
<1>6. orders[d] \in OrderRow /\ orders[d].tgt \in [Node -> Targets]
  BY <1>3, Types
<1>7. PICK o : o = HandedOut(orders[d], n, list)
  OBVIOUS
<1>8. /\ DOMAIN orders' = DOMAIN orders
      /\ \A e \in DOMAIN orders : e # d => orders'[e] = orders[e]
      /\ orders'[d] = o
  BY <1>2, <1>3, <1>4, <1>7
<1>9. /\ o.kind = orders[d].kind /\ o.rev = orders[d].rev /\ o.planned = orders[d].planned
      /\ o.status = "running"
      /\ \A m \in Node : m # n => o.tgt[m] = orders[d].tgt[m]
      /\ o.tgt[n].st = "dispatched" /\ o.tgt[n].gr = list /\ o.tgt[n].fz = list
  BY <1>5, <1>6, <1>7 DEF HandedOut, OrderRow, Targets
<1>10. \A e \in DOMAIN orders :
               /\ orders'[e].kind = orders[e].kind /\ orders'[e].rev = orders[e].rev
               /\ orders'[e].planned = orders[e].planned
               /\ Open(e)' = Open(e)
               /\ orders[e].status = "canceled" => orders'[e].status = "canceled"
  BY <1>3, <1>8, <1>9 DEF Open
<1>11. ASSUME NEW e \in DOMAIN orders, NEW m \in Node
       PROVE  /\ orders'[e].tgt[m].gr = orders[e].tgt[m].gr
              /\ orders[e].tgt[m].st = "none" => orders'[e].tgt[m].st = "none"
              /\ orders[e].tgt[m].st = "dispatched" => orders'[e].tgt[m].st = "dispatched"
              /\ Unfinished(e, m)' = Unfinished(e, m)
              /\ orders'[e].tgt[m].fz =
                    IF orders'[e].tgt[m].st = "dispatched" THEN orders'[e].tgt[m].gr ELSE Null
  <2>1. CASE e = d /\ m = n
    BY <1>3, <1>5, <1>8, <1>9, <1>10, <2>1 DEF Unfinished
  <2>2. CASE e # d \/ m # n
    <3>1. orders'[e].tgt[m] = orders[e].tgt[m]
      BY <1>8, <1>9, <2>2
    <3> QED
      BY <1>10, <3>1 DEF Unfinished, Story, Sealed
  <2> QED
    BY <2>1, <2>2
<1>12. Sealed'
  BY <1>8, <1>11 DEF Sealed
<1>13. ASSUME NEW m \in Node
       PROVE  \/ agent'[m] = agent[m]
              \/ /\ agent[m].pc = "idle" /\ agent'[m].pc = "work"
                 /\ agent'[m].order \in DOMAIN orders /\ Held(m)'
                 /\ orders'[agent'[m].order].tgt[m].gr = agent'[m].list
  <2>1. CASE lost
    BY <1>2, <2>1
  <2>2. CASE ~lost
    <3>1. agent' = [agent EXCEPT ![n] = [pc |-> "work", order |-> d, list |-> list]]
      BY <1>2, <1>4, <2>2
    <3>2. CASE m # n
      BY <3>1, <3>2
    <3>3. CASE m = n
      <4>1. agent'[m].pc = "work" /\ agent'[m].order = d /\ agent'[m].list = list
        BY <3>1, <3>3 DEF IInv, Rest, AgentOK
      <4>2. Held(m)'
        BY <1>8, <1>9, <3>3, <4>1 DEF Held, Open
      <4> QED
        BY <1>1, <1>3, <1>8, <1>9, <3>3, <4>1, <4>2
    <3> QED
      BY <3>2, <3>3
  <2> QED
    BY <2>1, <2>2
<1> QED
  BY <1>1, <1>8, <1>10, <1>11, <1>12, <1>13, HandedStory

LEMMA WorkStory ==
    ASSUME IInv, Story, NEW n \in Node, Execute(n) \/ Fail(n)
    PROVE  Story'
<1>1. /\ agent[n].pc = "work"
      /\ UNCHANGED <<perm, withdrawn, restored, jobs, worker, orders>>
  BY DEF Execute, Fail, modelVars
<1>2. /\ \A m \in Node : m # n => agent'[m] = agent[m] /\ machine'[m] = machine[m]
      /\ agent'[n].order = agent[n].order /\ agent'[n].list = agent[n].list
      /\ agent'[n].pc \in {"applied", "recovered", "dirty"}
      /\ agent'[n].pc = "applied" => machine'[n].list = agent[n].list
      /\ \/ machine'[n].list = machine[n].list
         \/ /\ machine'[n].list = agent[n].list
            /\ agent'[n].pc \in {"applied", "dirty"}
      /\ machine'[n].seen = machine[n].seen /\ machine'[n].clean = machine[n].clean
  <2>1. /\ agent \in [Node -> [pc : {"idle", "work", "applied", "recovered", "dirty"},
                               order : Nat, list : Nat]]
        /\ machine \in [Node -> [list : DOMAIN perm, seen : (DOMAIN perm) \cup {Unsure},
                                 clean : BOOLEAN]]
    BY DEF IInv, Rest, AgentOK, MachineOK
  <2>2. CASE Execute(n)
    BY <2>1, <2>2 DEF Execute
  <2>3. CASE Fail(n)
    BY <2>1, <2>3 DEF Fail
  <2> QED
    BY <2>2, <2>3
<1>3. \A m \in Node : agent[m].pc # "idle" => agent[m].order \in DOMAIN orders
  BY Types
<1>4. Latest' = Latest /\ \A a, b : Same(a, b)' = Same(a, b)
  BY <1>1 DEF Latest, Same
<1>5. Headed' /\ Sealed' /\ InTurn'
  BY <1>1, <1>4 DEF Story, Headed, Sealed, InTurn, Revision, Newest, Open
<1>6. ASSUME NEW m \in Node PROVE Held(m)' = Held(m) /\ Dropped(m)' = Dropped(m)
  BY <1>1, <1>2 DEF Held, Dropped, Open
<1>7. Held(n) \/ Dropped(n)
  BY <1>1 DEF Story, Working
<1>8. Working'
  <2>1. ASSUME NEW m \in Node, agent'[m].pc # "idle"
        PROVE  /\ orders'[agent'[m].order].tgt[m].gr = agent'[m].list
               /\ Held(m)' \/ Dropped(m)'
               /\ agent'[m].pc = "applied" => machine'[m].list = agent'[m].list
    <3>1. agent[m].pc # "idle" /\ agent'[m].order = agent[m].order
          /\ agent'[m].list = agent[m].list
      BY <1>1, <1>2, <2>1
    <3>2. agent'[m].pc = "applied" => machine'[m].list = agent'[m].list
      BY <1>2 DEF Story, Working
    <3> QED
      BY <1>1, <1>6, <3>1, <3>2 DEF Story, Working
  <2> QED
    BY <2>1 DEF Working
<1>9. SeenTruly'
  <2>1. ASSUME NEW m \in Node, machine'[m].seen # Unsure
        PROVE  \/ machine'[m].list = machine'[m].seen
               \/ agent'[m].pc \in {"applied", "dirty"} /\ Held(m)'
    <3>1. CASE m = n
      <4>1. machine[n].list = machine[n].seen /\ Held(n)
        BY <1>1, <1>2, <1>7, <2>1, <3>1 DEF Story, SeenTruly, Dropped
      <4> QED
        BY <1>2, <1>6, <3>1, <4>1
    <3>2. CASE m # n
      BY <1>2, <1>6, <2>1, <3>2 DEF Story, SeenTruly
    <3> QED
      BY <3>1, <3>2
  <2> QED
    BY <2>1 DEF SeenTruly
<1>10. ASSUME ~restored', NEW m \in Node, (Answered \/ Ordered(m))'
       PROVE  (Agreed(m) /\ Cared(m))'
  <2>1. Answered \/ Ordered(m)
    BY <1>1, <1>4, <1>10 DEF Answered, Ordered
  <2>2. Agreed(m) /\ Cared(m)
    BY <1>1, <1>10, <2>1 DEF Story, Provided
  <2>3. \A d \in DOMAIN orders : Unfinished(d, m)' = Unfinished(d, m)
                                 /\ Delivers(d, m)' = Delivers(d, m)
    BY <1>1, <1>4 DEF Unfinished, Delivers, Open
  <2>4. Agreed(m)'
    BY <1>1, <1>4, <2>2, <2>3 DEF Agreed
  <2>5. Cared(m)'
    <3>1. CASE ~machine[m].clean \/ m \in withdrawn \/ \E d \in DOMAIN orders : Delivers(d, m)
      BY <1>1, <1>2, <2>3, <3>1 DEF Cared
    <3>2. CASE /\ Same(machine[m].list, Latest)
               /\ agent[m].pc = "work" => Same(agent[m].list, Latest)
      <4>1. CASE m = n
        BY <1>1, <1>2, <1>4, <3>2, <4>1 DEF Cared
      <4>2. CASE m # n
        BY <1>2, <1>4, <3>2, <4>2 DEF Cared
      <4> QED
        BY <4>1, <4>2
    <3> QED
      BY <2>2, <3>1, <3>2 DEF Cared
  <2> QED
    BY <2>4, <2>5
<1> QED
  BY <1>5, <1>8, <1>9, <1>10 DEF Story, Provided

\* What a report makes of an order: only machine n's target changes, and the
\* order is closed only when no other machine has work left in it.
LEMMA RefreshedRow ==
    ASSUME IInv, NEW d \in DOMAIN orders, NEW n \in Node, NEW st \in {"succeeded", "failed"},
           Open(d), NEW o, o = Refreshed(d, n, st)
    PROVE  /\ o.kind = orders[d].kind /\ o.rev = orders[d].rev /\ o.planned = orders[d].planned
           /\ \A m \in Node : m # n => o.tgt[m] = orders[d].tgt[m]
           /\ o.tgt[n].st = st /\ o.tgt[n].fz = Null /\ o.tgt[n].gr = orders[d].tgt[n].gr
           /\ \/ o.status \in {"halted", "running"}
              \/ /\ o.status = "succeeded"
                 /\ \A m \in Node : o.tgt[m].st \notin {"pending", "dispatched", "failed"}
<1>1. orders[d] \in OrderRow /\ orders[d].tgt \in [Node -> Targets]
  BY Types
<1>2. PICK tgt : tgt = [orders[d].tgt EXCEPT ![n].st = st, ![n].fz = Null]
  OBVIOUS
<1>3. /\ \A m \in Node : m # n => tgt[m] = orders[d].tgt[m]
      /\ tgt[n].st = st /\ tgt[n].fz = Null /\ tgt[n].gr = orders[d].tgt[n].gr
  BY <1>1, <1>2 DEF Targets
<1>4. PICK full : full = (orders[d].kind = "config" \/ orders[d].proof)
  OBVIOUS
<1>5. \/ o = [orders[d] EXCEPT !.tgt = tgt] /\ orders[d].status = "halted"
      \/ o = [orders[d] EXCEPT !.tgt = tgt, !.status = "halted"]
      \/ o = [orders[d] EXCEPT !.tgt = tgt, !.status = "running"]
      \/ /\ o = [orders[d] EXCEPT !.tgt = tgt, !.status = "succeeded", !.active = full]
         /\ {m \in Node : tgt[m].st \in {"pending", "dispatched"}} = {}
         /\ {m \in Node : tgt[m].st = "failed"} = {}
  BY <1>2, <1>4 DEF Refreshed
<1>6. /\ o.kind = orders[d].kind /\ o.rev = orders[d].rev /\ o.planned = orders[d].planned
      /\ o.tgt = tgt
      /\ \/ o.status \in {"halted", "running"}
         \/ /\ o.status = "succeeded"
            /\ {m \in Node : tgt[m].st \in {"pending", "dispatched"}} = {}
            /\ {m \in Node : tgt[m].st = "failed"} = {}
  BY <1>1, <1>5 DEF OrderRow
<1> QED
  BY <1>3, <1>6

LEMMA ReportStory ==
    ASSUME IInv, Story, NEW n \in Node, Report(n)
    PROVE  Story'
<1>1. /\ agent[n].pc \in {"applied", "recovered", "dirty"}
      /\ UNCHANGED <<perm, withdrawn, restored, jobs, worker>>
      /\ agent' = [agent EXCEPT ![n] = Resting]
  BY DEF Report, modelVars
<1>2. /\ \A m \in Node : m # n => agent'[m] = agent[m]
      /\ agent'[n].pc = "idle"
      /\ \A m \in Node : agent[m].pc # "idle" => agent[m].order \in DOMAIN orders
  BY <1>1, Types DEF Resting, IInv, Rest, AgentOK
<1>3. Latest' = Latest /\ \A a, b : Same(a, b)' = Same(a, b)
  BY <1>1 DEF Latest, Same
<1>4. Headed'
  BY <1>1, <1>3 DEF Story, Headed
<1>5. /\ Held(n) \/ Dropped(n)
      /\ orders[agent[n].order].tgt[n].gr = agent[n].list
      /\ agent[n].pc = "applied" => machine[n].list = agent[n].list
  BY <1>1 DEF Story, Working
<1>6. CASE ~ReportAccepted(n)
  \* the order was canceled: the machine stays unknown
  <2>1. UNCHANGED <<orders, machine>>
    BY <1>6 DEF Report
  <2>2. Dropped(n)
    BY <1>5, <1>6 DEF Held, ReportAccepted
  <2>3. Sealed' /\ InTurn'
    BY <1>1, <1>3, <2>1 DEF Story, Sealed, InTurn, Revision, Newest, Open
  <2>4. \A m \in Node : m # n => Held(m)' = Held(m) /\ Dropped(m)' = Dropped(m)
    BY <1>2, <2>1 DEF Held, Dropped, Open
  <2>5. Working'
    BY <1>2, <2>1, <2>4 DEF Story, Working
  <2>6. SeenTruly'
    BY <1>2, <2>1, <2>2, <2>4 DEF Story, SeenTruly, Dropped
  <2>7. ASSUME ~restored', NEW m \in Node, (Answered \/ Ordered(m))'
        PROVE  (Agreed(m) /\ Cared(m))'
    <3>1. Answered \/ Ordered(m)
      BY <1>1, <1>3, <2>1, <2>7 DEF Answered, Ordered
    <3>2. Agreed(m) /\ Cared(m)
      BY <1>1, <2>7, <3>1 DEF Story, Provided
    <3>3. \A d \in DOMAIN orders : Unfinished(d, m)' = Unfinished(d, m)
                                   /\ Delivers(d, m)' = Delivers(d, m)
      BY <1>3, <2>1 DEF Unfinished, Delivers, Open
    <3>4. Agreed(m)'
      BY <1>3, <2>1, <3>2, <3>3 DEF Agreed
    <3>5. Cared(m)'
      BY <1>1, <1>2, <1>3, <2>1, <3>2, <3>3 DEF Cared
    <3> QED
      BY <3>4, <3>5
  <2> QED
    BY <1>4, <2>3, <2>5, <2>6, <2>7 DEF Story, Provided
<1>7. CASE ReportAccepted(n)
  <2>1. PICK d : d = agent[n].order
    OBVIOUS
  <2>2. PICK st : st = IF agent[n].pc = "applied" THEN "succeeded" ELSE "failed"
    OBVIOUS
  <2>3. PICK o : o = Refreshed(d, n, st)
    OBVIOUS
  <2>4. /\ d \in DOMAIN orders /\ Open(d) /\ orders[d].tgt[n].st = "dispatched"
        /\ st \in {"succeeded", "failed"}
    BY <1>1, <1>2, <1>7, <2>1, <2>2 DEF ReportAccepted
  <2>5. /\ orders' = [orders EXCEPT ![d] = o]
        /\ machine' = [machine EXCEPT
              ![n].seen = IF agent[n].pc # "dirty" THEN machine[n].list ELSE Unsure,
              ![n].clean = IF orders[d].kind = "config" THEN agent[n].pc # "dirty" ELSE @]
    BY <1>7, <2>1, <2>2, <2>3 DEF Report
  <2>6. /\ \A m \in Node : m # n => machine'[m] = machine[m]
        /\ machine'[n].list = machine[n].list
        /\ machine'[n].seen \in {machine[n].list, Unsure}
    BY <2>5 DEF IInv, Rest, MachineOK
  <2>7. /\ DOMAIN orders' = DOMAIN orders
        /\ \A e \in DOMAIN orders : e # d => orders'[e] = orders[e]
        /\ orders'[d] = o
    BY <2>4, <2>5
  <2>8. /\ o.kind = orders[d].kind /\ o.rev = orders[d].rev /\ o.planned = orders[d].planned
        /\ \A m \in Node : m # n => o.tgt[m] = orders[d].tgt[m]
        /\ o.tgt[n].st = st /\ o.tgt[n].fz = Null /\ o.tgt[n].gr = orders[d].tgt[n].gr
        /\ \/ o.status \in {"halted", "running"}
           \/ /\ o.status = "succeeded"
              /\ \A m \in Node : o.tgt[m].st \notin {"pending", "dispatched", "failed"}
    BY <2>3, <2>4, RefreshedRow
  <2>9. ASSUME NEW e \in DOMAIN orders
        PROVE  /\ orders'[e].kind = orders[e].kind /\ orders'[e].rev = orders[e].rev
               /\ orders'[e].planned = orders[e].planned
               /\ Open(e)' => Open(e)
               /\ orders[e].status = "canceled" => orders'[e].status = "canceled"
    <3>1. CASE e = d
      BY <2>4, <2>7, <2>8, <3>1 DEF Open
    <3>2. CASE e # d
      BY <2>7, <3>2 DEF Open
    <3> QED
      BY <3>1, <3>2
  <2>10. ASSUME NEW e \in DOMAIN orders, NEW m \in Node
         PROVE  /\ orders'[e].tgt[m].gr = orders[e].tgt[m].gr
                /\ orders[e].tgt[m].st = "none" => orders'[e].tgt[m].st = "none"
                /\ Unfinished(e, m)' => Unfinished(e, m)
                /\ m # n => /\ orders'[e].tgt[m] = orders[e].tgt[m]
                            /\ Unfinished(e, m)' = Unfinished(e, m)
                /\ orders'[e].tgt[m].fz =
                      IF orders'[e].tgt[m].st = "dispatched" THEN orders'[e].tgt[m].gr ELSE Null
    <3>1. CASE e # d
      BY <2>7, <3>1 DEF Unfinished, Open, Story, Sealed
    <3>2. CASE e = d /\ m = n
      BY <2>4, <2>7, <2>8, <3>2 DEF Unfinished
    <3>3. CASE e = d /\ m # n
      <4>1. orders'[e].tgt[m] = orders[e].tgt[m]
        BY <2>7, <2>8, <3>3
      <4>2. Unfinished(e, m)' = Unfinished(e, m)
        BY <2>4, <2>7, <2>8, <3>3, <4>1 DEF Unfinished, Open
      <4> QED
        BY <3>3, <4>1, <4>2 DEF Story, Sealed
    <3> QED
      BY <3>1, <3>2, <3>3
  <2>11. Sealed'
    BY <2>7, <2>10 DEF Sealed
  <2>12. InTurn'
    BY <1>1, <2>7, <2>9, <2>10, TurnKept DEF Story
  <2>13. ASSUME NEW m \in Node, m # n, agent[m].pc # "idle"
         PROVE  (Held(m) => Held(m)') /\ (Dropped(m) => Dropped(m)')
    <3>1. agent'[m] = agent[m] /\ agent[m].order \in DOMAIN orders /\ machine'[m] = machine[m]
      BY <1>2, <2>6, <2>13
    <3>2. Held(m) => Unfinished(agent[m].order, m)
      BY DEF Held, Unfinished
    <3>3. Held(m) => Held(m)'
      BY <2>10, <2>13, <3>1, <3>2 DEF Held, Unfinished
    <3>4. Dropped(m) => Dropped(m)'
      BY <2>9, <3>1 DEF Dropped
    <3> QED
      BY <3>3, <3>4
  <2>14. Working'
    <3>1. ASSUME NEW m \in Node, agent'[m].pc # "idle"
          PROVE  /\ orders'[agent'[m].order].tgt[m].gr = agent'[m].list
                 /\ Held(m)' \/ Dropped(m)'
                 /\ agent'[m].pc = "applied" => machine'[m].list = agent'[m].list
      <4>1. m # n /\ agent'[m] = agent[m] /\ machine'[m] = machine[m]
        BY <1>2, <2>6, <3>1
      <4>2. agent[m].order \in DOMAIN orders
        BY <1>2, <3>1, <4>1
      <4> QED
        BY <2>10, <2>13, <3>1, <4>1, <4>2 DEF Story, Working
    <3> QED
      BY <3>1 DEF Working
  <2>15. SeenTruly'
    <3>1. ASSUME NEW m \in Node, machine'[m].seen # Unsure
          PROVE  \/ machine'[m].list = machine'[m].seen
                 \/ agent'[m].pc \in {"applied", "dirty"} /\ Held(m)'
      <4>1. CASE m = n
        BY <2>6, <3>1, <4>1
      <4>2. CASE m # n
        BY <1>2, <2>6, <2>13, <3>1, <4>2 DEF Story, SeenTruly
      <4> QED
        BY <4>1, <4>2
    <3> QED
      BY <3>1 DEF SeenTruly
  <2>16. ASSUME ~restored', NEW m \in Node, (Answered \/ Ordered(m))'
         PROVE  (Agreed(m) /\ Cared(m))'
    <3>1. Answered \/ Ordered(m)
      BY <1>1, <1>3, <2>7, <2>9, <2>16 DEF Answered, Ordered
    <3>2. Agreed(m) /\ Cared(m)
      BY <1>1, <2>16, <3>1 DEF Story, Provided
    <3>3. Agreed(m)'
      BY <1>3, <2>7, <2>10, <3>2 DEF Agreed
    <3>4. \A e \in DOMAIN orders : Unfinished(e, m)' => Delivers(e, m)'
      BY <1>3, <2>7, <3>3 DEF Agreed, Unfinished, Delivers
    <3>5. Cared(m)'
      <4>1. CASE m # n
        <5>1. \A e \in DOMAIN orders : Delivers(e, m) => Delivers(e, m)'
          BY <2>10, <3>4, <4>1 DEF Delivers, Unfinished
        <5> QED
          BY <1>1, <1>2, <1>3, <2>6, <2>7, <3>2, <4>1, <5>1 DEF Cared
      <4>2. CASE m = n /\ st = "failed"
        <5>1. Unfinished(d, n)'
          BY <2>4, <2>7, <2>8, <4>2 DEF Unfinished, Open
        <5> QED
          BY <2>4, <2>7, <3>4, <4>2, <5>1 DEF Cared
      <4>3. CASE m = n /\ st = "succeeded"
        <5>1. Unfinished(d, n)
          BY <2>4 DEF Unfinished
        <5>2. Same(orders[d].tgt[n].gr, Latest)
          BY <2>4, <3>2, <4>3, <5>1 DEF Agreed
        <5>3. machine'[n].list = orders[d].tgt[n].gr
          BY <1>5, <2>1, <2>2, <2>6, <4>3
        <5> QED
          BY <1>2, <1>3, <4>3, <5>2, <5>3 DEF Cared
      <4> QED
        BY <2>4, <4>1, <4>2, <4>3
    <3> QED
      BY <3>3, <3>5
  <2> QED
    BY <1>4, <2>11, <2>12, <2>14, <2>15, <2>16 DEF Story, Provided
<1> QED
  BY <1>6, <1>7

----------------------------------------------------------------------------
LEMMA StoryBegins == Init => Story
<1> SUFFICES ASSUME Init PROVE Story
  OBVIOUS
<1>1. Len(perm) = 1 /\ jobs = {} /\ worker.pc = "idle" /\ Latest = 1
  BY DEF Init, Free, Latest
<1>2. /\ DOMAIN orders = {1}
      /\ orders[1].kind = "config" /\ orders[1].status = "succeeded"
      /\ \A n \in Node : orders[1].tgt[n].st = "succeeded" /\ orders[1].tgt[n].fz = Null
  BY DEF Init
<1>3. \A n \in Node : /\ machine[n].list = 1 /\ machine[n].seen = 1
                      /\ agent[n].pc = "idle"
  BY DEF Init, Resting
<1>4. Headed /\ Sealed
  BY <1>1, <1>2 DEF Headed, Sealed
<1>5. InTurn
  BY <1>1, <1>2 DEF InTurn
<1>6. Working /\ SeenTruly
  BY <1>3 DEF Working, SeenTruly
<1>7. ASSUME NEW n \in Node PROVE Agreed(n) /\ Cared(n)
  BY <1>1, <1>2, <1>3 DEF Agreed, Unfinished, Open, Cared, Same
<1> QED
  BY <1>4, <1>5, <1>6, <1>7 DEF Story, Provided

\* A discard touches neither orders nor machines, and nothing is claimed of the
\* revision it puts back.
LEMMA DiscardStory ==
    ASSUME IInv, Story, Discard
    PROVE  Story'
<1>1. /\ worker.pc = "idle" /\ restored'
      /\ UNCHANGED <<worker, orders, machine, agent>>
  BY DEF Discard
<1>2. Headed' /\ Sealed' /\ Provided'
  BY <1>1 DEF Story, Headed, Sealed, Provided
<1>3. InTurn'
  BY <1>1 DEF Story, InTurn, Open
<1>4. Working' /\ SeenTruly'
  BY <1>1 DEF Story, Working, SeenTruly, Held, Dropped, Open
<1> QED
  BY <1>2, <1>3, <1>4 DEF Story

LEMMA StoryGoesOn == IInv /\ Story /\ [Next]_vars => Story'
<1> SUFFICES ASSUME IInv, Story, [Next]_vars PROVE Story'
  OBVIOUS
<1>1. CASE UNCHANGED vars
  BY <1>1, StoryKept DEF vars, modelVars
<1>2. CASE Enable \/ Disable \/ ApplyQuotaChanges \/ Consume \/ Reset \/ PlanQuotaEnforcement
  BY <1>2, EditStory
<1>3. CASE Discard
  BY <1>3, DiscardStory
<1>4. CASE SelectBatch
  BY <1>4, SelectStory
<1>5. CASE Reschedule \/ WorkerDies \/ RunAfter
  BY <1>5, ReturnStory
<1>6. CASE CreateGrantsOrder
  BY <1>6, CreateStory
<1>7. CASE FinishBatch
  BY <1>7, FinishStory
<1>8. CASE \E S \in SUBSET Node \ {{}} : CreateConfigOrder(S)
  BY <1>8, ConfigStory
<1>9. CASE \E d \in DOMAIN orders : CancelOrder(d) \/ \E n \in Node : RetryTarget(d, n)
  BY <1>9, CancelStory, RetryStory
<1>10. CASE \E n \in Node : \/ \E lost \in BOOLEAN : Claim(n, lost)
                            \/ Execute(n) \/ Fail(n) \/ Report(n)
  BY <1>10, ClaimStory, WorkStory, ReportStory
<1> QED
  BY <1>1, <1>2, <1>3, <1>4, <1>5, <1>6, <1>7, <1>8, <1>9, <1>10 DEF Next

LEMMA StoryAlways == Spec => []Story
<1> QED
  BY StoryBegins, StoryGoesOn, Always, PTL DEF Spec

\* While jobs are queued, the last of them is for the newest permissions, unless a
\* discard put those back.
LEMMA LastJob ==
    ASSUME IInv, Story, jobs # {}, ~restored
    PROVE  (\E j \in jobs : j.rev = Latest) /\ Newest({j.rev : j \in jobs}) = Latest
<1> DEFINE revs == {j.rev : j \in jobs}
<1>1. /\ DOMAIN perm = 1 .. Latest /\ Latest \in Nat /\ Latest \in DOMAIN perm
      /\ \A j \in jobs : j.rev \in DOMAIN perm
  BY Types
<1>2. PICK k \in jobs : k.rev = Latest
  BY <1>1 DEF Story, Headed
<1>3. revs \in SUBSET (DOMAIN perm) /\ Latest \in revs /\ revs # {}
  BY <1>1, <1>2
<1>4. Newest(revs) \in revs /\ Latest <= Newest(revs)
  BY <1>3, NewestAbove DEF IInv, ModelOK
<1>5. Newest(revs) \in 1 .. Latest
  BY <1>1, <1>3, <1>4
<1> QED
  BY <1>1, <1>2, <1>4, <1>5

\* In every fleet, whatever is edited, discarded, canceled or lost, a machine whose
\* list is not the model's is behind a queued job, an order that will reach it, one
\* the operator withdrew, or a configuration release that is owed -- unless the
\* newest revision is one that a discard put back (process_jobs_locked,
\* create_automatic_grants_deployment).
THEOREM NothingForgotten == Spec => []Remembered
<1>1. ASSUME IInv, Story, ~restored, NEW n \in Node PROVE Followed(n)
  <2>1. CASE jobs # {}
    <3>1. Same(Newest({j.rev : j \in jobs}), Latest)
      BY <1>1, <2>1, LastJob DEF Same
    <3> QED
      BY <2>1, <3>1 DEF Followed
  <2>2. CASE jobs = {}
    <3>1. Cared(n)
      BY <1>1, <2>2 DEF Story, Provided, Answered
    <3> QED
      BY <3>1 DEF Followed, Cared
  <2> QED
    BY <2>1, <2>2
<1>2. IInv /\ Story => Remembered
  BY <1>1 DEF Remembered
<1> QED
  BY <1>2, StoryAlways, Always, PTL

\* Only an agent at work changes a machine's list, to the one it was handed.
LEMMA ListMoves ==
    ASSUME IInv, Next, NEW n \in Node, machine'[n].list # machine[n].list
    PROVE  agent[n].pc = "work" /\ machine'[n].list = agent[n].list
<1>1. machine \in [Node -> [list : DOMAIN perm, seen : (DOMAIN perm) \cup {Unsure},
                            clean : BOOLEAN]]
  BY DEF IInv, Rest, MachineOK
<1>2. CASE machine' = machine
  BY <1>2
<1>3. ASSUME NEW d \in DOMAIN orders, CancelOrder(d) PROVE FALSE
  BY <1>1, <1>3 DEF CancelOrder
<1>4. ASSUME NEW m \in Node, Report(m), machine' # machine
      PROVE  machine'[n].list = machine[n].list
  <2>1. PICK clean : clean = IF orders[agent[m].order].kind = "config"
                             THEN agent[m].pc # "dirty" ELSE machine[m].clean
    OBVIOUS
  <2>2. machine' = [machine EXCEPT
            ![m].seen = IF agent[m].pc # "dirty" THEN machine[m].list ELSE Unsure,
            ![m].clean = clean]
    BY <1>1, <1>4, <2>1 DEF Report
  <2> QED
    BY <1>1, <1>4, <2>2
<1>5. ASSUME NEW m \in Node, Execute(m) \/ Fail(m)
      PROVE  agent[n].pc = "work" /\ machine'[n].list = agent[n].list
  <2>1. CASE Execute(m)
    BY <1>1, <2>1 DEF Execute
  <2>2. CASE Fail(m)
    BY <1>1, <2>2 DEF Fail
  <2> QED
    BY <1>5, <2>1, <2>2
<1>6. ASSUME NEW m \in Node, NEW lost \in BOOLEAN, Claim(m, lost) PROVE machine' = machine
  BY <1>6 DEF Claim
<1>7. ASSUME NEW d \in DOMAIN orders, NEW m \in Node, RetryTarget(d, m)
      PROVE  machine' = machine
  BY <1>7 DEF RetryTarget
<1>8. ASSUME NEW S \in SUBSET Node, CreateConfigOrder(S) PROVE machine' = machine
  BY <1>8 DEF CreateConfigOrder
<1>9. CASE Enable \/ Disable \/ Discard \/ Consume \/ Reset \/ PlanQuotaEnforcement
           \/ ApplyQuotaChanges
  BY <1>2, <1>9 DEF Enable, Disable, Discard, Consume, Reset, PlanQuotaEnforcement,
                    ApplyQuotaChanges
<1>10. CASE SelectBatch \/ CreateGrantsOrder \/ Reschedule \/ FinishBatch \/ WorkerDies
            \/ RunAfter
  BY <1>2, <1>10 DEF SelectBatch, CreateGrantsOrder, Reschedule, FinishBatch, WorkerDies,
                     RunAfter
<1> QED
  BY <1>2, <1>3, <1>4, <1>5, <1>6, <1>7, <1>8, <1>9, <1>10 DEF Next

\* In every fleet a machine is given other permissions than the model's only while a
\* newer job is queued, or by an order canceled under its agent's hands -- unless the
\* newest revision is one that a discard put back (the rebase loop of
\* create_automatic_grants_deployment, dispatched_grants).
THEOREM StaleIsRepaired == Spec => NeverBack
<1>1. ASSUME IInv, Story, Next, ~restored,
             NEW n \in Node, machine'[n].list # machine[n].list
      PROVE  \/ Same(machine'[n].list, Latest)
             \/ \E j \in jobs : j.rev > machine'[n].list
             \/ orders[agent[n].order].status = "canceled"
  <2>1. agent[n].pc = "work" /\ machine'[n].list = agent[n].list
    BY <1>1, ListMoves
  <2>2. /\ Held(n) \/ Dropped(n)
        /\ orders[agent[n].order].tgt[n].gr = agent[n].list
    BY <1>1, <2>1 DEF Story, Working
  <2>3. /\ agent[n].order \in DOMAIN orders /\ agent[n].list \in 1 .. Latest
        /\ Latest \in Nat
    BY <1>1, <2>1, Types
  <2>4. CASE Dropped(n)
    BY <2>4 DEF Dropped
  <2>5. CASE Held(n) /\ jobs = {}
    <3>1. Agreed(n)
      BY <1>1, <2>5 DEF Story, Provided, Answered
    <3>2. Unfinished(agent[n].order, n)
      BY <2>5 DEF Held, Unfinished
    <3> QED
      BY <2>1, <2>2, <2>3, <3>1, <3>2 DEF Agreed
  <2>6. CASE jobs # {}
    <3>1. PICK j \in jobs : j.rev = Latest
      BY <1>1, <2>6, LastJob
    <3>2. CASE agent[n].list = Latest
      BY <2>1, <3>2 DEF Same
    <3>3. CASE agent[n].list # Latest
      BY <2>1, <2>3, <3>1, <3>3
    <3> QED
      BY <3>2, <3>3
  <2> QED
    BY <2>2, <2>4, <2>5, <2>6
<1>2. ASSUME IInv, Story, [Next]_vars
      PROVE  [\A n \in Node : ~restored /\ machine'[n].list # machine[n].list =>
                \/ Same(machine'[n].list, Latest)
                \/ \E j \in jobs : j.rev > machine'[n].list
                \/ orders[agent[n].order].status = "canceled"]_vars
  BY <1>1, <1>2
<1> QED
  BY <1>2, StoryAlways, Always, PTL DEF Spec, NeverBack
=============================================================================
