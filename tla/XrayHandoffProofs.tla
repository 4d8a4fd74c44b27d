-------------------------- MODULE XrayHandoffProofs --------------------------
(***************************************************************************)
(* Type correctness of the handoff, and that the agent cuts no session it  *)
(* was not allowed to cut, for every mix of faults and every bound.        *)
(*                                                                         *)
(* The executor, the guard and the recovery hold copies of the same two    *)
(* identities.  IInv says that the copies agree where two of them may act  *)
(* on one process, and that a backup is there wherever a rollback could    *)
(* ask for it.                                                             *)
(***************************************************************************)
EXTENDS XrayHandoff, NumberLemmas, SequenceTheorems

Images == 1 .. (MaxHandoffs + 1)
GenRow ==
    {r \in [img : Images, alive : BOOLEAN, ready : BOOLEAN, accepting : BOOLEAN,
            busy : BOOLEAN, dropped : BOOLEAN, silent : BOOLEAN] :
        (r.busy => r.alive) /\ (r.accepting => r.alive)}
Steps == {"idle", "pause", "note", "write", "launch", "register", "seal", "replace", "resume",
          "drop", "drain", "retire", "finish", "report", "rollback", "rollback_file",
          "rollback_old", "undone"}
Restarts == {"none", "image", "stop_lost", "stop_old", "launch", "record", "unlink", "close",
             "discard"}

\* The generations.
Gens == gen \in Seq(GenRow) /\ Len(gen) \in 1 .. MaxGen

Small ==
    /\ kind \in {"config", "binary"} /\ kind \in Kinds /\ force \in BOOLEAN
    /\ live \in Images /\ backup \in 0 .. (MaxHandoffs + 1)
    /\ wanted \in Images
    /\ reports \subseteq {"succeeded", "recovered", "dirty"}
    /\ faults \in 0 .. MaxFaults
    /\ restart \in Restarts

RuntimeRow(n) == [old : 0 .. n, cand : 0 .. n, paused : BOOLEAN]
RecoveryRow(n) == [on : BOOLEAN, old : 0 .. n, cand : 0 .. n, previous : BOOLEAN,
                   unresponsive : BOOLEAN, img : 0 .. (MaxHandoffs + 1)]
ExRow(n) == [pc : Steps, old : 0 .. n, cand : 0 .. n, replaced : BOOLEAN, failed : BOOLEAN]

\* The two files and the executor name generations that were launched.
Named ==
    /\ runtime \in RuntimeRow(Len(gen))
    /\ recovery \in RecoveryRow(Len(gen))
    /\ ex \in ExRow(Len(gen))

\* Whoever holds an identity of the old generation holds the same one.
Agreed ==
    /\ runtime.old = 0 => runtime = NoRuntime
    /\ runtime.cand # 0 => runtime.cand # runtime.old
    /\ recovery.on => recovery.old # 0 /\ recovery.img # 0
    /\ ~Idle =>
        /\ ex.old # 0 /\ ex.cand # ex.old
        /\ runtime.old \in {0, ex.old}
        /\ recovery.on => recovery.old = ex.old

\* A restart works off a checkpoint, beside an executor that has let the lock go.
Locked ==
    /\ restart \notin {"none", "discard"} => recovery.on
    /\ restart # "none" =>
          Idle \/ (kind = "binary" /\ ex.pc \in {"pause", "drain", "retire", "report", "undone"})

\* A restart that has come to the launch has stopped the old generation.
Stopped ==
    /\ restart \in {"launch", "record", "unlink", "close"} => ~gen[recovery.old].alive
    /\ restart = "discard" /\ ex.pc = "pause" => ~gen[ex.old].alive
    /\ kind = "config" /\ restart \in {"close", "discard"} => runtime = NoRuntime

\* A rollback that needs the backup finds it.
Backed ==
    /\ kind = "config" =>
        /\ runtime # NoRuntime => backup # 0
        /\ ~Idle => /\ ~recovery.on /\ backup # 0
                    /\ ex.pc \notin {"replace", "drain", "retire", "finish", "report"}
        /\ ex.pc = "undone" => runtime = NoRuntime
    /\ ex.pc = "pause" => /\ ~runtime.paused /\ ~ex.replaced
                          /\ backup # 0 \/ ~gen[ex.old].alive
    /\ ex.pc \in {"note", "write", "launch", "register", "seal", "replace", "resume", "drop"} =>
         backup # 0
    /\ ex.pc \in {"rollback", "rollback_file"} /\ ex.replaced => backup # 0

\* The generation that drains gave up UDP, and is retired when it may be.
Drained ==
    /\ ex.pc \in {"drain", "retire"} => gen[ex.old].dropped
    /\ ex.pc = "retire" => force \/ ~gen[ex.old].busy

IInv == Gens /\ Small /\ Named /\ Agreed /\ Locked /\ Stopped /\ Backed /\ Drained

----------------------------------------------------------------------------
(* Generations only get older.                                              *)

\* A generation is never forgotten, revived, renamed or given its UDP back.
Later(a, b) ==
    /\ b.img = a.img
    /\ a.dropped => b.dropped
    /\ a.silent => b.silent
    /\ b.alive => a.alive

Evolves ==
    /\ Len(gen) <= Len(gen')
    /\ \A g \in DOMAIN gen : g \in DOMAIN gen' /\ Later(gen[g], gen'[g])

LEMMA Rows ==
    ASSUME Gens
    PROVE  /\ gen \in Seq(GenRow) /\ Len(gen) \in Nat \ {0} /\ DOMAIN gen = 1 .. Len(gen)
           /\ \A g \in DOMAIN gen : gen[g] \in GenRow /\ g \in Nat \ {0}
           /\ MaxGen \in Nat \ {0} /\ Len(gen) <= MaxGen
<1> QED
  BY HandoffAssumption DEF Gens

LEMMA Known ==
    ASSUME Gens, NEW g \in 0 .. Len(gen)
    PROVE  /\ g # 0 => g \in DOMAIN gen
           /\ Alive(g) => g \in AliveGens /\ g # 0
<1> QED
  BY Rows DEF Alive, AliveGens

LEMMA Unmoved ==
    ASSUME Gens, UNCHANGED gen
    PROVE  Gens' /\ Evolves
<1> QED
  BY Rows DEF Gens, Evolves, Later

LEMMA OneMoved ==
    ASSUME Gens, NEW g \in DOMAIN gen, NEW r \in GenRow, Later(gen[g], r),
           gen' = [gen EXCEPT ![g] = r]
    PROVE  Gens' /\ Evolves
<1>1. gen' \in Seq(GenRow) /\ Len(gen') = Len(gen) /\ DOMAIN gen' = DOMAIN gen
  BY Rows
<1>2. \A h \in DOMAIN gen : gen'[h] = IF h = g THEN r ELSE gen[h]
  BY Rows
<1> QED
  BY <1>1, <1>2 DEF Gens, Evolves, Later

LEMMA OneMore ==
    ASSUME Gens, NEW r \in GenRow, Len(gen) < MaxGen, gen' = Append(gen, r)
    PROVE  Gens' /\ Evolves
<1>1. /\ gen' \in Seq(GenRow) /\ Len(gen') = Len(gen) + 1
      /\ \A h \in DOMAIN gen : h \in DOMAIN gen' /\ gen'[h] = gen[h]
  BY Rows
<1> QED
  BY <1>1, Rows DEF Gens, Evolves, Later

LEMMA CallRows ==
    ASSUME Gens, NEW g \in DOMAIN gen
    PROVE  /\ Paused(g) \in GenRow /\ Later(gen[g], Paused(g))
           /\ gen[g].alive => Resumed(g) \in GenRow /\ Later(gen[g], Resumed(g))
           /\ Sealed(g) \in GenRow /\ Later(gen[g], Sealed(g))
           /\ Detached(g) \in GenRow /\ Later(gen[g], Detached(g))
           /\ Dead(gen[g]) \in GenRow /\ Later(gen[g], Dead(gen[g])) /\ ~Dead(gen[g]).alive
           /\ [gen[g] EXCEPT !.silent = TRUE] \in GenRow
           /\ Later(gen[g], [gen[g] EXCEPT !.silent = TRUE])
           /\ [gen[g] EXCEPT !.busy = FALSE] \in GenRow
           /\ Later(gen[g], [gen[g] EXCEPT !.busy = FALSE])
<1>1. gen[g] \in GenRow
  BY Rows
<1> QED
  BY <1>1 DEF GenRow, Later, Paused, Resumed, Sealed, Detached, Dead

\* What the calls leave alone.
LEMMA CallAlive ==
    ASSUME Gens, NEW g \in DOMAIN gen
    PROVE  /\ Paused(g).alive = gen[g].alive /\ Resumed(g).alive = gen[g].alive
           /\ Sealed(g).alive = gen[g].alive /\ Detached(g).alive = gen[g].alive
           /\ Paused(g).busy = gen[g].busy /\ Sealed(g).busy = gen[g].busy
           /\ Detached(g).busy = gen[g].busy /\ Detached(g).dropped
<1>1. gen[g] \in GenRow
  BY Rows
<1> QED
  BY <1>1 DEF GenRow, Paused, Resumed, Sealed, Detached

LEMMA NewRows ==
    ASSUME NEW img \in Images
    PROVE  Prepared(img) \in GenRow /\ Admitted(img) \in GenRow
<1> QED
  BY DEF Prepared, Admitted, GenRow

\* A call that was answered, or done, reached a generation that is alive.
LEMMA RpcFacts ==
    ASSUME Small, NEW g, NEW answer \in Answers, Rpc(g, answer)
    PROVE  /\ answer # "fail" => Reachable(g)
           /\ faults' \in 0 .. MaxFaults
<1> QED
  BY HandoffAssumption DEF Small, Rpc, Fault, Answers

LEMMA ReachableKnown ==
    ASSUME Gens, NEW g \in 0 .. Len(gen), Reachable(g)
    PROVE  g \in DOMAIN gen /\ g # 0 /\ gen[g].alive
<1> QED
  BY Rows DEF Reachable, Alive

\* A control call moves the one generation it was for.
LEMMA CallMoves ==
    ASSUME Gens, Small, NEW g \in 0 .. Len(gen), NEW answer \in Answers, Rpc(g, answer), NEW r,
           g \in DOMAIN gen /\ gen[g].alive => r \in GenRow /\ Later(gen[g], r),
           Changed(g, answer, r)
    PROVE  Gens' /\ Evolves
<1>1. CASE answer = "fail"
  BY <1>1, Unmoved DEF Changed
<1>2. CASE answer # "fail"
  <2>1. g \in DOMAIN gen /\ gen[g].alive
    BY <1>2, RpcFacts, ReachableKnown
  <2> QED
    BY <1>2, <2>1, OneMoved DEF Changed
<1> QED
  BY <1>1, <1>2

LEMMA KillMoves ==
    ASSUME Gens, NEW g \in DOMAIN gen, gen' = Killed(g)
    PROVE  Gens' /\ Evolves
<1>1. Killed(g) = [gen EXCEPT ![g] = Dead(gen[g])]
  BY DEF Killed
<1> QED
  BY <1>1, CallRows, OneMoved

\* Several die at once.
LEMMA ManyDie ==
    ASSUME Gens, NEW S
    PROVE  LET after == [g \in DOMAIN gen |-> IF g \in S THEN Dead(gen[g]) ELSE gen[g]]
           IN  /\ after \in Seq(GenRow) /\ Len(after) = Len(gen) /\ DOMAIN after = DOMAIN gen
               /\ \A g \in DOMAIN gen : Later(gen[g], after[g])
<1> DEFINE after == [g \in DOMAIN gen |-> IF g \in S THEN Dead(gen[g]) ELSE gen[g]]
<1>1. \A g \in DOMAIN gen : after[g] \in GenRow /\ Later(gen[g], after[g])
  BY Rows, CallRows DEF Later
<1>2. after \in [1 .. Len(gen) -> GenRow]
  BY <1>1, Rows
<1>3. after \in Seq(GenRow) /\ Len(after) = Len(gen)
  BY <1>2, Rows, SeqDef
<1> QED
  BY <1>1, <1>2, <1>3, Rows

----------------------------------------------------------------------------
(* Every action lets the generations evolve.                                *)

LEMMA Identities ==
    ASSUME IInv
    PROVE  /\ Gens /\ Small /\ Named
           /\ runtime.old \in 0 .. Len(gen) /\ runtime.cand \in 0 .. Len(gen)
           /\ recovery.old \in 0 .. Len(gen) /\ recovery.cand \in 0 .. Len(gen)
           /\ ex.old \in 0 .. Len(gen) /\ ex.cand \in 0 .. Len(gen)
           /\ ~Idle => ex.old \in DOMAIN gen
           /\ recovery.on => recovery.old \in DOMAIN gen /\ Lost \in DOMAIN gen
<1>1. Gens /\ Small /\ Named /\ Agreed
  BY DEF IInv
<1>2. /\ runtime.old \in 0 .. Len(gen) /\ runtime.cand \in 0 .. Len(gen)
      /\ recovery.old \in 0 .. Len(gen) /\ recovery.cand \in 0 .. Len(gen)
      /\ ex.old \in 0 .. Len(gen) /\ ex.cand \in 0 .. Len(gen)
  BY <1>1 DEF Named, RuntimeRow, RecoveryRow, ExRow
<1>3. ~Idle => ex.old \in DOMAIN gen
  BY <1>1, <1>2, Known DEF Agreed
<1>4. recovery.on => recovery.old \in DOMAIN gen /\ Lost \in DOMAIN gen
  BY <1>1, <1>2, Known DEF Agreed, Lost
<1> QED
  BY <1>1, <1>2, <1>3, <1>4

LEMMA ApprovedImage ==
    ASSUME IInv, recovery.on, Restorable
    PROVE  Approved \in Images
<1>1. Lost \in DOMAIN gen
  BY Identities
<1>2. gen[Lost].img \in Images
  BY <1>1, Identities, Rows DEF GenRow
<1>3. recovery.img \in Images
  <2>1. recovery.img \in 0 .. (MaxHandoffs + 1) /\ recovery.img # 0
    BY DEF IInv, Named, RecoveryRow, Agreed
  <2> QED
    BY <2>1, HandoffAssumption DEF Images
<1> QED
  BY <1>2, <1>3 DEF Restorable
LEMMA ExecuteEvolves == IInv /\ Execute => Gens' /\ Evolves
<1> SUFFICES ASSUME IInv, Execute PROVE Gens' /\ Evolves
  OBVIOUS
<1>0. Gens /\ Small
  BY Identities
<1>1. CASE \/ Begin \/ NotePause \/ WriteConfig \/ Register \/ ReplaceExecutable \/ Report
           \/ RollbackFile \/ Undone
  BY <1>0, <1>1, Unmoved DEF Begin, NotePause, WriteConfig, Register, ReplaceExecutable, Report,
                             RollbackFile, Undone, Conclude
<1>2. CASE Retire
  <2>1. ex.old \in DOMAIN gen /\ (gen' = gen \/ gen' = Killed(ex.old))
    BY <1>2, Identities DEF Retire, Step, Idle
  <2> QED
    BY <1>0, <2>1, Unmoved, KillMoves
<1>3. ASSUME NEW answer \in Answers, Pause(answer) \/ Drop(answer)
      PROVE  Gens' /\ Evolves
  <2>1. /\ ex.old \in 0 .. Len(gen) /\ Rpc(ex.old, answer)
        /\ Changed(ex.old, answer, Paused(ex.old)) \/ Changed(ex.old, answer, Detached(ex.old))
    BY <1>3, Identities DEF Pause, Drop
  <2> QED
    BY <1>0, <2>1, CallRows, CallMoves
<1>4. ASSUME NEW answer \in Answers, Launch(answer)
      PROVE  Gens' /\ Evolves
  <2>1. CASE answer = "ok"
    <3>1. Len(gen) < MaxGen /\ gen' = Append(gen, Prepared(wanted)) /\ wanted \in Images
      BY <1>0, <1>4, <2>1 DEF Launch, Small
    <3> QED
      BY <1>0, <3>1, NewRows, OneMore
  <2>2. CASE answer # "ok"
    BY <1>0, <1>4, <2>2, Unmoved DEF Launch
  <2> QED
    BY <2>1, <2>2
<1>5. ASSUME NEW answer \in Answers, Seal(answer) \/ Resume(answer)
      PROVE  Gens' /\ Evolves
  <2>1. /\ ex.cand \in 0 .. Len(gen) /\ Rpc(ex.cand, answer)
        /\ Changed(ex.cand, answer, Sealed(ex.cand)) \/ Changed(ex.cand, answer, Resumed(ex.cand))
    BY <1>5, Identities DEF Seal, Resume
  <2> QED
    BY <1>0, <2>1, CallRows, CallMoves
<1>6. ASSUME NEW answer \in Answers, Drain(answer) \/ Finish(answer)
      PROVE  Gens' /\ Evolves
  BY <1>0, <1>6, Unmoved DEF Drain, Finish
<1>7. ASSUME NEW answer \in Answers, RollbackCandidate(answer)
      PROVE  Gens' /\ Evolves
  <2>1. \/ UNCHANGED gen
        \/ ex.cand # 0 /\ gen' = Killed(ex.cand)
    BY <1>7 DEF RollbackCandidate
  <2>2. ex.cand # 0 => ex.cand \in DOMAIN gen
    BY <1>0, Identities, Known
  <2> QED
    BY <1>0, <2>1, <2>2, Unmoved, KillMoves
<1>8. ASSUME NEW answer \in Answers, RollbackOld(answer)
      PROVE  Gens' /\ Evolves
  <2>1. /\ ex.old \in 0 .. Len(gen) /\ Rpc(ex.old, answer)
        /\ Changed(ex.old, answer, Resumed(ex.old))
    BY <1>8, Identities DEF RollbackOld
  <2> QED
    BY <1>0, <2>1, CallRows, CallMoves
<1> QED
  BY <1>1, <1>2, <1>3, <1>4, <1>5, <1>6, <1>7, <1>8 DEF Execute

\* A handler that acts on a generation that is alive acts on one it knows.
LEMMA Handled ==
    ASSUME IInv
    PROVE  /\ Alive(Old) => Old \in DOMAIN gen
           /\ Alive(Cand) => Cand \in DOMAIN gen
           /\ Serves(Cand) => Cand \in DOMAIN gen
<1> QED
  BY Identities, Known DEF Old, Cand, Alive, Serves

\* The handlers that leave the generations alone.
Quiet ==
    \/ DiscoverCandidate \/ InstallCandidate \/ RecordSuccess \/ FinishCandidate
    \/ RestoreImage \/ RestoreOld \/ Abandon
    \/ BeginRecovery \/ BeginUnresponsive \/ Retry \/ InstallApproved
    \/ RecordRestart \/ CloseRestart \/ RestartFails

LEMMA QuietGens == Quiet => UNCHANGED gen
<1> QED
  BY DEF Quiet, DiscoverCandidate, InstallCandidate, RecordSuccess, FinishCandidate, Closed,
         RestoreImage, RestoreOld, Abandon, BeginRecovery, BeginUnresponsive, Checkpoint, Retry,
         InstallApproved, RecordRestart, CloseRestart, RestartFails

\* The ones that act: a call, a kill, an adoption, a launch.
LEMMA Handlers ==
    Guard \/ Recover =>
        \/ Quiet \/ ResumeOld \/ PauseOld \/ DropOld \/ ResumeCandidate \/ SealCandidate
        \/ DropCandidate \/ RetireOld \/ RetireUnresponsive \/ StopLost \/ StopOld
        \/ Adopt \/ Relaunch \/ StartXray
<1> QED
  BY DEF Guard, Recover, Restart, Quiet

\* While a restart goes on there is a checkpoint of generations that were launched.
LEMMA Underway ==
    ASSUME IInv, restart \notin {"none", "discard"}
    PROVE  recovery.on /\ recovery.old \in DOMAIN gen /\ Lost \in DOMAIN gen
<1> QED
  BY Identities DEF IInv, Locked

LEMMA Adopted ==
    ASSUME IInv, Adopt
    PROVE  /\ gen' \in Seq(GenRow) /\ Len(gen') = Len(gen) /\ DOMAIN gen' = DOMAIN gen
           /\ \A g \in DOMAIN gen :
                 /\ gen'[g] = IF g \in Others THEN Resumed(g) ELSE gen[g]
                 /\ g \in Others => gen[g].alive
                 /\ Later(gen[g], gen'[g])
<1>0. Gens
  BY Identities
<1>1. gen' = [g \in DOMAIN gen |-> IF g \in Others THEN Resumed(g) ELSE gen[g]]
  BY DEF Adopt
<1>2. \A g \in DOMAIN gen : g \in Others => gen[g].alive
  BY DEF Others, AliveGens
<1>3. \A g \in DOMAIN gen : gen'[g] \in GenRow /\ Later(gen[g], gen'[g])
  BY <1>0, <1>1, <1>2, Rows, CallRows DEF Later
<1>4. gen' \in [1 .. Len(gen) -> GenRow]
  BY <1>0, <1>1, <1>3, Rows
<1>5. gen' \in Seq(GenRow) /\ Len(gen') = Len(gen)
  BY <1>0, <1>4, Rows, SeqDef
<1> QED
  BY <1>1, <1>2, <1>3, <1>5

LEMMA HandlersEvolve == IInv /\ (Guard \/ Recover) => Gens' /\ Evolves
<1> SUFFICES ASSUME IInv, Guard \/ Recover PROVE Gens' /\ Evolves
  OBVIOUS
<1>0. Gens /\ Small
  BY Identities
<1>1. CASE Quiet
  BY <1>0, <1>1, QuietGens, Unmoved
<1>2. CASE ResumeOld \/ PauseOld \/ DropOld
  <2>1. Old \in DOMAIN gen /\ gen[Old].alive
    BY <1>2, Handled DEF ResumeOld, PauseOld, DropOld, Alive
  <2>2. \E r \in {Resumed(Old), Paused(Old), Detached(Old)} : gen' = [gen EXCEPT ![Old] = r]
    BY <1>2 DEF ResumeOld, PauseOld, DropOld, Control
  <2> QED
    BY <1>0, <2>1, <2>2, CallRows, OneMoved
<1>3. CASE ResumeCandidate \/ SealCandidate \/ DropCandidate
  <2>1. Cand \in DOMAIN gen /\ gen[Cand].alive
    BY <1>3, Handled DEF ResumeCandidate, SealCandidate, DropCandidate, Left, Alive
  <2>2. \E r \in {Resumed(Cand), Sealed(Cand), Dead(gen[Cand])} :
           gen' = [gen EXCEPT ![Cand] = r]
    BY <1>3 DEF ResumeCandidate, SealCandidate, DropCandidate, Control
  <2> QED
    BY <1>0, <2>1, <2>2, CallRows, OneMoved
<1>4. CASE RetireOld \/ RetireUnresponsive
  <2>1. gen' = gen \/ (Old \in DOMAIN gen /\ gen' = Killed(Old))
    BY <1>4, Handled DEF RetireOld, RetireUnresponsive
  <2> QED
    BY <1>0, <2>1, Unmoved, KillMoves
<1>5. CASE StopLost \/ StopOld
  <2>1. Lost \in DOMAIN gen /\ recovery.old \in DOMAIN gen
    BY <1>5, Underway DEF StopLost, StopOld, RestartStep
  <2>2. gen' = Killed(Lost) \/ gen' = Killed(recovery.old)
    BY <1>5 DEF StopLost, StopOld
  <2> QED
    BY <1>0, <2>1, <2>2, KillMoves
<1>6. CASE Adopt
  BY <1>0, <1>6, Adopted DEF Gens, Evolves
<1>7. CASE Relaunch \/ StartXray
  <2>1. Len(gen) < MaxGen /\ gen' = Append(gen, Admitted(live)) /\ live \in Images
    BY <1>0, <1>7 DEF Relaunch, StartXray, Small
  <2> QED
    BY <1>0, <2>1, NewRows, OneMore
<1> QED
  BY <1>1, <1>2, <1>3, <1>4, <1>5, <1>6, <1>7, Handlers

LEMMA EnvironmentEvolves == IInv /\ Environment => Gens' /\ Evolves
<1> SUFFICES ASSUME IInv, Environment PROVE Gens' /\ Evolves
  OBVIOUS
<1>0. Gens
  BY Identities
<1>1. CASE AgentDies
  BY <1>0, <1>1, Unmoved DEF AgentDies
<1>2. CASE Reboot
  <2> DEFINE killed == [g \in DOMAIN gen |-> IF g \in DOMAIN gen THEN Dead(gen[g]) ELSE gen[g]]
  <2>1. /\ killed \in Seq(GenRow) /\ Len(killed) = Len(gen) /\ DOMAIN killed = DOMAIN gen
        /\ \A g \in DOMAIN gen : Later(gen[g], killed[g])
    BY <1>0, ManyDie
  <2>2. gen' = killed
    BY <1>2 DEF Reboot
  <2> HIDE DEF killed
  <2> QED
    BY <1>0, <2>1, <2>2, Rows DEF Gens, Evolves
<1>3. ASSUME NEW g \in DOMAIN gen, ProcessDies(g)
      PROVE  Gens' /\ Evolves
  BY <1>0, <1>3, KillMoves DEF ProcessDies
<1>4. ASSUME NEW g \in DOMAIN gen, GoesSilent(g)
      PROVE  Gens' /\ Evolves
  <2>1. gen' = [gen EXCEPT ![g] = [gen[g] EXCEPT !.silent = TRUE]]
    BY <1>0, <1>4, Rows DEF GoesSilent
  <2> QED
    BY <1>0, <2>1, CallRows, OneMoved
<1>5. ASSUME NEW g \in DOMAIN gen, Drains(g)
      PROVE  Gens' /\ Evolves
  <2>1. gen' = [gen EXCEPT ![g] = [gen[g] EXCEPT !.busy = FALSE]]
    BY <1>0, <1>5, Rows DEF Drains
  <2> QED
    BY <1>0, <2>1, CallRows, OneMoved
<1> QED
  BY <1>1, <1>2, <1>3, <1>4, <1>5 DEF Environment

LEMMA GensEvolve == IInv /\ [Next]_vars => Gens' /\ Evolves
<1>1. IInv /\ UNCHANGED vars => Gens' /\ Evolves
  BY Identities, Unmoved DEF vars
<1> QED
  BY <1>1, ExecuteEvolves, HandlersEvolve, EnvironmentEvolves DEF Next

----------------------------------------------------------------------------
(* The images, the counters and the receipts.                               *)

LEMMA SmallFacts ==
    ASSUME IInv
    PROVE  /\ MaxHandoffs \in Nat /\ MaxFaults \in Nat /\ faults \in 0 .. MaxFaults
           /\ live \in Images /\ wanted \in Images /\ backup \in 0 .. (MaxHandoffs + 1)
           /\ Images \subseteq 0 .. (MaxHandoffs + 1)
           /\ backup # 0 => backup \in Images
           /\ 0 \in 0 .. (MaxHandoffs + 1)
           /\ reports \subseteq {"succeeded", "recovered", "dirty"}
           /\ kind \in {"config", "binary"} /\ kind \in Kinds /\ force \in BOOLEAN
           /\ restart \in Restarts
<1> QED
  BY HandoffAssumption DEF IInv, Small, Images

LEMMA FaultFacts ==
    ASSUME IInv, NEW f, Fault(f)
    PROVE  faults' \in 0 .. MaxFaults /\ faults' = faults + 1 /\ faults' # faults
<1> QED
  BY SmallFacts DEF Fault

LEMMA ReportedType ==
    ASSUME IInv, NEW outcome \in {"succeeded", "recovered", "dirty"}
    PROVE  Reported(outcome) \subseteq {"succeeded", "recovered", "dirty"}
<1> QED
  BY SmallFacts DEF Reported

\* The frame of what is small.
LEMMA SmallFrame ==
    ASSUME IInv, kind' = kind, force' \in BOOLEAN, live' \in Images,
           backup' \in {0, backup, live}, wanted' \in Images,
           reports' \in {reports, {}, Reported("succeeded"), Reported("recovered"),
                         Reported("dirty")},
           faults' = faults \/ \E f : Fault(f), restart' \in Restarts
    PROVE  Small'
<1>1. faults' \in 0 .. MaxFaults
  BY SmallFacts, FaultFacts
<1>2. reports' \subseteq {"succeeded", "recovered", "dirty"}
  BY SmallFacts, ReportedType
<1>3. backup' \in 0 .. (MaxHandoffs + 1)
  BY SmallFacts
<1> QED
  BY <1>1, <1>2, <1>3, SmallFacts DEF Small

LEMMA RpcFaults ==
    ASSUME NEW g, NEW answer, Rpc(g, answer)
    PROVE  faults' = faults \/ \E f : Fault(f)
<1> QED
  BY DEF Rpc

LEMMA ExecuteSmall == IInv /\ Execute => Small'
<1> SUFFICES ASSUME IInv, Execute PROVE Small'
  OBVIOUS
<1>0. restart' \in Restarts /\ live \in Images /\ wanted \in Images /\ force \in BOOLEAN
  BY SmallFacts DEF Execute
<1>1. CASE Begin
  <2>1. wanted' \in Images
    BY <1>1, SmallFacts DEF Begin, Images
  <2> QED
    BY <1>0, <1>1, <2>1, SmallFrame DEF Begin
<1>2. CASE NotePause \/ WriteConfig \/ Register \/ ReplaceExecutable
  <2>1. /\ UNCHANGED <<kind, force, backup, wanted, reports>> /\ live' \in {live, wanted}
        /\ faults' = faults \/ \E f : Fault(f)
    BY <1>2 DEF NotePause, WriteConfig, Register, ReplaceExecutable
  <2> QED
    BY <1>0, <2>1, SmallFrame
<1>3. CASE Retire \/ Report \/ Undone
  <2>1. /\ UNCHANGED <<kind, force, live, wanted>> /\ backup' \in {0, backup}
        /\ reports' \in {reports, Reported("succeeded"), Reported("recovered"),
                         Reported("dirty")}
        /\ faults' = faults \/ \E f : Fault(f)
    BY <1>3 DEF Retire, Report, Undone, Conclude, LeaveDirty
  <2> QED
    BY <1>0, <2>1, SmallFrame
<1>4. CASE RollbackFile
  <2>1. kind = "config" \/ ex.replaced => backup # 0
    BY <1>4 DEF RollbackFile, IInv, Backed, Idle
  <2>2. live' \in Images
    BY <1>0, <1>4, <2>1, SmallFacts DEF RollbackFile
  <2>3. /\ UNCHANGED <<kind, force, backup, wanted, reports>>
        /\ faults' = faults \/ \E f : Fault(f)
    BY <1>4 DEF RollbackFile
  <2> QED
    BY <1>0, <2>2, <2>3, SmallFrame
<1>5. ASSUME NEW answer \in Answers,
             \/ Pause(answer) \/ Launch(answer) \/ Seal(answer) \/ Resume(answer)
             \/ Drop(answer) \/ Drain(answer) \/ Finish(answer)
             \/ RollbackCandidate(answer) \/ RollbackOld(answer)
      PROVE  Small'
  <2>1. faults' = faults \/ \E f : Fault(f)
    BY <1>5, RpcFaults DEF Pause, Launch, Seal, Resume, Drop, Drain, Finish, RollbackCandidate,
                           RollbackOld
  <2>2. /\ UNCHANGED <<kind, live, backup, wanted>> /\ force' \in {force, kind = "config"}
        /\ reports' \in {reports, Reported("dirty")}
    BY <1>5 DEF Pause, Launch, Seal, Resume, Drop, Drain, Finish, RollbackCandidate,
                RollbackOld, LeaveDirty, disk
  <2>3. force' \in BOOLEAN
    <3>1. CASE force' = force
      BY <1>0, <3>1
    <3>2. CASE force' = (kind = "config")
      BY <3>2
    <3> QED
      BY <2>2, <3>1, <3>2
  <2> QED
    BY <1>0, <2>1, <2>2, <2>3, SmallFrame
<1> QED
  BY <1>1, <1>2, <1>3, <1>4, <1>5 DEF Execute

\* An image that a handler puts back is one that was released.
LEMMA PreviousReleased ==
    ASSUME IInv, Interrupted, Old \in DOMAIN gen
    PROVE  PreviousImage \in Images
<1>1. kind = "config" => backup # 0
  BY DEF IInv, Backed, Interrupted
<1>2. gen[Old].img \in Images
  BY Identities, Rows DEF GenRow
<1> QED
  BY <1>1, <1>2, SmallFacts DEF PreviousImage

LEMMA HandlersSmall == IInv /\ (Guard \/ Recover) => Small'
<1> SUFFICES ASSUME IInv, Guard \/ Recover PROVE Small'
  OBVIOUS
<1>0. live \in Images /\ wanted \in Images /\ force \in BOOLEAN /\ restart \in Restarts
  BY SmallFacts
<1>1. restart' \in Restarts
  BY <1>0 DEF Guard, Recover, Restart, BeginRecovery, BeginUnresponsive, Checkpoint, Retry,
              InstallApproved, StopLost, StopOld, Adopt, Relaunch, RecordRestart, CloseRestart,
              RestartFails, RestartStep, Restarts
<1>2. CASE \/ DiscoverCandidate \/ ResumeOld \/ PauseOld \/ DropOld \/ ResumeCandidate
           \/ SealCandidate \/ RetireOld \/ StartXray \/ DropCandidate
  <2>1. UNCHANGED <<kind, force, live, backup, wanted, reports, faults>>
    BY <1>2 DEF DiscoverCandidate, ResumeOld, PauseOld, DropOld, ResumeCandidate, SealCandidate,
                RetireOld, StartXray, DropCandidate, Control, disk
  <2> QED
    BY <1>0, <1>1, <2>1, SmallFrame
<1>3. CASE InstallCandidate \/ RestoreImage
  <2>1. CASE InstallCandidate
    <3>1. Cand \in DOMAIN gen
      BY <2>1, Handled DEF InstallCandidate, Left
    <3>2. live' \in Images
      BY <2>1, <3>1, Identities, Rows DEF InstallCandidate, GenRow
    <3> QED
      BY <1>0, <1>1, <2>1, <3>2, SmallFrame DEF InstallCandidate
  <2>2. CASE RestoreImage
    <3>1. Interrupted /\ Old \in DOMAIN gen
      BY <2>2, Handled DEF RestoreImage, Staying, Observed
    <3>2. live' \in Images
      BY <2>2, <3>1, PreviousReleased DEF RestoreImage
    <3> QED
      BY <1>0, <1>1, <2>2, <3>2, SmallFrame DEF RestoreImage
  <2> QED
    BY <1>3, <2>1, <2>2
<1>4. CASE RecordSuccess \/ FinishCandidate \/ RestoreOld \/ Abandon
  <2>1. /\ UNCHANGED <<kind, force, live, wanted>> /\ backup' \in {0, backup}
        /\ reports' \in {reports, Reported("succeeded")}
        /\ faults' = faults \/ \E f : Fault(f)
    BY <1>4 DEF RecordSuccess, FinishCandidate, RestoreOld, Abandon, Closed, disk
  <2> QED
    BY <1>0, <1>1, <2>1, SmallFrame
<1>5. CASE BeginRecovery \/ BeginUnresponsive \/ RetireUnresponsive
  <2>1. /\ UNCHANGED <<kind, force, live, wanted>> /\ backup' \in {0, backup}
        /\ reports' \in {reports, Reported("succeeded"), Reported("dirty")}
    BY <1>5 DEF BeginRecovery, BeginUnresponsive, RetireUnresponsive, Checkpoint
  <2>2. faults' = faults \/ \E f : Fault(f)
    BY <1>5 DEF BeginRecovery, BeginUnresponsive, RetireUnresponsive, ControlLost
  <2> QED
    BY <1>0, <1>1, <2>1, <2>2, SmallFrame
<1>6. CASE Retry \/ StopLost \/ StopOld \/ Adopt \/ Relaunch \/ RestartFails
  <2>1. /\ UNCHANGED <<kind, force, live, backup, wanted, reports>>
        /\ faults' = faults \/ \E f : Fault(f)
    BY <1>6 DEF Retry, StopLost, StopOld, Adopt, Relaunch, RestartFails, disk
  <2> QED
    BY <1>0, <1>1, <2>1, SmallFrame
<1>7. CASE InstallApproved
  <2>1. live' \in Images
    BY <1>7, Underway, ApprovedImage DEF InstallApproved, RestartStep
  <2> QED
    BY <1>0, <1>1, <1>7, <2>1, SmallFrame DEF InstallApproved
<1>8. CASE RecordRestart \/ CloseRestart
  <2>1. /\ UNCHANGED <<kind, force, live, wanted, faults>> /\ backup' \in {0, backup}
        /\ reports' \in {reports, Reported("succeeded"), Reported("recovered")}
    BY <1>8 DEF RecordRestart, CloseRestart, disk
  <2> QED
    BY <1>0, <1>1, <2>1, SmallFrame
<1> QED
  BY <1>2, <1>3, <1>4, <1>5, <1>6, <1>7, <1>8 DEF Guard, Recover, Restart

LEMMA EnvironmentSmall == IInv /\ Environment => Small'
<1> SUFFICES ASSUME IInv, Environment PROVE Small'
  OBVIOUS
<1>1. /\ UNCHANGED <<kind, force, live, backup, wanted, reports>>
      /\ restart' \in {restart, "none"}
  BY DEF Environment, AgentDies, Reboot, ProcessDies, GoesSilent, Drains, disk
<1>2. faults' = faults \/ \E f : Fault(f)
  BY DEF Environment, AgentDies, Reboot, ProcessDies, GoesSilent, Drains
<1>3. restart' \in Restarts
  BY <1>1, SmallFacts DEF Restarts
<1> QED
  BY <1>1, <1>2, <1>3, SmallFacts, SmallFrame

LEMMA SmallKept == IInv /\ [Next]_vars => Small'
<1>1. IInv /\ UNCHANGED vars => Small'
  BY SmallFacts DEF Small, vars, disk
<1> QED
  BY <1>1, ExecuteSmall, HandlersSmall, EnvironmentSmall DEF Next

----------------------------------------------------------------------------
(* The identities in the files and in the executor's hands.                 *)

LEMMA RowsWiden ==
    ASSUME NEW n \in Nat, NEW m \in Nat, n <= m
    PROVE  /\ 0 .. n \subseteq 0 .. m
           /\ RuntimeRow(n) \subseteq RuntimeRow(m)
           /\ RecoveryRow(n) \subseteq RecoveryRow(m)
           /\ ExRow(n) \subseteq ExRow(m)
<1>1. 0 .. n \subseteq 0 .. m
  OBVIOUS
<1>2. RuntimeRow(n) \subseteq RuntimeRow(m)
  BY <1>1 DEF RuntimeRow
<1>3. RecoveryRow(n) \subseteq RecoveryRow(m)
  BY <1>1 DEF RecoveryRow
<1>4. ExRow(n) \subseteq ExRow(m)
  BY <1>1 DEF ExRow
<1> QED
  BY <1>1, <1>2, <1>3, <1>4

LEMMA Widened ==
    ASSUME IInv, [Next]_vars
    PROVE  /\ Len(gen) \in Nat /\ Len(gen') \in Nat /\ Len(gen) <= Len(gen')
           /\ 0 .. Len(gen) \subseteq 0 .. Len(gen')
           /\ runtime \in RuntimeRow(Len(gen')) /\ recovery \in RecoveryRow(Len(gen'))
           /\ ex \in ExRow(Len(gen'))
           /\ NoRuntime \in RuntimeRow(Len(gen')) /\ NoRecovery \in RecoveryRow(Len(gen'))
           /\ Rest \in ExRow(Len(gen'))
<1>1. Len(gen) \in Nat /\ Len(gen') \in Nat /\ Len(gen) <= Len(gen')
  BY Identities, GensEvolve DEF Gens, Evolves
<1>2. /\ runtime \in RuntimeRow(Len(gen)) /\ recovery \in RecoveryRow(Len(gen))
      /\ ex \in ExRow(Len(gen))
  BY Identities DEF Named
<1>3. NoRuntime \in RuntimeRow(Len(gen')) /\ Rest \in ExRow(Len(gen'))
  BY <1>1 DEF NoRuntime, RuntimeRow, Rest, ExRow, Steps
<1>4. NoRecovery \in RecoveryRow(Len(gen'))
  BY <1>1, SmallFacts DEF NoRecovery, RecoveryRow
<1> QED
  BY <1>1, <1>2, <1>3, <1>4, RowsWiden

\* How the executor moves on.
Proceeds ==
    \/ ex' = Rest
    \/ \E pc \in Steps, r, f \in BOOLEAN :
          ex' = [ex EXCEPT !.pc = pc, !.replaced = r, !.failed = f]
    \/ \E pc \in Steps :
          /\ ex' = [ex EXCEPT !.pc = pc, !.cand = Len(gen) + 1]
          /\ Len(gen') = Len(gen) + 1

LEMMA StepProceeds ==
    ASSUME IInv, NEW pc \in Steps,
           \/ ex' = [ex EXCEPT !.pc = pc]
           \/ ex' = [ex EXCEPT !.pc = pc, !.replaced = TRUE]
           \/ \E f \in BOOLEAN : ex' = [ex EXCEPT !.pc = pc, !.failed = f]
    PROVE  Proceeds
<1>1. ex \in ExRow(Len(gen))
  BY Identities DEF Named
<1>2. \E r, f \in BOOLEAN : ex' = [ex EXCEPT !.pc = pc, !.replaced = r, !.failed = f]
  <2>0. ex.replaced \in BOOLEAN /\ ex.failed \in BOOLEAN
    BY <1>1 DEF ExRow
  <2>1. CASE ex' = [ex EXCEPT !.pc = pc]
    <3>1. ex' = [ex EXCEPT !.pc = pc, !.replaced = ex.replaced, !.failed = ex.failed]
      BY <1>1, <2>1 DEF ExRow
    <3> QED
      BY <2>0, <3>1
  <2>2. CASE ex' = [ex EXCEPT !.pc = pc, !.replaced = TRUE]
    <3>1. ex' = [ex EXCEPT !.pc = pc, !.replaced = TRUE, !.failed = ex.failed]
      BY <1>1, <2>2 DEF ExRow
    <3> QED
      BY <2>0, <3>1
  <2>3. CASE \E f \in BOOLEAN : ex' = [ex EXCEPT !.pc = pc, !.failed = f]
    <3>1. PICK f \in BOOLEAN : ex' = [ex EXCEPT !.pc = pc, !.failed = f]
      BY <2>3
    <3>2. ex' = [ex EXCEPT !.pc = pc, !.replaced = ex.replaced, !.failed = f]
      BY <1>1, <3>1 DEF ExRow
    <3> QED
      BY <2>0, <3>2
  <2> QED
    BY <2>1, <2>2, <2>3
<1> QED
  BY <1>2 DEF Proceeds

LEMMA ExecuteProceeds ==
    ASSUME IInv, Execute, ~Begin
    PROVE  /\ ~Idle /\ Proceeds /\ UNCHANGED recovery
           /\ runtime' \in {runtime, NoRuntime, Own(TRUE)}
<1> USE DEF Steps
<1>0. /\ Gens /\ ex \in ExRow(Len(gen))
  BY Identities DEF Named
<1>f. UNCHANGED recovery
  BY DEF Execute, NotePause, WriteConfig, Register, ReplaceExecutable, Retire, Report, Undone,
         Conclude, RollbackFile, Pause, Launch, Seal, Resume, Drop, Drain, Finish,
         RollbackCandidate, RollbackOld, LeaveDirty, disk
<1>i. ~Idle
  BY DEF Execute, NotePause, WriteConfig, Register, ReplaceExecutable, Retire, Report, Undone,
         Conclude, RollbackFile, Pause, Launch, Seal, Resume, Drop, Drain, Finish,
         RollbackCandidate, RollbackOld, Step, Idle
<1>t. runtime' \in {runtime, NoRuntime, Own(TRUE)}
  BY DEF Execute, NotePause, WriteConfig, Register, ReplaceExecutable, Retire, Report, Undone,
         Conclude, RollbackFile, Pause, Launch, Seal, Resume, Drop, Drain, Finish,
         RollbackCandidate, RollbackOld, LeaveDirty, disk
<1>1. CASE NotePause \/ WriteConfig \/ Register
  <2>1. \E pc \in Steps : ex' = [ex EXCEPT !.pc = pc]
    BY <1>1 DEF NotePause, WriteConfig, Register, Step
  <2> QED
    BY <1>f, <1>i, <1>t, <2>1, StepProceeds
<1>2. CASE ReplaceExecutable
  <2>1. \E pc \in Steps : ex' = [ex EXCEPT !.pc = pc, !.replaced = TRUE]
    BY <1>2 DEF ReplaceExecutable
  <2> QED
    BY <1>f, <1>i, <1>t, <2>1, StepProceeds
<1>3. CASE Report \/ Undone
  <2>1. Proceeds
    BY <1>3 DEF Report, Undone, Conclude, Proceeds
  <2> QED
    BY <1>f, <1>i, <1>t, <2>1
<1>4. ASSUME NEW answer \in Answers, Pause(answer) \/ Seal(answer) \/ Resume(answer)
      PROVE  Proceeds
  <2>1. \E pc \in Steps : ex' = [ex EXCEPT !.pc = pc]
    BY <1>4 DEF Pause, Seal, Resume, Step
  <2> QED
    BY <2>1, StepProceeds
<1>5. ASSUME NEW answer \in Answers, Launch(answer)
      PROVE  Proceeds
  <2>1. CASE answer = "ok"
    <3>1. gen' = Append(gen, Prepared(wanted)) /\ gen \in Seq(GenRow)
      BY <1>0, <1>5, <2>1 DEF Launch, Gens
    <3>2. Len(gen') = Len(gen) + 1
      BY <3>1
    <3>3. ex' = [ex EXCEPT !.pc = "register", !.cand = Len(gen) + 1]
      BY <1>5, <2>1 DEF Launch
    <3> QED
      BY <3>2, <3>3 DEF Proceeds
  <2>2. CASE answer # "ok"
    <3>1. \E pc \in Steps : ex' = [ex EXCEPT !.pc = pc]
      BY <1>5, <2>2 DEF Launch, Step
    <3> QED
      BY <3>1, StepProceeds
  <2> QED
    BY <2>1, <2>2
<1>6. ASSUME NEW answer \in Answers, Drop(answer) \/ Drain(answer) \/ Finish(answer)
      PROVE  Proceeds
  <2>1. ex' = Rest \/ \E pc \in Steps : ex' = [ex EXCEPT !.pc = pc]
    BY <1>6 DEF Drop, Drain, Finish, Step, LeaveDirty
  <2> QED
    BY <2>1, StepProceeds DEF Proceeds
<1>7. ASSUME NEW answer \in Answers, RollbackCandidate(answer)
      PROVE  Proceeds
  <2>1. \/ ex' = Rest
        \/ \E f \in BOOLEAN : ex' = [ex EXCEPT !.pc = "rollback_file", !.failed = f]
    BY <1>7 DEF RollbackCandidate, LeaveDirty
  <2> QED
    BY <2>1, StepProceeds DEF Proceeds
<1>8. CASE RollbackFile
  <2>1. \/ ex' = [ex EXCEPT !.pc = "rollback_old"]
        \/ \E f \in BOOLEAN : ex' = [ex EXCEPT !.pc = "rollback_old", !.failed = f]
    BY <1>8 DEF RollbackFile
  <2> QED
    BY <1>f, <1>i, <1>t, <2>1, StepProceeds
<1>9. ASSUME NEW answer \in Answers, RollbackOld(answer)
      PROVE  Proceeds
  <2>1. ex' = Rest \/ ex' = [ex EXCEPT !.pc = "undone"]
    BY <1>9 DEF RollbackOld
  <2>2. CASE ex' = Rest
    BY <2>2 DEF Proceeds
  <2>3. CASE ex' = [ex EXCEPT !.pc = "undone"]
    BY <2>3, StepProceeds
  <2> QED
    BY <2>1, <2>2, <2>3
<1>10. CASE Retire
  <2>1. ex' = Rest \/ \E pc \in Steps : ex' = [ex EXCEPT !.pc = pc]
    BY <1>10 DEF Retire, Step, LeaveDirty
  <2>2. CASE ex' = Rest
    BY <1>f, <1>i, <1>t, <2>2 DEF Proceeds
  <2>3. CASE \E pc \in Steps : ex' = [ex EXCEPT !.pc = pc]
    BY <1>f, <1>i, <1>t, <2>3, StepProceeds
  <2> QED
    BY <2>1, <2>2, <2>3
<1> QED
  BY <1>f, <1>i, <1>t, <1>1, <1>2, <1>3, <1>4, <1>5, <1>6, <1>7, <1>8, <1>9, <1>10 DEF Execute

LEMMA ServingKnown ==
    ASSUME IInv, AliveGens # {}
    PROVE  Serving \in DOMAIN gen /\ Serving # 0
<1>1. AliveGens \subseteq Nat /\ AliveGens \subseteq DOMAIN gen
  BY Identities, Rows DEF AliveGens
<1>2. \E g \in AliveGens : \A h \in AliveGens : g <= h
  BY <1>1, SmallestNumber
<1>3. Serving \in AliveGens
  BY <1>2 DEF Serving
<1> QED
  BY <1>1, <1>3, Identities, Rows

LEMMA ExecuteNamed == IInv /\ Execute => Named' /\ Agreed'
<1> SUFFICES ASSUME IInv, Execute PROVE Named' /\ Agreed'
  OBVIOUS
<1>0. /\ Len(gen) \in Nat /\ Len(gen') \in Nat /\ Len(gen) <= Len(gen')
      /\ 0 .. Len(gen) \subseteq 0 .. Len(gen')
      /\ runtime \in RuntimeRow(Len(gen')) /\ recovery \in RecoveryRow(Len(gen'))
      /\ ex \in ExRow(Len(gen')) /\ NoRuntime \in RuntimeRow(Len(gen'))
      /\ Rest \in ExRow(Len(gen'))
  BY Widened DEF Next
<1>1. CASE Begin
  <2>1. /\ runtime' = [NoRuntime EXCEPT !.old = Serving] /\ UNCHANGED <<gen, recovery>>
        /\ ex' = [Rest EXCEPT !.pc = "pause", !.old = Serving] /\ ~recovery.on
        /\ Serving \in 0 .. Len(gen') /\ Serving # 0
    BY <1>0, <1>1, ServingKnown, Identities, Rows DEF Begin
  <2>2. Named'
    BY <1>0, <2>1 DEF Named, RuntimeRow, ExRow, NoRuntime, Rest, Steps
  <2>3. Agreed'
    BY <2>1 DEF Agreed, NoRuntime, Rest, Idle
  <2> QED
    BY <2>2, <2>3
<1>2. CASE ~Begin
  <2>1. /\ ~Idle /\ Proceeds /\ UNCHANGED recovery
        /\ runtime' \in {runtime, NoRuntime, Own(TRUE)}
    BY <1>2, ExecuteProceeds
  <2>2. ex.old # 0 /\ ex.cand # ex.old /\ ex.old \in 0 .. Len(gen) /\ ex.cand \in 0 .. Len(gen)
        /\ Agreed
    BY <2>1, Identities DEF IInv, Agreed
  <2>3. /\ Own(TRUE) \in RuntimeRow(Len(gen')) /\ Own(TRUE).old = ex.old
        /\ Own(TRUE).cand = ex.cand
    BY <1>0, <2>2 DEF Own, RuntimeRow
  <2>4. runtime' \in RuntimeRow(Len(gen')) /\ recovery' \in RecoveryRow(Len(gen'))
    BY <1>0, <2>1, <2>3
  <2>5. /\ runtime'.old = 0 => runtime' = NoRuntime
        /\ runtime'.cand # 0 => runtime'.cand # runtime'.old
        /\ runtime'.old \in {0, ex.old}
    <3>1. CASE runtime' = runtime
      BY <2>1, <2>2, <3>1 DEF Agreed
    <3>2. CASE runtime' = NoRuntime
      BY <3>2 DEF NoRuntime
    <3>3. CASE runtime' = Own(TRUE)
      BY <2>2, <2>3, <3>3
    <3> QED
      BY <2>1, <3>1, <3>2, <3>3
  <2>6. CASE ex' = Rest
    <3>1. ex' \in ExRow(Len(gen')) /\ Idle'
      BY <1>0, <2>6 DEF Rest, Idle
    <3> QED
      BY <2>1, <2>2, <2>4, <2>5, <3>1 DEF Named, Agreed
  <2>7. ASSUME NEW pc \in Steps, NEW r \in BOOLEAN, NEW f \in BOOLEAN,
               ex' = [ex EXCEPT !.pc = pc, !.replaced = r, !.failed = f]
        PROVE  Named' /\ Agreed'
    <3>1. ex' \in ExRow(Len(gen')) /\ ex'.old = ex.old /\ ex'.cand = ex.cand
      BY <1>0, <2>7 DEF ExRow
    <3> QED
      BY <2>1, <2>2, <2>4, <2>5, <3>1 DEF Named, Agreed
  <2>8. ASSUME NEW pc \in Steps, ex' = [ex EXCEPT !.pc = pc, !.cand = Len(gen) + 1],
               Len(gen') = Len(gen) + 1
        PROVE  Named' /\ Agreed'
    <3>0. Len(gen) + 1 \in 0 .. Len(gen')
      BY <1>0, <2>8
    <3>1. ex' \in ExRow(Len(gen')) /\ ex'.old = ex.old /\ ex'.cand = Len(gen) + 1
      BY <1>0, <2>8, <3>0 DEF ExRow
    <3>2. ex'.cand # ex'.old
      BY <1>0, <2>2, <3>1
    <3> QED
      BY <2>1, <2>2, <2>4, <2>5, <3>1, <3>2 DEF Named, Agreed
  <2> QED
    BY <2>1, <2>6, <2>7, <2>8 DEF Proceeds
<1> QED
  BY <1>1, <1>2

\* What a handler does to the files.
Handles ==
    /\ ex' = ex \/ ex' = Rest
    /\ \/ runtime' = runtime \/ runtime' = NoRuntime
       \/ /\ runtime # NoRuntime
          /\ \E g \in DOMAIN gen : g # Old /\ runtime' = [runtime EXCEPT !.cand = g]
    /\ \/ recovery' = recovery \/ recovery' = NoRecovery
       \/ /\ runtime # NoRuntime /\ runtime' = runtime
          /\ recovery' \in RecoveryRow(Len(gen)) /\ recovery'.old = Old
          /\ recovery'.img # 0

\* The handlers that write neither the handoff nor a checkpoint.
LEMMA FilesStay ==
    ASSUME \/ ResumeOld \/ PauseOld \/ DropOld \/ ResumeCandidate \/ SealCandidate
           \/ DropCandidate \/ RetireOld \/ InstallCandidate \/ RecordSuccess \/ RestoreImage
           \/ Retry \/ InstallApproved \/ StopLost \/ StopOld \/ Adopt \/ Relaunch
           \/ RecordRestart \/ RestartFails \/ StartXray
    PROVE  UNCHANGED <<kind, force, backup, runtime, recovery, ex, wanted>>
<1> QED
  BY DEF ResumeOld, PauseOld, DropOld, ResumeCandidate, SealCandidate, DropCandidate, RetireOld,
         InstallCandidate, RecordSuccess, RestoreImage, Retry, InstallApproved, StopLost, StopOld,
         Adopt, Relaunch, RecordRestart, RestartFails, StartXray, Control, disk

LEMMA HandlersHandle ==
    ASSUME IInv, Guard \/ Recover \/ Environment \/ UNCHANGED vars
    PROVE  Handles
<1>1. CASE DiscoverCandidate
  <2>1. PICK g \in AliveGens : Unregistered = {g} /\ runtime' = [runtime EXCEPT !.cand = g]
    BY <1>1 DEF DiscoverCandidate
  <2>2. g \in DOMAIN gen /\ g # Old
    BY <2>1 DEF AliveGens, Unregistered
  <2> QED
    BY <1>1, <2>1, <2>2 DEF DiscoverCandidate, Handles
<1>2. CASE \/ ResumeOld \/ PauseOld \/ DropOld \/ ResumeCandidate \/ SealCandidate
           \/ DropCandidate \/ RetireOld \/ InstallCandidate \/ RecordSuccess \/ RestoreImage
           \/ Retry \/ InstallApproved \/ StopLost \/ StopOld \/ Adopt \/ Relaunch
           \/ RecordRestart \/ RestartFails \/ StartXray
  BY <1>2, FilesStay DEF Handles
<1>3. CASE FinishCandidate \/ RestoreOld \/ Abandon \/ RetireUnresponsive
  BY <1>3 DEF FinishCandidate, RestoreOld, Closed, Abandon, RetireUnresponsive, Handles
<1>4. CASE CloseRestart
  BY <1>4 DEF CloseRestart, Handles
<1>5. CASE BeginRecovery \/ BeginUnresponsive
  <2>1. PICK previous \in BOOLEAN, unresponsive \in BOOLEAN : Checkpoint(previous, unresponsive)
    BY <1>5 DEF BeginRecovery, BeginUnresponsive
  <2>2. UNCHANGED <<runtime, ex>> /\ runtime # NoRuntime
    BY <1>5, <2>1 DEF Checkpoint, BeginRecovery, BeginUnresponsive, Observed, Interrupted
  <2>3. PICK img \in Images :
          recovery' = [on |-> TRUE, old |-> Old, cand |-> Cand, previous |-> previous,
                       unresponsive |-> unresponsive, img |-> img]
    BY <2>1, SmallFacts DEF Checkpoint
  <2>4. img \in 0 .. (MaxHandoffs + 1) /\ img # 0
    BY SmallFacts DEF Images
  <2>5. /\ recovery' \in RecoveryRow(Len(gen)) /\ recovery'.old = Old
        /\ recovery'.img # 0
    BY <2>3, <2>4, Identities DEF RecoveryRow, Old, Cand
  <2> QED
    BY <2>2, <2>5 DEF Handles
<1>6. CASE Environment \/ UNCHANGED vars
  BY <1>6 DEF Environment, AgentDies, Reboot, ProcessDies, GoesSilent, Drains, disk, vars, Handles
<1> QED
  BY <1>1, <1>2, <1>3, <1>4, <1>5, <1>6 DEF Guard, Recover, Restart

LEMMA HandlersNamed ==
    ASSUME IInv, Guard \/ Recover \/ Environment \/ UNCHANGED vars
    PROVE  Named' /\ Agreed'
<1>0. /\ Len(gen) \in Nat /\ Len(gen') \in Nat /\ Len(gen) <= Len(gen')
      /\ 0 .. Len(gen) \subseteq 0 .. Len(gen')
      /\ runtime \in RuntimeRow(Len(gen')) /\ recovery \in RecoveryRow(Len(gen'))
      /\ ex \in ExRow(Len(gen')) /\ NoRuntime \in RuntimeRow(Len(gen'))
      /\ NoRecovery \in RecoveryRow(Len(gen')) /\ Rest \in ExRow(Len(gen'))
  BY Widened DEF Next
<1>1. Handles /\ Agreed /\ Old = runtime.old
  BY HandlersHandle DEF IInv, Old
<1>2. ex' \in ExRow(Len(gen'))
  BY <1>0, <1>1 DEF Handles
<1>3. /\ runtime' \in RuntimeRow(Len(gen'))
      /\ runtime'.old = 0 => runtime' = NoRuntime
      /\ runtime'.cand # 0 => runtime'.cand # runtime'.old
      /\ runtime'.old \in {0, runtime.old}
  <2>1. CASE runtime' = runtime \/ runtime' = NoRuntime
    <3>1. CASE runtime' = runtime
      BY <1>0, <1>1, <3>1 DEF Agreed
    <3>2. CASE runtime' = NoRuntime
      BY <1>0, <3>2 DEF NoRuntime
    <3> QED
      BY <2>1, <3>1, <3>2
  <2>2. ASSUME runtime # NoRuntime, NEW g \in DOMAIN gen, g # Old,
               runtime' = [runtime EXCEPT !.cand = g]
        PROVE  /\ runtime' \in RuntimeRow(Len(gen'))
               /\ runtime'.old = 0 => runtime' = NoRuntime
               /\ runtime'.cand # 0 => runtime'.cand # runtime'.old
               /\ runtime'.old \in {0, runtime.old}
    <3>1. g \in 0 .. Len(gen') /\ runtime.old # 0
      BY <1>0, <1>1, <2>2, Identities, Rows DEF Agreed
    <3> QED
      BY <1>0, <1>1, <2>2, <3>1 DEF RuntimeRow
  <2> QED
    BY <1>1, <2>1, <2>2 DEF Handles
<1>4. /\ recovery' \in RecoveryRow(Len(gen'))
      /\ recovery'.on => recovery'.old # 0 /\ recovery'.img # 0
      /\ recovery'.on /\ ~Idle => recovery'.old = ex.old
  <2>1. CASE recovery' = recovery \/ recovery' = NoRecovery
    <3>1. CASE recovery' = recovery
      BY <1>0, <1>1, <3>1 DEF Agreed
    <3>2. CASE recovery' = NoRecovery
      BY <1>0, <3>2 DEF NoRecovery
    <3> QED
      BY <2>1, <3>1, <3>2
  <2>2. CASE runtime # NoRuntime /\ recovery' \in RecoveryRow(Len(gen)) /\ recovery'.old = Old
            /\ recovery'.img # 0
    BY <1>0, <1>1, <2>2, RowsWiden DEF Agreed
  <2> QED
    BY <1>1, <2>1, <2>2 DEF Handles
<1>5. Named'
  BY <1>2, <1>3, <1>4 DEF Named
<1>6. Agreed'
  <2>1. CASE ex' = ex
    BY <1>1, <1>3, <1>4, <2>1 DEF Agreed, Idle
  <2>2. CASE ex' = Rest
    BY <1>3, <1>4, <2>2 DEF Agreed, Idle, Rest
  <2> QED
    BY <1>1, <2>1, <2>2 DEF Handles
<1> QED
  BY <1>5, <1>6

LEMMA NamedKept == IInv /\ [Next]_vars => Named' /\ Agreed'
<1> QED
  BY ExecuteNamed, HandlersNamed DEF Next

\* The lock.
LEMMA LockedKept == IInv /\ [Next]_vars => Locked'
<1> SUFFICES ASSUME IInv, [Next]_vars PROVE Locked'
  OBVIOUS
<1>0. Locked /\ kind' = kind
  <2>1. kind' = kind
    BY DEF Next, Execute, Begin, NotePause, WriteConfig, Register, ReplaceExecutable, Retire, Report,
           Undone, Conclude, RollbackFile, Pause, Launch, Seal, Resume, Drop, Drain, Finish,
           RollbackCandidate, RollbackOld, Guard, Recover, Restart, DiscoverCandidate, ResumeOld,
           PauseOld, DropOld, ResumeCandidate, SealCandidate, DropCandidate, RetireOld,
           InstallCandidate, RecordSuccess, RestoreImage, FinishCandidate, RestoreOld, Closed,
           Abandon, RetireUnresponsive, BeginRecovery, BeginUnresponsive, Checkpoint, Retry,
           InstallApproved, StopLost, StopOld, Adopt, Relaunch, RecordRestart, CloseRestart,
           RestartFails, StartXray, Control, Environment, AgentDies, Reboot, ProcessDies,
           GoesSilent, Drains, vars
  <2> QED
    BY <2>1 DEF IInv
<1>x. ex \in ExRow(Len(gen))
  BY Identities DEF Named
<1>1. CASE Execute
  <2>1. restart' = restart
    BY <1>1 DEF Execute
  <2>2. CASE restart = "none"
    BY <2>1, <2>2 DEF Locked
  <2>3. CASE restart # "none"
    <3>1. recovery' = recovery /\ ~Begin
      BY <1>1, <2>3, ExecuteProceeds DEF Begin
    <3>2. ex.pc \in {"pause", "drain", "retire", "report", "undone"} /\ kind = "binary"
      BY <1>0, <1>1, <2>3, <3>1, ExecuteProceeds DEF Locked
    <3>3. Report \/ Undone \/ \E answer \in Answers : Drain(answer)
      BY <1>1, <2>3, <3>1, <3>2 DEF Execute, NotePause, WriteConfig, Register, ReplaceExecutable,
         Retire, RollbackFile, Pause, Launch, Seal, Resume, Drop, Finish, RollbackCandidate,
         RollbackOld, Step
    <3>4. ex' = Rest \/ ex' = [ex EXCEPT !.pc = "retire"]
      BY <3>3 DEF Report, Undone, Conclude, Drain, LeaveDirty
    <3>5. ex'.pc \in {"idle", "retire"}
      BY <1>x, <3>4 DEF ExRow, Rest
    <3> QED
      BY <1>0, <2>1, <3>1, <3>2, <3>5 DEF Locked, Idle
  <2> QED
    BY <2>2, <2>3
<1>2. CASE BeginRecovery \/ BeginUnresponsive
  <2>1. recovery'.on /\ LockFree /\ ex' = ex
    BY <1>2 DEF BeginRecovery, BeginUnresponsive, Checkpoint, Observed, Interrupted
  <2> QED
    BY <1>0, <2>1 DEF Locked, LockFree, Idle
<1>3. CASE Retry
  BY <1>0, <1>3, FilesStay DEF Retry, Locked, LockFree, Idle
<1>4. CASE InstallApproved \/ StopLost \/ StopOld \/ Adopt \/ Relaunch \/ RecordRestart
  <2>1. restart \notin {"none", "discard"} /\ restart' # "none"
    BY <1>4 DEF InstallApproved, StopLost, StopOld, Adopt, Relaunch, RecordRestart, RestartStep
  <2> QED
    BY <1>0, <1>4, <2>1, FilesStay DEF Locked, Idle
<1>5. CASE CloseRestart
  BY <1>0, <1>5 DEF CloseRestart, RestartStep, Locked, Idle
<1>6. CASE RestartFails
  BY <1>6 DEF RestartFails, Locked
<1>7. CASE (Guard \/ Recover) /\ ~Restart
  <2>1. UNCHANGED <<restart, recovery, ex>>
    BY <1>7 DEF Guard, Recover, DiscoverCandidate, ResumeOld, PauseOld, DropOld, ResumeCandidate,
       SealCandidate, DropCandidate, RetireOld, InstallCandidate, RecordSuccess, RestoreImage,
       FinishCandidate, RestoreOld, Closed, Abandon, RetireUnresponsive, StartXray, Control, disk
  <2> QED
    BY <1>0, <2>1 DEF Locked, Idle
<1>8. CASE Environment
  <2>1. recovery' = recovery /\ (restart' = "none" \/ UNCHANGED <<restart, ex>>)
    BY <1>8 DEF Environment, AgentDies, Reboot, ProcessDies, GoesSilent, Drains, disk
  <2> QED
    BY <1>0, <2>1 DEF Locked, Idle
<1>9. CASE UNCHANGED vars
  BY <1>0, <1>9 DEF vars, disk, Locked, Idle
<1> QED
  BY <1>1, <1>2, <1>3, <1>4, <1>5, <1>6, <1>7, <1>8, <1>9 DEF Next, Guard, Recover, Restart

----------------------------------------------------------------------------
(* What goes on beside a restart.                                           *)

\* The other handlers wait for the lock.
LEMMA Waiting ==
    ASSUME Guard \/ Recover, ~Restart
    PROVE  LockFree /\ restart = "none" /\ restart' = "none"
<1>1. LockFree /\ restart' = restart
  BY DEF Guard, Recover, DiscoverCandidate, ResumeOld, PauseOld, DropOld, ResumeCandidate,
         SealCandidate, DropCandidate, RetireOld, InstallCandidate, RecordSuccess, RestoreImage,
         FinishCandidate, RestoreOld, Staying, Left, Observed, Interrupted, Abandon,
         RetireUnresponsive, StartXray
<1> QED
  BY <1>1 DEF LockFree

\* Beside a restart the executor only looks on, and the environment acts.
Beside ==
    /\ UNCHANGED <<kind, restart, recovery, live>>
    /\ kind = "config" => UNCHANGED <<runtime, backup>>
    /\ ex' = ex \/ ex'.pc \in {"idle", "retire"}
    /\ UNCHANGED gen \/ Environment

LEMMA Meanwhile ==
    ASSUME IInv, [Next]_vars, restart # "none", ~Restart
    PROVE  restart' = "none" \/ Beside
<1>0. /\ ex \in ExRow(Len(gen))
      /\ Idle \/ (kind = "binary" /\ ex.pc \in {"pause", "drain", "retire", "report", "undone"})
  BY Identities DEF Named, IInv, Locked
<1>1. CASE Execute
  <2>1. ~Idle /\ ~Begin
    BY <1>1, ExecuteProceeds DEF Begin
  <2>2. kind = "binary" /\ ex.pc \in {"pause", "drain", "retire", "report", "undone"}
    BY <1>0, <2>1
  <2>3. Report \/ Undone \/ \E answer \in Answers : Drain(answer)
    BY <1>1, <2>1, <2>2 DEF Execute, NotePause, WriteConfig, Register, ReplaceExecutable,
         Retire, RollbackFile, Pause, Launch, Seal, Resume, Drop, Finish, RollbackCandidate,
         RollbackOld, Step
  <2>4. /\ UNCHANGED <<kind, recovery, live, gen>>
        /\ ex' = Rest \/ ex' = [ex EXCEPT !.pc = "retire"]
    BY <2>3 DEF Report, Undone, Conclude, Drain, LeaveDirty
  <2>5. ex'.pc \in {"idle", "retire"}
    BY <1>0, <2>4 DEF ExRow, Rest
  <2>6. restart' = restart
    BY <1>1 DEF Execute
  <2> QED
    BY <2>2, <2>4, <2>5, <2>6 DEF Beside
<1>2. CASE Guard \/ Recover
  BY <1>2, Waiting
<1>3. CASE Environment
  BY <1>3 DEF Environment, AgentDies, Reboot, ProcessDies, GoesSilent, Drains, disk, Beside
<1>4. CASE UNCHANGED vars
  BY <1>4 DEF vars, disk, Beside
<1> QED
  BY <1>1, <1>2, <1>3, <1>4 DEF Next

LEMMA StoppedKept == IInv /\ [Next]_vars => Stopped'
<1> SUFFICES ASSUME IInv, [Next]_vars PROVE Stopped'
  OBVIOUS
<1>0. Stopped /\ Agreed /\ Locked /\ Gens /\ Evolves
  BY GensEvolve DEF IInv
<1>d. \A g \in DOMAIN gen : ~gen[g].alive => ~gen'[g].alive
  BY <1>0 DEF Evolves, Later
<1>q. CASE restart' \in {"none", "image", "stop_lost", "stop_old"}
  BY <1>q DEF Stopped
<1>1. CASE restart = "none" /\ ~Restart
  <2>1. restart' = "none"
    BY <1>1, Waiting DEF Next, Execute, Environment, AgentDies, Reboot, ProcessDies, GoesSilent,
       Drains, vars
  <2> QED
    BY <1>q, <2>1
<1>2. CASE restart # "none" /\ ~Restart
  <2>1. CASE restart' = "none"
    BY <1>q, <2>1
  <2>2. CASE Beside /\ restart \notin {"none", "image", "stop_lost", "stop_old"}
    <3>1. restart # "discard" => recovery.old \in DOMAIN gen
      BY <2>2, Underway
    <3>2. ex'.pc = "pause" => ex' = ex /\ ex.old \in DOMAIN gen
      <4>1. CASE ex' = ex
        BY <4>1, Identities DEF Idle
      <4>2. CASE ex'.pc \in {"idle", "retire"}
        BY <4>2
      <4> QED
        BY <2>2, <4>1, <4>2 DEF Beside
    <3> QED
      BY <1>0, <1>d, <2>2, <3>1, <3>2 DEF Beside, Stopped
  <2> QED
    BY <1>2, <1>q, <2>1, <2>2, Meanwhile DEF Beside
<1>3. CASE Restart
  <2>1. CASE BeginRecovery \/ BeginUnresponsive \/ Retry \/ InstallApproved \/ StopLost
             \/ RestartFails
    BY <1>q, <2>1 DEF BeginRecovery, BeginUnresponsive, Checkpoint, Retry, InstallApproved,
       StopLost, RestartFails, RestartStep
  <2>2. CASE StopOld
    <3>1. recovery.old \in DOMAIN gen /\ recovery' = recovery /\ restart' = "launch"
      BY <2>2, Underway, FilesStay DEF StopOld, RestartStep
    <3>2. ~gen'[recovery.old].alive
      BY <1>0, <2>2, <3>1, Rows, CallRows DEF StopOld, Killed
    <3> QED
      BY <3>1, <3>2 DEF Stopped
  <2>3. CASE Adopt \/ Relaunch \/ RecordRestart
    <3>1. /\ recovery.old \in DOMAIN gen /\ recovery.old # 0 /\ recovery' = recovery
          /\ restart' \in {"record", "unlink"}
      BY <1>0, <2>3, Underway, FilesStay DEF Adopt, Relaunch, RecordRestart, RestartStep, Agreed
    <3>2. ~gen[recovery.old].alive
      BY <1>0, <2>3, <3>1 DEF Adopt, Adoptable, Relaunch, RecordRestart, RestartStep, Stopped,
         Alive
    <3> QED
      BY <1>d, <3>1, <3>2 DEF Stopped
  <2>4. CASE CloseRestart
    <3>1. UNCHANGED <<gen, ex, kind>>
      BY <2>4 DEF CloseRestart
    <3>2. CASE restart = "unlink"
      BY <1>0, <2>4, <3>1, <3>2 DEF CloseRestart, RestartStep, Stopped
    <3>3. CASE restart = "close"
      <4>1. recovery.on /\ restart' = "discard" /\ runtime' = runtime
        BY <1>0, <2>4, <3>3 DEF CloseRestart, RestartStep, Locked
      <4>2. ex.pc = "pause" => recovery.old = ex.old
        BY <1>0, <4>1 DEF Agreed, Idle
      <4> QED
        BY <1>0, <3>1, <3>3, <4>1, <4>2 DEF Stopped
    <3>4. CASE restart = "discard"
      BY <1>q, <2>4, <3>4 DEF CloseRestart, RestartStep
    <3> QED
      BY <2>4, <3>2, <3>3, <3>4 DEF CloseRestart, RestartStep
  <2> QED
    BY <1>3, <2>1, <2>2, <2>3, <2>4 DEF Restart
<1> QED
  BY <1>1, <1>2, <1>3

----------------------------------------------------------------------------
(* The backup.                                                              *)

LEMMA RestBacked ==
    ASSUME kind' = kind, ex' = Rest, kind = "config" /\ runtime' # NoRuntime => backup' # 0
    PROVE  Backed'
<1> QED
  BY DEF Backed, Rest, Idle, NoRuntime

\* The executor goes on with the backup it has.
LEMMA GoesOnBacked ==
    ASSUME IInv, UNCHANGED <<kind, backup, recovery>>, backup # 0, ex'.pc # "pause", ~Idle,
           kind = "config" =>
              /\ ex'.pc \notin {"replace", "drain", "retire", "finish", "report"}
              /\ ex'.pc = "undone" => runtime' = NoRuntime
    PROVE  Backed'
<1>1. kind = "config" => ~recovery.on
  BY DEF IInv, Backed
<1> QED
  BY <1>1 DEF Backed

LEMMA ExecuteBacked == IInv /\ Execute => Backed'
<1> SUFFICES ASSUME IInv, Execute PROVE Backed'
  OBVIOUS
<1>0. Backed /\ ex \in ExRow(Len(gen))
  BY Identities DEF IInv, Named
<1>1. CASE Begin
  <2>1. /\ backup' # 0 /\ kind' = kind /\ recovery' = recovery /\ ~recovery.on
        /\ ~runtime'.paused /\ ex'.pc = "pause" /\ ~ex'.replaced
    BY <1>1, SmallFacts, HandoffAssumption DEF Begin, NoRuntime, Rest, Images
  <2> QED
    BY <2>1 DEF Backed
<1>2. ASSUME NEW answer \in Answers, Pause(answer)
      PROVE  Backed'
  <2>0. ex.pc = "pause" /\ UNCHANGED <<kind, backup, recovery, runtime>> /\ ~Idle
    BY <1>2 DEF Pause, Step, disk, Idle
  <2>1. CASE answer = "ok"
    <3>1. Reachable(ex.old)
      BY <1>2, <2>1, RpcFacts, Identities DEF Pause
    <3>2. backup # 0
      BY <1>0, <2>0, <3>1 DEF Backed, Reachable, Alive
    <3>3. ex'.pc = "note"
      BY <1>0, <1>2, <2>1 DEF Pause, Step, ExRow
    <3> QED
      BY <2>0, <3>2, <3>3, GoesOnBacked
  <2>2. CASE answer # "ok"
    <3>1. ex'.pc = "rollback" /\ ~ex'.replaced
      BY <1>0, <1>2, <2>0, <2>2 DEF Pause, Step, ExRow, Backed
    <3> QED
      BY <1>0, <2>0, <3>1 DEF Backed, Idle
  <2> QED
    BY <2>1, <2>2
<1>3. CASE NotePause \/ WriteConfig \/ Register \/ ReplaceExecutable
  <2>0. /\ UNCHANGED <<kind, backup, recovery>> /\ ~Idle
        /\ ex.pc \in {"note", "write", "register", "replace"}
    BY <1>3 DEF NotePause, WriteConfig, Register, ReplaceExecutable, Step, Idle
  <2>1. ex'.pc \in {"write", "launch", "seal", "resume", "rollback"}
    BY <1>0, <1>3 DEF NotePause, WriteConfig, Register, ReplaceExecutable, Step, ExRow
  <2> QED
    BY <1>0, <2>0, <2>1, GoesOnBacked DEF Backed
<1>4. ASSUME NEW answer \in Answers, Launch(answer) \/ Seal(answer) \/ Resume(answer)
      PROVE  Backed'
  <2>0. /\ UNCHANGED <<kind, backup, recovery>> /\ ex.pc \in {"launch", "seal", "resume"} /\ ~Idle
    BY <1>4 DEF Launch, Seal, Resume, Step, disk, Idle
  <2>1. /\ ex'.pc \in {"register", "replace", "resume", "drop", "rollback"}
        /\ ex'.pc = "replace" => kind # "config"
    BY <1>0, <1>4, <2>0 DEF Launch, Seal, Resume, Step, ExRow
  <2> QED
    BY <1>0, <2>0, <2>1, GoesOnBacked DEF Backed
<1>5. ASSUME NEW answer \in Answers, Drop(answer)
      PROVE  Backed'
  <2>0. UNCHANGED <<kind, backup, recovery>> /\ ex.pc = "drop" /\ backup # 0 /\ ~Idle
    BY <1>0, <1>5 DEF Drop, Backed, Idle
  <2>1. CASE ex' = Rest
    BY <2>0, <2>1, RestBacked
  <2>2. CASE ex' # Rest
    <3>1. kind # "config" /\ ex' = [ex EXCEPT !.pc = "drain"]
      BY <1>5, <2>2 DEF Drop, LeaveDirty
    <3>2. ex'.pc = "drain"
      BY <1>0, <3>1 DEF ExRow
    <3> QED
      BY <2>0, <3>1, <3>2, GoesOnBacked
  <2> QED
    BY <2>1, <2>2
<1>6. CASE Retire \/ Report \/ \E answer \in Answers : Drain(answer) \/ Finish(answer)
  <2>0. kind' = kind /\ ex.pc \in {"drain", "retire", "finish", "report"}
    BY <1>6 DEF Retire, Report, Conclude, Drain, Finish
  <2>1. kind # "config"
    BY <1>0, <2>0 DEF Backed, Idle
  <2>2. ex' = Rest \/ \E pc \in {"retire", "finish", "report"} : ex' = [ex EXCEPT !.pc = pc]
    BY <1>6 DEF Retire, Report, Conclude, Drain, Finish, Step, LeaveDirty
  <2>3. CASE ex' = Rest
    BY <2>0, <2>1, <2>3, RestBacked
  <2>4. CASE ex' # Rest
    <3>1. ex'.pc \in {"retire", "finish", "report"}
      BY <1>0, <2>2, <2>4 DEF ExRow
    <3> QED
      BY <2>0, <2>1, <3>1 DEF Backed
  <2> QED
    BY <2>3, <2>4
<1>7. CASE RollbackFile \/ \E answer \in Answers : RollbackCandidate(answer)
  <2>0. /\ UNCHANGED <<kind, backup, recovery>> /\ ex.pc \in {"rollback", "rollback_file"} /\ ~Idle
        /\ kind = "config" => backup # 0 /\ ~recovery.on
    BY <1>0, <1>7 DEF RollbackFile, RollbackCandidate, Backed, Idle
  <2>1. CASE ex' = Rest
    BY <2>0, <2>1, RestBacked
  <2>2. CASE ex' # Rest
    <3>1. \E pc \in {"rollback_file", "rollback_old"}, f \in BOOLEAN :
             ex' = [ex EXCEPT !.pc = pc] \/ ex' = [ex EXCEPT !.pc = pc, !.failed = f]
      BY <1>7, <2>2 DEF RollbackFile, RollbackCandidate, LeaveDirty
    <3>2. ex'.pc \in {"rollback_file", "rollback_old"} /\ ex'.replaced = ex.replaced
      BY <1>0, <3>1 DEF ExRow
    <3> QED
      BY <1>0, <2>0, <3>2 DEF Backed
  <2> QED
    BY <2>1, <2>2
<1>8. ASSUME NEW answer \in Answers, RollbackOld(answer)
      PROVE  Backed'
  <2>1. /\ UNCHANGED <<kind, backup, recovery>>
        /\ kind = "config" => backup # 0 /\ ~recovery.on
        /\ ex' = Rest \/ (ex' = [ex EXCEPT !.pc = "undone"] /\ runtime' = NoRuntime)
    BY <1>0, <1>8 DEF RollbackOld, Backed, Idle
  <2>2. CASE ex' = Rest
    BY <2>1, <2>2, RestBacked
  <2>3. CASE ex' # Rest
    <3>1. ex'.pc = "undone" /\ runtime' = NoRuntime
      BY <1>0, <2>1, <2>3 DEF ExRow
    <3> QED
      BY <2>1, <3>1 DEF Backed
  <2> QED
    BY <2>2, <2>3
<1>9. CASE Undone
  <2>1. kind' = kind /\ ex' = Rest /\ runtime' = runtime /\ (kind = "config" => runtime = NoRuntime)
    BY <1>0, <1>9 DEF Undone, Conclude, Backed
  <2> QED
    BY <2>1, RestBacked
<1> QED
  BY <1>1, <1>2, <1>3, <1>4, <1>5, <1>6, <1>7, <1>8, <1>9 DEF Execute

\* A handler leaves the executor where it is, with the backup it may need.
LEMMA StaysBacked ==
    ASSUME IInv, [Next]_vars, UNCHANGED <<kind, backup>>, ex' = ex,
           runtime'.paused => runtime.paused,
           kind = "config" =>
              /\ runtime' # NoRuntime => runtime # NoRuntime
              /\ ~Idle => ~recovery'.on
    PROVE  Backed'
<1>0. Backed /\ Evolves
  BY GensEvolve DEF IInv
<1>1. ~Idle /\ gen'[ex.old].alive => gen[ex.old].alive
  BY <1>0, Identities DEF Evolves, Later
<1>2. ex.pc = "pause" => backup # 0 \/ ~gen'[ex.old].alive
  BY <1>0, <1>1 DEF Backed, Idle
<1> QED
  BY <1>0, <1>2 DEF Backed, Idle

LEMMA HandlersBacked == IInv /\ (Guard \/ Recover) => Backed'
<1> SUFFICES ASSUME IInv, Guard \/ Recover PROVE Backed'
  OBVIOUS
<1>0. [Next]_vars /\ Backed /\ Locked
  BY DEF IInv, Next
<1>1. CASE DiscoverCandidate
  <2>1. /\ UNCHANGED <<kind, backup, recovery, ex>> /\ runtime # NoRuntime
        /\ \E g \in AliveGens : runtime' = [runtime EXCEPT !.cand = g]
    BY <1>1 DEF DiscoverCandidate
  <2>2. runtime'.paused = runtime.paused
    BY <2>1, Identities DEF Named, RuntimeRow
  <2> QED
    BY <1>0, <2>1, <2>2, StaysBacked DEF Backed
<1>2. CASE \/ ResumeOld \/ PauseOld \/ DropOld \/ ResumeCandidate \/ SealCandidate
           \/ DropCandidate \/ RetireOld \/ InstallCandidate \/ RecordSuccess \/ RestoreImage
           \/ Retry \/ InstallApproved \/ StopLost \/ StopOld \/ Adopt \/ Relaunch
           \/ RecordRestart \/ RestartFails \/ StartXray
  BY <1>0, <1>2, FilesStay, StaysBacked DEF Backed
<1>3. CASE FinishCandidate \/ RestoreOld \/ Abandon
  <2>1. Idle /\ runtime' = NoRuntime /\ UNCHANGED <<kind, ex>>
    BY <1>3 DEF FinishCandidate, RestoreOld, Abandon, Closed, Left, Staying
  <2> QED
    BY <2>1 DEF Backed, Idle
<1>4. CASE BeginRecovery \/ BeginUnresponsive
  <2>1. /\ UNCHANGED <<kind, backup, runtime, ex>>
        /\ kind = "config" => Idle
    BY <1>4 DEF BeginRecovery, BeginUnresponsive, Checkpoint, Observed, Interrupted, LockFree
  <2> QED
    BY <1>0, <2>1, StaysBacked
<1>5. CASE RetireUnresponsive
  <2>0. UNCHANGED <<kind, ex>> /\ LockFree /\ runtime.paused /\ runtime # NoRuntime
    BY <1>5 DEF RetireUnresponsive, Interrupted, CanTakeOver
  <2>1. Idle \/ (kind = "binary" /\ ex.pc \in {"drain", "retire", "report", "undone"})
    BY <1>0, <2>0 DEF LockFree, Backed
  <2>2. runtime' # NoRuntime => backup' = backup
    BY <1>5, <2>0 DEF RetireUnresponsive
  <2> QED
    BY <1>0, <2>0, <2>1, <2>2 DEF Backed, Idle
<1>6. CASE CloseRestart
  <2>1. UNCHANGED <<kind, gen, ex>> /\ restart # "none"
    BY <1>6 DEF CloseRestart, RestartStep
  <2>2. Idle \/ (kind = "binary" /\ ex.pc \in {"pause", "drain", "retire", "report", "undone"})
    BY <1>0, <2>1 DEF Locked
  <2>3. /\ kind = "config" /\ runtime' # NoRuntime => backup' # 0
        /\ ex.pc = "pause" => backup' # 0 \/ ~gen[ex.old].alive
        /\ runtime'.paused => runtime.paused
    BY <1>0, <1>6 DEF CloseRestart, RestartStep, Backed, IInv, Stopped, NoRuntime
  <2> QED
    BY <1>0, <2>1, <2>2, <2>3 DEF Backed, Idle
<1> QED
  BY <1>1, <1>2, <1>3, <1>4, <1>5, <1>6 DEF Guard, Recover, Restart

LEMMA BackedKept == IInv /\ [Next]_vars => Backed'
<1>1. ASSUME IInv, Environment \/ UNCHANGED vars
      PROVE  Backed'
  <2>0. [Next]_vars /\ Backed
    BY <1>1 DEF IInv, Next
  <2>1. UNCHANGED <<kind, backup, runtime, recovery>> /\ (ex' = ex \/ ex' = Rest)
    BY <1>1 DEF Environment, AgentDies, Reboot, ProcessDies, GoesSilent, Drains, disk, vars
  <2>2. CASE ex' = ex
    BY <1>1, <2>0, <2>1, <2>2, StaysBacked DEF Backed
  <2>3. CASE ex' = Rest
    BY <2>0, <2>1, <2>3, RestBacked DEF Backed
  <2> QED
    BY <2>1, <2>2, <2>3
<1> QED
  BY <1>1, ExecuteBacked, HandlersBacked DEF Next

----------------------------------------------------------------------------
(* The generation that drains.                                              *)

LEMMA ExecuteDrained == IInv /\ Execute => Drained'
<1> SUFFICES ASSUME IInv, Execute PROVE Drained'
  OBVIOUS
<1>0. ex \in ExRow(Len(gen)) /\ Drained /\ Gens
  BY Identities DEF IInv, Named
<1>1. CASE ex'.pc \notin {"drain", "retire"}
  BY <1>1 DEF Drained
<1>2. ASSUME NEW answer \in Answers, Drop(answer)
      PROVE  Drained'
  <2>1. CASE ex' = Rest
    BY <2>1 DEF Drained, Rest
  <2>2. CASE ex' # Rest
    <3>1. answer # "fail" /\ ex' = [ex EXCEPT !.pc = "drain"] /\ ex.old \in DOMAIN gen
      BY <1>2, <2>2, Identities DEF Drop, LeaveDirty, Idle
    <3>2. gen' = [gen EXCEPT ![ex.old] = Detached(ex.old)] /\ ex'.pc = "drain" /\ ex'.old = ex.old
      BY <1>0, <1>2, <3>1 DEF Drop, Changed, ExRow
    <3>3. gen'[ex.old].dropped
      BY <1>0, <3>1, <3>2, Rows, CallAlive
    <3> QED
      BY <3>2, <3>3 DEF Drained
  <2> QED
    BY <2>1, <2>2
<1>3. ASSUME NEW answer \in Answers, Drain(answer)
      PROVE  Drained'
  <2>1. CASE ex' = Rest
    BY <2>1 DEF Drained, Rest
  <2>2. CASE ex' # Rest
    <3>1. /\ ex' = [ex EXCEPT !.pc = "retire"] /\ UNCHANGED <<gen, force>> /\ ex.pc = "drain"
          /\ ~gen[ex.old].busy \/ force
      BY <1>3, <2>2 DEF Drain, LeaveDirty
    <3>2. ex'.old = ex.old
      BY <1>0, <3>1 DEF ExRow
    <3> QED
      BY <1>0, <3>1, <3>2 DEF Drained
  <2> QED
    BY <2>1, <2>2
<1>4. ASSUME ~\E answer \in Answers : Drop(answer) \/ Drain(answer)
      PROVE  ex'.pc \notin {"drain", "retire"}
  <2>1. \/ ex' = Rest
        \/ \E pc \in Steps \ {"drain", "retire"}, r \in BOOLEAN, f \in BOOLEAN, c \in Nat :
              \/ ex' = [ex EXCEPT !.pc = pc]
              \/ ex' = [ex EXCEPT !.pc = pc, !.replaced = r]
              \/ ex' = [ex EXCEPT !.pc = pc, !.failed = f]
              \/ ex' = [ex EXCEPT !.pc = pc, !.cand = c]
              \/ ex' = [Rest EXCEPT !.pc = pc, !.old = Serving]
    <3>1. Len(gen) + 1 \in Nat
      BY <1>0, Rows
    <3>2. CASE Begin \/ NotePause \/ WriteConfig \/ Register \/ Report \/ Undone
      BY <3>2 DEF Begin, NotePause, WriteConfig, Register, Report, Undone, Conclude, Step, Steps
    <3>3. CASE ReplaceExecutable \/ RollbackFile \/ Retire
      BY <3>3 DEF ReplaceExecutable, RollbackFile, Retire, LeaveDirty, Step, Steps
    <3>4. ASSUME NEW answer \in Answers, \/ Pause(answer) \/ Launch(answer) \/ Seal(answer)
                 \/ Resume(answer) \/ Finish(answer)
          PROVE  \/ ex' = Rest
                 \/ \E pc \in Steps \ {"drain", "retire"} :
                       ex' = [ex EXCEPT !.pc = pc]
                       \/ ex' = [ex EXCEPT !.pc = pc, !.cand = Len(gen) + 1]
      BY <3>4 DEF Pause, Launch, Seal, Resume, Finish, LeaveDirty, Step, Steps
    <3>5. ASSUME NEW answer \in Answers, RollbackCandidate(answer) \/ RollbackOld(answer)
          PROVE  \/ ex' = Rest
                 \/ \E pc \in Steps \ {"drain", "retire"}, f \in BOOLEAN :
                       ex' = [ex EXCEPT !.pc = pc] \/ ex' = [ex EXCEPT !.pc = pc, !.failed = f]
      BY <3>5 DEF RollbackCandidate, RollbackOld, LeaveDirty, Step, Steps
    <3>6. Execute => \/ Begin \/ NotePause \/ WriteConfig \/ Register \/ Report \/ Undone
                     \/ ReplaceExecutable \/ RollbackFile \/ Retire
                     \/ \E answer \in Answers :
                           \/ Pause(answer) \/ Launch(answer) \/ Seal(answer) \/ Resume(answer)
                           \/ Finish(answer) \/ Drop(answer) \/ Drain(answer)
                           \/ RollbackCandidate(answer) \/ RollbackOld(answer)
      BY DEF Execute
    <3>7. CASE \E answer \in Answers : \/ Pause(answer) \/ Launch(answer) \/ Seal(answer)
                                       \/ Resume(answer) \/ Finish(answer)
      BY <3>1, <3>4, <3>7
    <3>8. CASE \E answer \in Answers : RollbackCandidate(answer) \/ RollbackOld(answer)
      BY <3>1, <3>5, <3>8
    <3> QED
      BY <1>4, <3>2, <3>3, <3>6, <3>7, <3>8
  <2>2. CASE ex' = Rest
    BY <2>2 DEF Rest
  <2>3. ASSUME NEW pc \in Steps \ {"drain", "retire"}, NEW r \in BOOLEAN, NEW f \in BOOLEAN,
               NEW c \in Nat,
               \/ ex' = [ex EXCEPT !.pc = pc]
               \/ ex' = [ex EXCEPT !.pc = pc, !.replaced = r]
               \/ ex' = [ex EXCEPT !.pc = pc, !.failed = f]
               \/ ex' = [ex EXCEPT !.pc = pc, !.cand = c]
               \/ ex' = [Rest EXCEPT !.pc = pc, !.old = Serving]
        PROVE  ex'.pc \notin {"drain", "retire"}
    BY <1>0, <2>3 DEF ExRow, Rest
  <2> QED
    BY <2>1, <2>2, <2>3
<1> QED
  BY <1>1, <1>2, <1>3, <1>4

\* No session comes back to a generation whose row is replaced by a quiet one.
LEMMA OthersQuiet ==
    ASSUME Gens, NEW g \in DOMAIN gen, NEW x \in DOMAIN gen, NEW r,
           gen' = [gen EXCEPT ![x] = r], g = x => (r.busy => gen[x].busy)
    PROVE  gen'[g].busy => gen[g].busy
<1> QED
  BY Rows

\* While the executor drains, nobody resumes the generation it drains.
LEMMA NobodyResumes ==
    ASSUME IInv, Guard \/ Recover \/ Environment, ex.pc \in {"drain", "retire"}
    PROVE  gen'[ex.old].busy => gen[ex.old].busy
<1> DEFINE g == ex.old
<1>0. /\ Gens /\ g \in DOMAIN gen /\ g # 0 /\ gen[g].dropped /\ ~Idle
      /\ runtime.old \in {0, g} /\ (runtime.old = 0 => runtime = NoRuntime)
      /\ runtime.cand # 0 => runtime.cand # runtime.old
      /\ recovery.on => recovery.old = g
  BY Identities DEF IInv, Agreed, Drained, Idle
<1>1. Cand # 0 => Cand # g
  BY <1>0 DEF Cand, NoRuntime
<1>2. CASE UNCHANGED gen
  BY <1>2
<1>3. CASE ResumeOld
  <2>1. Old = g
    BY <1>0, <1>3 DEF ResumeOld, Alive, Old
  <2> QED
    BY <1>0, <1>3, <2>1 DEF ResumeOld
<1>4. CASE PauseOld \/ DropOld
  <2>1. Old \in DOMAIN gen
    BY <1>4, Handled DEF PauseOld, DropOld
  <2>2. \E r \in {Paused(Old), Detached(Old)} : gen' = [gen EXCEPT ![Old] = r]
    BY <1>4 DEF PauseOld, DropOld, Control
  <2> QED
    BY <1>0, <2>1, <2>2, CallAlive, OthersQuiet
<1>5. CASE ResumeCandidate \/ SealCandidate
  <2>1. Cand \in DOMAIN gen /\ Cand # 0
    BY <1>5, Handled DEF ResumeCandidate, SealCandidate, Alive
  <2>2. \E r \in {Resumed(Cand), Sealed(Cand)} : gen' = [gen EXCEPT ![Cand] = r]
    BY <1>5 DEF ResumeCandidate, SealCandidate, Control
  <2> QED
    BY <1>0, <1>1, <2>1, <2>2, OthersQuiet
<1>6. CASE \E x \in DOMAIN gen : gen' = Killed(x)
  <2>1. PICK x \in DOMAIN gen : gen' = Killed(x)
    BY <1>6
  <2>2. gen' = [gen EXCEPT ![x] = Dead(gen[x])] /\ ~Dead(gen[x]).busy
    BY <1>0, <2>1, Rows DEF Killed, Dead, GenRow
  <2> QED
    BY <1>0, <2>2, OthersQuiet
<1>7. CASE RetireOld \/ RetireUnresponsive
  BY <1>2, <1>6, <1>7, Handled DEF RetireOld, RetireUnresponsive
<1>8. CASE StopLost \/ StopOld
  BY <1>6, <1>8, Underway DEF StopLost, StopOld, RestartStep
<1>9. CASE Adopt
  <2>1. g \notin Others
    BY <1>0, <1>9, Underway DEF Others, Adopt, RestartStep
  <2> QED
    BY <1>0, <1>9, <2>1, Adopted
<1>10. CASE Relaunch \/ StartXray
  <2>1. gen' = Append(gen, Admitted(live)) /\ Admitted(live) \in GenRow
    BY <1>10, SmallFacts, NewRows DEF Relaunch, StartXray
  <2> QED
    BY <1>0, <2>1, Rows
<1>11. CASE Environment
  <2>1. CASE AgentDies
    BY <1>2, <2>1 DEF AgentDies
  <2>2. CASE Reboot
    BY <1>0, <2>2, Rows DEF Reboot, Dead, GenRow
  <2>3. ASSUME NEW x \in DOMAIN gen, ProcessDies(x)
        PROVE  gen'[g].busy => gen[g].busy
    BY <1>6, <2>3 DEF ProcessDies
  <2>4. ASSUME NEW x \in DOMAIN gen, GoesSilent(x) \/ Drains(x)
        PROVE  gen'[g].busy => gen[g].busy
    <3>1. gen[x] \in GenRow
      BY <1>0, Rows
    <3>2. \/ gen' = [gen EXCEPT ![x] = [gen[x] EXCEPT !.silent = TRUE]]
          \/ gen' = [gen EXCEPT ![x] = [gen[x] EXCEPT !.busy = FALSE]]
      BY <1>0, <2>4, Rows DEF GoesSilent, Drains
    <3>3. /\ [gen[x] EXCEPT !.silent = TRUE].busy = gen[x].busy
          /\ ~[gen[x] EXCEPT !.busy = FALSE].busy
      BY <3>1 DEF GenRow
    <3> QED
      BY <1>0, <3>2, <3>3, OthersQuiet
  <2> QED
    BY <1>11, <2>1, <2>2, <2>3, <2>4 DEF Environment
<1>12. CASE DropCandidate
  <2>1. Cand \in DOMAIN gen /\ gen' = [gen EXCEPT ![Cand] = Dead(gen[Cand])]
    BY <1>12, Handled DEF DropCandidate, Control
  <2>2. Cand # g
    BY <1>0, <1>1, <2>1, Rows
  <2> QED
    BY <1>0, <2>1, <2>2, OthersQuiet
<1>13. CASE Quiet
  BY <1>2, <1>13, QuietGens
<1> QED
  BY <1>3, <1>4, <1>5, <1>7, <1>8, <1>9, <1>10, <1>11, <1>12, <1>13, Handlers

LEMMA DrainedKept == IInv /\ [Next]_vars => Drained'
<1>1. ASSUME IInv, Guard \/ Recover \/ Environment
      PROVE  Drained'
  <2>0. Drained /\ Evolves
    BY <1>1, GensEvolve DEF IInv, Next
  <2>f. force' = force
    <3>1. CASE CloseRestart \/ BeginRecovery \/ BeginUnresponsive
      BY <3>1 DEF CloseRestart, BeginRecovery, BeginUnresponsive, Checkpoint
    <3>2. CASE \/ DiscoverCandidate \/ FinishCandidate \/ RestoreOld \/ Abandon
               \/ RetireUnresponsive \/ Environment
      BY <3>2 DEF DiscoverCandidate, FinishCandidate, RestoreOld, Abandon, Closed,
         RetireUnresponsive, Environment, AgentDies, Reboot, ProcessDies, GoesSilent, Drains
    <3> QED
      BY <1>1, <3>1, <3>2, FilesStay DEF Guard, Recover, Restart
  <2>1. CASE ex' = Rest
    BY <2>1 DEF Drained, Rest
  <2>2. CASE ex' = ex
    <3>1. ex.pc \in {"drain", "retire"} => gen'[ex.old].dropped
      BY <1>1, <2>0, Identities DEF Drained, Evolves, Later, Idle
    <3>2. ex.pc = "retire" => force \/ ~gen'[ex.old].busy
      BY <1>1, <2>0, NobodyResumes DEF Drained
    <3> QED
      BY <2>f, <2>2, <3>1, <3>2 DEF Drained
  <2> QED
    BY <1>1, <2>1, <2>2, HandlersHandle DEF Handles
<1>2. IInv /\ UNCHANGED vars => Drained'
  BY DEF IInv, Drained, vars
<1> QED
  BY <1>1, <1>2, ExecuteDrained DEF Next

----------------------------------------------------------------------------
(* The theorems.                                                            *)

LEMMA Initially == Init => IInv
<1> SUFFICES ASSUME Init PROVE IInv
  OBVIOUS
<1>1. 1 \in Images /\ MaxGen \in Nat \ {0} /\ MaxHandoffs \in Nat /\ MaxFaults \in Nat
  BY HandoffAssumption DEF Images
<1>2. Admitted(1) \in GenRow
  BY <1>1, NewRows
<1>3. gen \in Seq(GenRow) /\ Len(gen) = 1
  BY <1>2 DEF Init
<1>4. Gens
  BY <1>1, <1>3 DEF Gens
<1>5. Small
  BY <1>1, HandoffAssumption DEF Init, Small, Restarts
<1>6. Named
  BY <1>1, <1>3 DEF Init, Named, RuntimeRow, RecoveryRow, ExRow, NoRuntime, NoRecovery, Rest, Steps
<1>7. Agreed /\ Backed /\ Drained
  BY DEF Init, Agreed, Backed, Drained, Idle, Rest, NoRuntime, NoRecovery
<1>8. Locked /\ Stopped
  BY DEF Init, Locked, Stopped
<1> QED
  BY <1>4, <1>5, <1>6, <1>7, <1>8 DEF IInv

LEMMA Always == Spec => []IInv
<1>1. IInv /\ [Next]_vars => IInv'
  BY GensEvolve, SmallKept, NamedKept, LockedKept, StoppedKept, BackedKept, DrainedKept DEF IInv
<1> QED
  BY Initially, <1>1, PTL DEF Spec

LEMMA Types == IInv => TypeOK
<1> SUFFICES ASSUME IInv PROVE TypeOK
  OBVIOUS
<1> DEFINE Row == [img : 1..(MaxHandoffs + 1), alive : BOOLEAN, ready : BOOLEAN,
                   accepting : BOOLEAN, busy : BOOLEAN, dropped : BOOLEAN, silent : BOOLEAN]
<1>1. GenRow \subseteq Row
  BY DEF GenRow, Images
<1>2. gen \in Seq(Row) /\ Len(gen) \in 1 .. MaxGen
  <2>1. gen \in Seq(GenRow) /\ Len(gen) \in 1 .. MaxGen
    BY Identities DEF Gens
  <2> HIDE DEF Row
  <2>2. \A S : Seq(S) = UNION {[1 .. n -> S] : n \in Nat}
    BY SeqDef
  <2>3. PICK n \in Nat : gen \in [1 .. n -> GenRow]
    BY <2>1, <2>2
  <2>4. gen \in [1 .. n -> Row]
    BY <1>1, <2>3
  <2> QED
    BY <2>1, <2>2, <2>4
<1>3. /\ live \in 1 .. (MaxHandoffs + 1) /\ wanted \in 1 .. (MaxHandoffs + 1)
      /\ backup \in 0 .. (MaxHandoffs + 1) /\ faults \in 0 .. MaxFaults
      /\ kind \in Kinds /\ force \in BOOLEAN
      /\ reports \subseteq {"succeeded", "recovered", "dirty"} /\ restart \in Restarts
  BY SmallFacts DEF Images
<1>4. /\ runtime \in RuntimeRow(Len(gen)) /\ recovery \in RecoveryRow(Len(gen))
      /\ ex \in ExRow(Len(gen))
  BY Identities DEF Named
<1> QED
  BY <1>2, <1>3, <1>4 DEF TypeOK, RuntimeRow, RecoveryRow, ExRow, Steps, Restarts

\* The executor, the guard and the recovery hold identities of generations that were
\* launched, images that were released, and receipts of the three kinds, whatever fails.
THEOREM TypeCorrect == Spec => []TypeOK
<1> QED
  BY Always, Types, PTL

\* A step that kills nobody, or one generation.
LEMMA NobodyDies ==
    ASSUME Gens, NEW g \in DOMAIN gen, NEW x \in DOMAIN gen, NEW r,
           gen' = [gen EXCEPT ![x] = r], r.alive = gen[x].alive
    PROVE  gen'[g].alive = gen[g].alive
<1> QED
  BY Rows

LEMMA OnlyOneDies ==
    ASSUME Gens, NEW g \in DOMAIN gen, NEW x, gen' = Killed(x), gen[g].alive, ~gen'[g].alive
    PROVE  g = x
<1> QED
  BY Rows DEF Killed

LEMMA CallKillsNobody ==
    ASSUME Gens, Small, NEW g \in DOMAIN gen, NEW x \in 0 .. Len(gen), NEW answer \in Answers,
           NEW r, Rpc(x, answer), Changed(x, answer, r),
           x \in DOMAIN gen => r.alive = gen[x].alive
    PROVE  gen'[g].alive = gen[g].alive
<1>1. CASE answer = "fail"
  BY <1>1 DEF Changed
<1>2. CASE answer # "fail"
  <2>1. x \in DOMAIN gen
    BY <1>2, RpcFacts, ReachableKnown
  <2>2. gen' = [gen EXCEPT ![x] = r] /\ r.alive = gen[x].alive
    BY <1>2, <2>1 DEF Changed
  <2> QED
    BY <2>1, <2>2, NobodyDies
<1> QED
  BY <1>1, <1>2

\* Who dies in a step of the agent that loses nothing on its way.
Cut(g) == gen[g].busy /\ gen[g].alive /\ ~gen'[g].alive
Excused == force \/ recovery.on \/ \E h \in AliveGens : gen[h].silent

LEMMA ExecuteCuts ==
    ASSUME IInv, Execute, NEW g \in DOMAIN gen, Cut(g)
    PROVE  Excused
<1>0. Gens /\ Small
  BY Identities
<1>1. CASE \/ Begin \/ NotePause \/ WriteConfig \/ Register \/ ReplaceExecutable \/ Report
           \/ RollbackFile \/ Undone \/ \E answer \in Answers : Drain(answer) \/ Finish(answer)
  BY <1>1 DEF Begin, NotePause, WriteConfig, Register, ReplaceExecutable, Report, RollbackFile,
              Undone, Conclude, Drain, Finish, Cut
<1>2. CASE Retire
  <2>1. gen' = Killed(ex.old) /\ ex.pc = "retire"
    BY <1>2 DEF Retire, Step, Cut
  <2>2. g = ex.old
    BY <1>0, <2>1, OnlyOneDies DEF Cut
  <2> QED
    BY <2>1, <2>2 DEF IInv, Drained, Cut, Excused
<1>3. ASSUME NEW answer \in Answers, Pause(answer) \/ Drop(answer) \/ RollbackOld(answer)
      PROVE  Excused
  <2>1. /\ ex.old \in 0 .. Len(gen) /\ Rpc(ex.old, answer)
        /\ \E r \in {Paused(ex.old), Detached(ex.old), Resumed(ex.old)} :
              Changed(ex.old, answer, r)
    BY <1>3, Identities DEF Pause, Drop, RollbackOld
  <2> QED
    BY <1>0, <2>1, CallAlive, CallKillsNobody DEF Cut
<1>4. ASSUME NEW answer \in Answers, Seal(answer) \/ Resume(answer)
      PROVE  Excused
  <2>1. /\ ex.cand \in 0 .. Len(gen) /\ Rpc(ex.cand, answer)
        /\ \E r \in {Sealed(ex.cand), Resumed(ex.cand)} : Changed(ex.cand, answer, r)
    BY <1>4, Identities DEF Seal, Resume
  <2> QED
    BY <1>0, <2>1, CallAlive, CallKillsNobody DEF Cut
<1>5. ASSUME NEW answer \in Answers, Launch(answer)
      PROVE  Excused
  <2>1. gen' = gen \/ gen' = Append(gen, Prepared(wanted))
    BY <1>5 DEF Launch
  <2>2. Prepared(wanted) \in GenRow
    BY SmallFacts, NewRows
  <2> QED
    BY <1>0, <2>1, <2>2, Rows DEF Cut
<1>6. ASSUME NEW answer \in Answers, RollbackCandidate(answer)
      PROVE  Excused
  <2>1. UNCHANGED gen \/ (gen' = Killed(ex.cand) /\ ~gen[ex.cand].busy)
    BY <1>6 DEF RollbackCandidate
  <2> QED
    BY <1>0, <2>1, OnlyOneDies DEF Cut
<1> QED
  BY <1>1, <1>2, <1>3, <1>4, <1>5, <1>6 DEF Execute

LEMMA HandlersCut ==
    ASSUME IInv, Guard \/ Recover, UNCHANGED faults, NEW g \in DOMAIN gen, Cut(g)
    PROVE  Excused
<1>0. Gens
  BY Identities
<1>1. CASE Quiet
  BY <1>1, QuietGens DEF Cut
<1>2. CASE ResumeOld \/ PauseOld \/ DropOld
  <2>1. Old \in DOMAIN gen
    BY <1>2, Handled DEF ResumeOld, PauseOld, DropOld
  <2>2. \E r \in {Resumed(Old), Paused(Old), Detached(Old)} : gen' = [gen EXCEPT ![Old] = r]
    BY <1>2 DEF ResumeOld, PauseOld, DropOld, Control
  <2> QED
    BY <1>0, <2>1, <2>2, CallAlive, NobodyDies DEF Cut
<1>3. CASE ResumeCandidate \/ SealCandidate
  <2>1. Cand \in DOMAIN gen
    BY <1>3, Handled DEF ResumeCandidate, SealCandidate
  <2>2. \E r \in {Resumed(Cand), Sealed(Cand)} : gen' = [gen EXCEPT ![Cand] = r]
    BY <1>3 DEF ResumeCandidate, SealCandidate, Control
  <2> QED
    BY <1>0, <2>1, <2>2, CallAlive, NobodyDies DEF Cut
<1>4. CASE RetireOld
  <2>1. gen' = Killed(Old) /\ (~gen[Old].busy \/ force)
    BY <1>4 DEF RetireOld
  <2> QED
    BY <1>0, <2>1, OnlyOneDies DEF Cut, Excused
<1>5. CASE DropCandidate
  <2>1. gen' = Killed(Cand) /\ ~gen[Cand].busy
    BY <1>5 DEF DropCandidate, Control, Killed
  <2> QED
    BY <1>0, <2>1, OnlyOneDies DEF Cut
<1>6. CASE RetireUnresponsive
  <2>1. Silent # {}
    BY <1>6, FaultFacts DEF RetireUnresponsive, ControlLost
  <2>2. PICK h \in {Old, Cand} : Alive(h) /\ gen[h].silent
    BY <2>1 DEF Silent
  <2>3. h \in AliveGens
    BY <1>0, <2>2, Identities, Known DEF Old, Cand
  <2> QED
    BY <2>2, <2>3 DEF Excused
<1>7. CASE StopLost \/ StopOld \/ Adopt
  BY <1>7, Underway DEF StopLost, StopOld, Adopt, RestartStep, Excused
<1>8. CASE Relaunch \/ StartXray
  <2>1. gen' = Append(gen, Admitted(live)) /\ Admitted(live) \in GenRow
    BY <1>8, SmallFacts, NewRows DEF Relaunch, StartXray
  <2> QED
    BY <1>0, <2>1, Rows DEF Cut
<1> QED
  BY <1>1, <1>2, <1>3, <1>4, <1>5, <1>6, <1>7, <1>8, Handlers

\* Processes die, or the machine restarts, only with a fault.
LEMMA EnvironmentCuts ==
    ASSUME IInv, Environment, UNCHANGED faults, NEW g \in DOMAIN gen
    PROVE  ~Cut(g)
<1>0. Gens
  BY Identities
<1>1. CASE AgentDies \/ Reboot
  BY <1>1, FaultFacts DEF AgentDies, Reboot
<1>2. ASSUME NEW x \in DOMAIN gen, ProcessDies(x) \/ GoesSilent(x)
      PROVE  ~Cut(g)
  BY <1>2, FaultFacts DEF ProcessDies, GoesSilent
<1>3. ASSUME NEW x \in DOMAIN gen, Drains(x)
      PROVE  ~Cut(g)
  <2>1. gen[x] \in GenRow /\ gen' = [gen EXCEPT ![x] = [gen[x] EXCEPT !.busy = FALSE]]
    BY <1>0, <1>3, Rows DEF Drains
  <2>2. [gen[x] EXCEPT !.busy = FALSE].alive = gen[x].alive
    BY <2>1 DEF GenRow
  <2> QED
    BY <1>0, <2>1, <2>2, NobodyDies DEF Cut
<1> QED
  BY <1>1, <1>2, <1>3 DEF Environment

\* The agent cuts no session it was not allowed to cut: whichever of executor, guard
\* and recovery terminates a generation that carries connections, the drain deadline
\* may be forced, a restart is under way, or a control channel is lost
\* (perform_handoff_update_at_target, recover_interrupted_handoff, rollback).
THEOREM SessionsAreKept == Spec => SessionsDrain
<1> DEFINE Kept ==
       \A g \in DOMAIN gen :
          gen[g].busy /\ ~gen'[g].alive /\ faults' = faults =>
              force \/ recovery.on \/ \E h \in AliveGens : gen[h].silent
<1>1. IInv /\ [Next]_vars => Kept
  <2> SUFFICES ASSUME IInv, [Next]_vars, NEW g \in DOMAIN gen,
                      gen[g].busy, ~gen'[g].alive, UNCHANGED faults
               PROVE  Excused
    BY DEF Excused
  <2>1. Cut(g)
    BY Identities, Rows DEF Cut, GenRow
  <2>2. Next
    BY <2>1 DEF Cut, vars
  <2> QED
    BY <2>1, <2>2, ExecuteCuts, HandlersCut, EnvironmentCuts DEF Next
<1>2. IInv /\ [Next]_vars => [Kept]_vars
  BY <1>1
<1> QED
  BY Always, <1>2, PTL DEF Spec, SessionsDrain
=============================================================================
