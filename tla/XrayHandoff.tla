----------------------------- MODULE XrayHandoff -----------------------------
(***************************************************************************)
(* The agent replaces a running Xray without dropping its TCP sessions: a  *)
(* candidate generation is started beside the old one, admission moves     *)
(* over, the old generation drains and is retired.  A configuration        *)
(* release hands over to a new xray.json, a binary release to new bytes at *)
(* the managed path; both are an image here.                               *)
(*                                                                         *)
(* The executor runs on the agent's main thread.  When it stops -- it      *)
(* failed, it left the drain to later rounds, the agent died -- the files  *)
(* it wrote are worked off by two stateless handlers: the guard, every     *)
(* second under the meter lock, and the recovery of the main loop, which   *)
(* alone may end a handoff.  What the files and the processes say decides, *)
(* so the effects are actions of their own: a failed call or a death       *)
(* between two of them leaves exactly a prefix.  Merged are a removal of   *)
(* the backup with the removal or the receipt before it, both ways where   *)
(* it shows, and the two receipts of a failure with the file beside them.  *)
(***************************************************************************)
EXTENDS Integers, Sequences, FiniteSets

CONSTANTS
    Kinds,        \* "config", "binary"
    Faults,       \* the faults this instance explores
    MaxFaults,    \* bound: faults
    MaxHandoffs,  \* bound: handoffs
    MaxGen        \* bound: generations launched

ASSUME HandoffAssumption ==
    /\ Kinds \subseteq {"config", "binary"}
    /\ MaxFaults \in Nat /\ MaxHandoffs \in Nat /\ MaxGen \in Nat \ {0}

VARIABLES
    kind,      \* what is released
    force,     \* may the old generation be retired at the drain deadline
    gen,       \* the generations, in the order they were launched
    live,      \* the image on disk: xray.json, or the managed executable
    backup,    \* the previous image, kept for a rollback
    runtime,   \* xray-upgrade.json: both identities, was the old one paused
    recovery,  \* xray-crash-recovery.json
    ex,        \* the executor: step, its copy of the identities, rollback facts
    restart,   \* the step of a restart attempt; the lock is held meanwhile
    wanted,    \* the image of the newest release
    reports,   \* outcomes recorded for the binary release under way
    faults

disk == <<live, backup, runtime, recovery>>
vars == <<kind, force, gen, disk, ex, restart, wanted, reports, faults>>

Prepared(img) ==
    [img |-> img, alive |-> TRUE, ready |-> FALSE, accepting |-> FALSE, busy |-> FALSE,
     dropped |-> FALSE, silent |-> FALSE]
Admitted(img) ==
    [Prepared(img) EXCEPT !.ready = TRUE, !.accepting = TRUE, !.busy = TRUE]
Dead(g) == [g EXCEPT !.alive = FALSE, !.accepting = FALSE, !.busy = FALSE]

NoRuntime == [old |-> 0, cand |-> 0, paused |-> FALSE]
NoRecovery ==
    [on |-> FALSE, old |-> 0, cand |-> 0, previous |-> FALSE, unresponsive |-> FALSE, img |-> 0]
Rest == [pc |-> "idle", old |-> 0, cand |-> 0, replaced |-> FALSE, failed |-> FALSE]

Alive(g) == g # 0 /\ gen[g].alive
Reachable(g) == Alive(g) /\ ~gen[g].silent
Serves(g) == Alive(g) /\ gen[g].ready /\ gen[g].accepting
AliveGens == {g \in DOMAIN gen : gen[g].alive}

\* The serving process is the oldest that uses the managed configuration.
Serving == CHOOSE g \in AliveGens : \A h \in AliveGens : g <= h

Init ==
    /\ kind \in Kinds
    /\ force = TRUE
    /\ gen = <<Admitted(1)>>
    /\ live = 1
    /\ backup = 0
    /\ runtime = NoRuntime
    /\ recovery = NoRecovery
    /\ ex = Rest
    /\ restart = "none"
    /\ wanted = 1
    /\ reports = {}
    /\ faults = 0

\* Faults are bounded, and happen anywhere.
Fault(f) ==
    /\ f \in Faults
    /\ faults < MaxFaults
    /\ faults' = faults + 1

\* A control call: answered, done but unanswered, or not done.
Rpc(g, answer) ==
    IF Reachable(g)
    THEN \/ answer = "ok" /\ UNCHANGED faults
         \/ answer \in {"lost", "fail"} /\ Fault("rpc")
    ELSE answer = "fail" /\ UNCHANGED faults

Changed(g, answer, new) ==
    gen' = IF answer = "fail" THEN gen ELSE [gen EXCEPT ![g] = new]

Paused(g) == [gen[g] EXCEPT !.accepting = FALSE]
Resumed(g) == [gen[g] EXCEPT !.accepting = TRUE, !.busy = TRUE]
Sealed(g) == [gen[g] EXCEPT !.ready = TRUE]
Detached(g) == [gen[g] EXCEPT !.dropped = TRUE]
Killed(g) == [gen EXCEPT ![g] = Dead(@)]

Idle == ex.pc = "idle"

\* The guard needs the meter lock: a configuration handoff holds it throughout, a
\* binary one from the pause to the drain, from the retirement to the receipt, and
\* in a rollback.
LockFree ==
    /\ restart = "none"
    /\ Idle \/ (kind = "binary" /\ ex.pc \in {"pause", "drain", "retire", "report", "undone"})

Answers == {"ok", "lost", "fail"}

---------------------------------------------------------------------------
\* The executor: begin_config_handoff and perform_handoff_update_at_target.

\* What the executor remembers, as it writes it: the guard may have written since.
Own(paused) == [old |-> ex.old, cand |-> ex.cand, paused |-> paused]

Reported(outcome) == IF kind = "binary" THEN reports \cup {outcome} ELSE reports

Begin ==
    /\ Idle /\ restart = "none"
    /\ runtime = NoRuntime
    /\ ~recovery.on
    /\ wanted <= MaxHandoffs
    /\ AliveGens # {}
    /\ Reachable(Serving)
    /\ Serves(Serving)
    /\ kind = "binary" => gen[Serving].img = live
    /\ wanted' = wanted + 1
    \* HandoffForce, or Handoff, which waits; a configuration is always forced
    /\ force' \in BOOLEAN /\ (kind = "config" => force')
    /\ backup' = live
    /\ runtime' = [NoRuntime EXCEPT !.old = Serving]
    /\ ex' = [Rest EXCEPT !.pc = "pause", !.old = Serving]
    /\ reports' = {}
    /\ UNCHANGED <<kind, gen, live, recovery, faults>>

Step(from, to) == ex.pc = from /\ ex' = [ex EXCEPT !.pc = to]

Pause(answer) ==
    /\ restart = "none"
    /\ Step("pause", IF answer = "ok" THEN "note" ELSE "rollback")
    /\ Changed(ex.old, answer, Paused(ex.old))
    /\ UNCHANGED <<kind, force, disk, wanted, reports>>
    /\ Rpc(ex.old, answer)

NotePause ==
    /\ Step("note", IF kind = "config" THEN "write" ELSE "launch")
    /\ runtime' = Own(TRUE)
    /\ UNCHANGED <<kind, force, gen, live, backup, recovery, wanted, reports, faults>>

WriteConfig ==
    /\ ex.pc = "write"
    /\ \/ Step("write", "launch") /\ live' = wanted /\ UNCHANGED faults
       \/ Step("write", "rollback") /\ UNCHANGED live /\ Fault("error")
    /\ UNCHANGED <<kind, force, gen, backup, runtime, recovery, wanted, reports>>

\* The sockets are exported, the candidate starts, sealed from public traffic.
Launch(answer) ==
    /\ ex.pc = "launch"
    /\ answer # "lost"
    /\ IF answer = "ok"
       THEN /\ Len(gen) < MaxGen
            /\ gen' = Append(gen, Prepared(wanted))
            /\ ex' = [ex EXCEPT !.pc = "register", !.cand = Len(gen) + 1]
       ELSE Step("launch", "rollback") /\ UNCHANGED gen
    /\ UNCHANGED <<kind, force, disk, wanted, reports>>
    /\ Rpc(ex.old, answer)

Register ==
    /\ Step("register", "seal")
    /\ runtime' = Own(TRUE)
    /\ UNCHANGED <<kind, force, gen, live, backup, recovery, wanted, reports, faults>>

\* Users, forwards and counters are restored, then the candidate is sealed.
Seal(answer) ==
    /\ Step("seal", IF answer # "ok" THEN "rollback"
                    ELSE IF kind = "config" THEN "resume" ELSE "replace")
    /\ Changed(ex.cand, answer, Sealed(ex.cand))
    /\ UNCHANGED <<kind, force, disk, wanted, reports>>
    /\ Rpc(ex.cand, answer)

\* A failed replacement may have replaced: the rollback puts the backup back.
ReplaceExecutable ==
    /\ ex.pc = "replace"
    /\ \/ live' = wanted /\ UNCHANGED faults
       \/ live' \in {live, wanted} /\ Fault("error")
    /\ ex' = [ex EXCEPT !.pc = IF faults' = faults THEN "resume" ELSE "rollback",
                        !.replaced = TRUE]
    /\ UNCHANGED <<kind, force, gen, backup, runtime, recovery, wanted, reports>>

Resume(answer) ==
    /\ Step("resume", IF answer = "ok" THEN "drop" ELSE "rollback")
    /\ Changed(ex.cand, answer, Resumed(ex.cand))
    /\ UNCHANGED <<kind, force, disk, wanted, reports>>
    /\ Rpc(ex.cand, answer)

\* The executor stops; the files stay for the guard and the recovery.
LeaveDirty ==
    /\ runtime' = Own(TRUE)
    /\ ex' = Rest
    /\ reports' = Reported("dirty")

\* The old generation gives up UDP, after a configuration release its TCP listeners too.
Drop(answer) ==
    /\ ex.pc = "drop"
    /\ Changed(ex.old, answer, Detached(ex.old))
    /\ IF answer # "ok" THEN LeaveDirty
       ELSE /\ runtime' = Own(TRUE)
            /\ ex' = IF kind = "config" THEN Rest ELSE [ex EXCEPT !.pc = "drain"]
            /\ UNCHANGED reports
    /\ UNCHANGED <<kind, force, live, backup, recovery, wanted>>
    /\ Rpc(ex.old, answer)

\* Without the lock: retire what is drained or overdue, or come back later.
Drain(answer) ==
    /\ ex.pc = "drain"
    /\ answer # "lost"
    /\ \/ answer = "fail" /\ LeaveDirty
       \/ /\ answer = "ok"
          /\ ~gen[ex.old].busy \/ force
          /\ ex' = [ex EXCEPT !.pc = "retire"]
          /\ UNCHANGED <<runtime, reports>>
       \/ /\ answer = "ok"
          /\ gen[ex.old].busy
          /\ runtime' = Own(TRUE)
          /\ ex' = Rest
          /\ UNCHANGED reports
    /\ UNCHANGED <<kind, force, gen, live, backup, recovery, wanted>>
    /\ Rpc(ex.old, answer)

\* The counters are read, the old generation is terminated.
Retire ==
    /\ ex.pc = "retire"
    /\ restart = "none"
    /\ \/ /\ Step("retire", "finish")
          /\ gen' = Killed(ex.old)
          /\ UNCHANGED <<runtime, reports, faults>>
       \/ LeaveDirty /\ UNCHANGED gen /\ Fault("error")
    /\ UNCHANGED <<kind, force, live, backup, recovery, wanted>>

Finish(answer) ==
    /\ ex.pc = "finish"
    /\ answer # "lost"
    /\ IF answer = "ok" /\ Serves(ex.cand)
       THEN /\ Step("finish", "report")
            /\ runtime' = NoRuntime
            /\ UNCHANGED reports
       ELSE LeaveDirty
    /\ UNCHANGED <<kind, force, gen, live, backup, recovery, wanted>>
    /\ Rpc(ex.cand, answer)

\* The backup goes, then the receipt is written.
Conclude(outcome) ==
    /\ backup' = 0
    /\ ex' = Rest
    /\ \/ reports' = Reported(outcome) /\ UNCHANGED faults
       \/ UNCHANGED reports /\ Fault("agent")
    /\ UNCHANGED <<kind, force, gen, live, runtime, recovery, wanted>>

Report == ex.pc = "report" /\ Conclude("succeeded")

\* A candidate that admitted anybody is not rolled back, and a binary release forgets
\* its deadline; one that does not answer is left alone.
RollbackCandidate(answer) ==
    LET c == ex.cand IN
    /\ ex.pc = "rollback"
    /\ answer # "lost"
    /\ IF c # 0 /\ answer = "ok" /\ (gen[c].accepting \/ gen[c].busy)
       THEN /\ LeaveDirty
            /\ force' = (kind = "config")
            /\ UNCHANGED gen
       ELSE /\ gen' = IF c # 0 /\ answer = "ok" THEN Killed(c) ELSE gen
            /\ ex' = [ex EXCEPT !.pc = "rollback_file", !.failed = answer = "fail"]
            /\ UNCHANGED <<force, runtime, reports>>
    /\ UNCHANGED <<kind, live, backup, recovery, wanted>>
    /\ IF c = 0 THEN answer = "ok" /\ UNCHANGED faults ELSE Rpc(c, answer)

RollbackFile ==
    /\ ex.pc = "rollback_file"
    /\ \/ /\ live' = IF kind = "config" \/ ex.replaced THEN backup ELSE live
          /\ ex' = [ex EXCEPT !.pc = "rollback_old"]
          /\ UNCHANGED faults
       \/ /\ kind = "config" \/ ex.replaced
          /\ ex' = [ex EXCEPT !.pc = "rollback_old", !.failed = TRUE]
          /\ UNCHANGED live
          /\ Fault("error")
    /\ UNCHANGED <<kind, force, gen, backup, runtime, recovery, wanted, reports>>

\* Mutant of RollbackOld: the backup goes although the rollback did not finish.
RollbackOldForgetting(answer) ==
    /\ ex.pc = "rollback_old"
    /\ Changed(ex.old, answer, Resumed(ex.old))
    /\ IF answer = "ok" /\ ~ex.failed
       THEN /\ runtime' = NoRuntime
            /\ ex' = [ex EXCEPT !.pc = "undone"]
            /\ UNCHANGED reports
       ELSE /\ reports' = Reported("dirty")
            /\ ex' = Rest
            /\ UNCHANGED runtime
    /\ backup' = 0
    /\ UNCHANGED <<kind, force, live, recovery, wanted>>
    /\ Rpc(ex.old, answer)

RollbackOld(answer) ==
    /\ ex.pc = "rollback_old"
    /\ Changed(ex.old, answer, Resumed(ex.old))
    /\ IF answer = "ok" /\ ~ex.failed
       THEN /\ runtime' = NoRuntime
            /\ ex' = [ex EXCEPT !.pc = "undone"]
            /\ UNCHANGED reports
       ELSE /\ reports' = Reported("dirty")
            /\ ex' = Rest
            /\ UNCHANGED runtime
    /\ UNCHANGED <<kind, force, live, backup, recovery, wanted>>
    /\ Rpc(ex.old, answer)

Undone == ex.pc = "undone" /\ Conclude("recovered")

Execute ==
    /\ UNCHANGED restart
    /\ \/ Begin \/ NotePause \/ WriteConfig \/ Register \/ ReplaceExecutable \/ Retire
       \/ Report \/ RollbackFile \/ Undone
       \/ \E answer \in Answers :
             \/ Pause(answer) \/ Launch(answer) \/ Seal(answer) \/ Resume(answer)
             \/ Drop(answer) \/ Drain(answer) \/ Finish(answer)
             \/ RollbackCandidate(answer) \/ RollbackOld(answer)

---------------------------------------------------------------------------
\* The guard and the recovery: what they find decides what they do.

Old == runtime.old
Cand == runtime.cand
Silent == {g \in {Old, Cand} : Alive(g) /\ gen[g].silent}

Unregistered == {g \in AliveGens \ {Old} : ~gen[g].silent}
Undiscovered == Cand = 0 /\ Alive(Old) /\ Unregistered # {}

\* A handoff was interrupted, both identities are known.
Interrupted ==
    /\ LockFree
    /\ runtime # NoRuntime
    /\ ~recovery.on
    /\ ~Undiscovered

\* ... and every generation still alive answers.
Observed == Interrupted /\ Silent = {}

DiscoverCandidate ==
    /\ LockFree
    /\ runtime # NoRuntime
    /\ ~recovery.on
    /\ Undiscovered
    /\ \E g \in AliveGens : Unregistered = {g} /\ runtime' = [runtime EXCEPT !.cand = g]
    /\ UNCHANGED <<kind, force, gen, live, backup, recovery, ex, wanted, reports, faults>>

\* A control call of a handler: unanswered, it is found done by the next round.
Control(g, new) ==
    /\ gen' = [gen EXCEPT ![g] = new]
    /\ UNCHANGED <<kind, force, disk, ex, wanted, reports, faults>>

\* A candidate that serves takes over; without one the old generation serves again.
ResumeOld ==
    /\ Observed /\ Alive(Old) /\ ~Serves(Cand)
    /\ ~gen[Old].dropped /\ ~gen[Old].accepting
    /\ Control(Old, Resumed(Old))

PauseOld ==
    /\ Observed /\ Alive(Old) /\ Serves(Cand)
    /\ gen[Old].accepting
    /\ Control(Old, Paused(Old))

DropOld ==
    /\ Observed /\ Alive(Old) /\ Serves(Cand)
    /\ ~gen[Old].accepting /\ ~gen[Old].dropped
    /\ Control(Old, Detached(Old))

ResumeCandidate ==
    /\ Observed /\ ~Alive(Old) /\ Alive(Cand)
    /\ gen[Cand].ready /\ ~gen[Cand].accepting
    /\ Control(Cand, Resumed(Cand))

SealCandidate ==
    /\ Observed /\ Idle /\ ~Alive(Old) /\ Alive(Cand)
    /\ ~gen[Cand].ready
    /\ Control(Cand, Sealed(Cand))

\* Mutant of RetireOld: open connections are not waited for.
RetireOldBusy ==
    /\ Observed /\ Idle /\ Alive(Old) /\ Serves(Cand)
    /\ gen[Old].dropped
    /\ gen' = Killed(Old)
    /\ UNCHANGED <<kind, force, disk, ex, wanted, reports, faults>>

RetireOld ==
    /\ Observed /\ Idle /\ Alive(Old) /\ Serves(Cand)
    /\ gen[Old].dropped
    /\ ~gen[Old].busy \/ force
    /\ gen' = Killed(Old)
    /\ UNCHANGED <<kind, force, disk, ex, wanted, reports, faults>>

\* The old generation is gone and the candidate serves: its bytes are installed, the
\* success is recorded, the files are closed.
Left == Observed /\ Idle /\ ~Alive(Old) /\ Alive(Cand) /\ gen[Cand].ready

Installed == kind = "binary" => live = gen[Cand].img

InstallCandidate ==
    /\ Left /\ ~Installed
    /\ live' = gen[Cand].img
    /\ UNCHANGED <<kind, force, gen, backup, runtime, recovery, ex, wanted, reports, faults>>

RecordSuccess ==
    /\ Left /\ Serves(Cand) /\ Installed
    /\ kind = "binary" /\ "succeeded" \notin reports
    /\ reports' = Reported("succeeded")
    /\ UNCHANGED <<kind, force, gen, disk, ex, wanted, faults>>

Closed ==
    /\ runtime' = NoRuntime
    /\ \/ backup' = 0 /\ UNCHANGED faults
       \/ UNCHANGED backup /\ Fault("agent")
    /\ UNCHANGED <<kind, force, gen, live, recovery, ex, wanted, reports>>

\* Mutant of FinishCandidate: an old generation that still runs is overlooked.
FinishCandidateBeside ==
    /\ Observed /\ Idle /\ Serves(Cand) /\ Installed
    /\ Closed

FinishCandidate ==
    /\ Left /\ Serves(Cand) /\ Installed
    /\ kind = "binary" => "succeeded" \in reports
    /\ Closed

PreviousImage == IF kind = "config" THEN backup ELSE gen[Old].img

\* The candidate never admitted anybody: the old generation stays.
Staying ==
    /\ Observed /\ Idle /\ Alive(Old)
    /\ ~gen[Old].dropped /\ gen[Old].accepting

DropCandidate ==
    /\ Staying /\ Alive(Cand) /\ ~Serves(Cand)
    /\ ~gen[Cand].busy
    /\ Control(Cand, Dead(gen[Cand]))

RestoreImage ==
    /\ Staying /\ ~Alive(Cand)
    /\ live # PreviousImage /\ backup = PreviousImage
    /\ live' = PreviousImage
    /\ UNCHANGED <<kind, force, gen, backup, runtime, recovery, ex, wanted, reports, faults>>

\* Mutant of RestoreOld: the image that was to be released stays on disk.
RestoreOldInPlace ==
    /\ Staying /\ ~Alive(Cand)
    /\ Closed

RestoreOld ==
    /\ Staying /\ ~Alive(Cand)
    /\ live = PreviousImage
    /\ Closed

\* Both are gone before a candidate was known: nothing is left to hand over.
Abandon ==
    /\ Interrupted /\ Idle /\ ~Alive(Old) /\ Cand = 0
    /\ runtime' = NoRuntime
    /\ \/ backup' = (IF kind = "config" THEN 0 ELSE backup) /\ UNCHANGED faults
       \/ UNCHANGED backup /\ Fault("agent")
    /\ UNCHANGED <<kind, force, gen, live, recovery, ex, wanted, reports>>

---------------------------------------------------------------------------
\* The restart: one generation is lost and the other cannot serve in its place.

\* A checkpoint is acted on as it is written, under the same lock.
Checkpoint(previous, unresponsive) ==
    /\ previous /\ kind = "config" => backup # 0
    /\ recovery' = [on |-> TRUE, old |-> Old, cand |-> Cand, previous |-> previous,
                     unresponsive |-> unresponsive,
                     img |-> IF previous /\ kind = "config" THEN backup ELSE live]
    /\ restart' = "image"
    /\ reports' = IF previous THEN reports ELSE Reported("dirty")
    /\ UNCHANGED <<kind, force, gen, live, backup, runtime, ex, wanted>>

\* Mutant of BeginRecovery: an old generation that is alive is taken for one that serves.
BeginRecoveryOfBoth ==
    /\ Observed /\ Cand # 0 /\ ~Alive(Cand) /\ ~Alive(Old)
    /\ Checkpoint(FALSE, FALSE)
    /\ UNCHANGED faults

\* A candidate lost after the old generation gave up UDP cannot be undone.
BeginRecovery ==
    /\ Observed /\ Cand # 0 /\ ~Alive(Cand)
    /\ Alive(Old) => gen[Old].dropped
    /\ Checkpoint(FALSE, FALSE)
    /\ UNCHANGED faults

\* A status call fails: its process is silent, or this once the answer is lost.
ControlLost ==
    \/ Silent # {} /\ UNCHANGED faults
    \/ Silent = {} /\ (Alive(Old) \/ Alive(Cand)) /\ Fault("rpc")

\* The candidate was admitted: the old generation is retired at once, and the handoff
\* ended as far as the handler comes.
CanTakeOver == runtime.paused /\ Serves(Cand) /\ ~gen[Cand].silent

RetireUnresponsive ==
    /\ Interrupted
    /\ CanTakeOver
    /\ gen' = IF Alive(Old) THEN Killed(Old) ELSE gen
    /\ \/ UNCHANGED <<backup, runtime, reports>>
       \/ /\ Installed
          /\ reports' = Reported("succeeded")
          /\ \/ UNCHANGED <<backup, runtime>>
             \/ runtime' = NoRuntime /\ backup' \in {0, backup}
    /\ UNCHANGED <<kind, force, live, recovery, ex, restart, wanted>>
    /\ ControlLost

\* A candidate that is asked once more and does not answer is restarted as well.
BeginUnresponsive ==
    /\ Interrupted
    /\ Checkpoint(Cand = 0, TRUE)
    /\ IF CanTakeOver THEN Fault("rpc") ELSE ControlLost

---------------------------------------------------------------------------
\* The restart, under the lock, one effect after the other: whatever fails, the lock is
\* let go and another attempt starts over.

Lost == IF recovery.cand = 0 THEN recovery.old ELSE recovery.cand

\* What is to run: the frozen configuration, the approved executable.
Approved ==
    IF kind = "config" THEN IF recovery.previous THEN backup ELSE live
    ELSE IF recovery.unresponsive THEN gen[Lost].img ELSE live

Others == AliveGens \ {recovery.old, Lost}

\* The file is as it was frozen, or can be made so: the backup is there, or the process
\* that still runs the new executable.
Restorable ==
    /\ IF kind = "binary" THEN Approved = gen[Lost].img ELSE Approved = recovery.img
    /\ Approved # live => IF recovery.previous THEN backup = Approved ELSE Alive(Lost)

\* A process that was relaunched and not yet recorded; a control-loss restart wants none.
Adoptable ==
    /\ ~recovery.unresponsive
    /\ ~Alive(recovery.old)
    /\ \E g \in Others :
          /\ Others = {g} /\ ~gen[g].silent
          /\ kind = "binary" => gen[g].img = gen[Lost].img

Restarted == \E g \in Others : Reachable(g) /\ Serves(g)

RestartStep(from, to) == restart = from /\ restart' = to

\* A checkpoint is refused while the identities of the handoff are others.
Retry ==
    /\ LockFree
    /\ recovery.on
    /\ runtime # NoRuntime => runtime.old = recovery.old /\ runtime.cand = recovery.cand
    /\ RestartStep("none", "image")
    /\ UNCHANGED <<kind, force, gen, disk, ex, wanted, reports, faults>>

InstallApproved ==
    /\ RestartStep("image", "stop_lost")
    /\ Restorable
    /\ live' = Approved
    /\ UNCHANGED <<kind, force, gen, backup, runtime, recovery, ex, wanted, reports, faults>>

StopLost ==
    /\ RestartStep("stop_lost", "stop_old")
    /\ recovery.unresponsive => Others = {}
    /\ gen' = Killed(Lost)
    /\ UNCHANGED <<kind, force, disk, ex, wanted, reports, faults>>

StopOld ==
    /\ RestartStep("stop_old", "launch")
    /\ Others = {}
    /\ gen' = Killed(recovery.old)
    /\ UNCHANGED <<kind, force, disk, ex, wanted, reports, faults>>

Adopt ==
    /\ RestartStep("stop_old", "record")
    /\ Adoptable
    /\ gen' = [g \in DOMAIN gen |-> IF g \in Others THEN Resumed(g) ELSE gen[g]]
    /\ UNCHANGED <<kind, force, disk, ex, wanted, reports, faults>>

Relaunch ==
    /\ RestartStep("launch", "record")
    /\ Len(gen) < MaxGen
    /\ gen' = Append(gen, Admitted(live))
    /\ UNCHANGED <<kind, force, disk, ex, wanted, reports, faults>>

\* Mutant of RecordRestart: every restart is reported as a success.
RecordRestartAnyhow ==
    /\ RestartStep("record", "unlink")
    /\ Restarted
    /\ reports' = Reported("succeeded")
    /\ UNCHANGED <<kind, force, gen, disk, ex, wanted, faults>>

RecordRestart ==
    /\ RestartStep("record", "unlink")
    /\ Restarted
    /\ reports' = Reported(IF recovery.previous THEN "recovered" ELSE "succeeded")
    /\ UNCHANGED <<kind, force, gen, disk, ex, wanted, faults>>

CloseRestart ==
    \/ /\ RestartStep("unlink", "close")
       /\ runtime' = NoRuntime
       /\ UNCHANGED <<kind, force, gen, live, backup, recovery, ex, wanted, reports, faults>>
    \/ /\ RestartStep("close", "discard")
       /\ recovery' = NoRecovery
       /\ UNCHANGED <<kind, force, gen, live, backup, runtime, ex, wanted, reports, faults>>
    \/ /\ RestartStep("discard", "none")
       /\ backup' = 0
       /\ UNCHANGED <<kind, force, gen, live, runtime, recovery, ex, wanted, reports, faults>>

Refused ==
    \/ restart = "image" /\ ~Restorable
    \/ restart = "stop_lost" /\ recovery.unresponsive /\ Others # {}
    \/ restart = "stop_old" /\ Others # {} /\ ~Adoptable
    \/ restart = "record" /\ ~Restarted

RestartFails ==
    /\ restart \in {"image", "stop_lost", "stop_old", "launch", "record", "unlink"}
    /\ restart' = "none"
    /\ UNCHANGED <<kind, force, gen, disk, ex, wanted, reports>>
    /\ IF Refused THEN UNCHANGED faults ELSE Fault("error")

Restart ==
    \/ BeginRecovery \/ BeginUnresponsive
    \/ Retry \/ InstallApproved \/ StopLost \/ StopOld \/ Adopt \/ Relaunch
    \/ RecordRestart \/ CloseRestart \/ RestartFails

\* The ordinary guard starts Xray when no handoff is under way and none runs.
StartXray ==
    /\ LockFree
    /\ ~recovery.on
    /\ runtime.cand = 0 /\ ~Alive(Old)
    /\ AliveGens = {}
    /\ Len(gen) < MaxGen
    /\ gen' = Append(gen, Admitted(live))
    /\ UNCHANGED <<kind, force, disk, ex, wanted, reports, faults>>

Guard ==
    \/ /\ UNCHANGED restart
       /\ \/ DiscoverCandidate \/ ResumeOld \/ PauseOld \/ DropOld \/ ResumeCandidate
          \/ RetireUnresponsive \/ StartXray
    \/ Restart

Recover ==
    /\ UNCHANGED restart
    /\ \/ SealCandidate \/ RetireOld \/ InstallCandidate \/ RecordSuccess
       \/ FinishCandidate \/ DropCandidate \/ RestoreImage \/ RestoreOld \/ Abandon

---------------------------------------------------------------------------
AgentDies ==
    /\ ~Idle \/ restart # "none"
    /\ ex' = Rest
    /\ restart' = "none"
    /\ UNCHANGED <<kind, force, gen, disk, wanted, reports>>
    /\ Fault("agent")

ProcessDies(g) ==
    /\ Alive(g)
    /\ gen' = Killed(g)
    /\ UNCHANGED <<kind, force, disk, ex, restart, wanted, reports>>
    /\ Fault("death")

\* Only generations of the handoff: nothing here watches the others.
GoesSilent(g) ==
    /\ Reachable(g)
    /\ g \in {Old, Cand, ex.cand}
    /\ gen' = [gen EXCEPT ![g].silent = TRUE]
    /\ UNCHANGED <<kind, force, disk, ex, restart, wanted, reports>>
    /\ Fault("silence")

Reboot ==
    /\ gen' = [g \in DOMAIN gen |-> Dead(gen[g])]
    /\ ex' = Rest
    /\ restart' = "none"
    /\ UNCHANGED <<kind, force, disk, wanted, reports>>
    /\ Fault("reboot")

\* The sessions of a generation that admits nobody end by and by.
Drains(g) ==
    /\ gen[g].busy /\ ~gen[g].accepting
    /\ gen' = [gen EXCEPT ![g].busy = FALSE]
    /\ UNCHANGED <<kind, force, disk, ex, restart, wanted, reports, faults>>

Environment ==
    \/ AgentDies \/ Reboot
    \/ \E g \in DOMAIN gen : ProcessDies(g) \/ GoesSilent(g) \/ Drains(g)

Next == Execute \/ Guard \/ Recover \/ Environment

\* The executor, the guard thread and the main loop keep running, whatever fails;
\* sessions may last, and no fault has to happen.
Fairness ==
    /\ WF_vars(UNCHANGED faults /\ Execute)
    /\ WF_vars(UNCHANGED faults /\ Guard)
    /\ WF_vars(UNCHANGED faults /\ Recover)

Spec == Init /\ [][Next]_vars
FairSpec == Spec /\ Fairness

---------------------------------------------------------------------------
\* The kinds of the variables: identities name launched generations.
TypeOK ==
    /\ kind \in Kinds /\ force \in BOOLEAN
    /\ gen \in Seq([img : 1..(MaxHandoffs + 1), alive : BOOLEAN, ready : BOOLEAN,
                     accepting : BOOLEAN, busy : BOOLEAN, dropped : BOOLEAN, silent : BOOLEAN])
    /\ Len(gen) \in 1..MaxGen
    /\ live \in 1..(MaxHandoffs + 1)
    /\ backup \in 0..(MaxHandoffs + 1)
    /\ runtime \in [old : 0..Len(gen), cand : 0..Len(gen), paused : BOOLEAN]
    /\ recovery \in [on : BOOLEAN, old : 0..Len(gen), cand : 0..Len(gen), previous : BOOLEAN,
                     unresponsive : BOOLEAN, img : 0..(MaxHandoffs + 1)]
    /\ ex \in [pc : {"idle", "pause", "note", "write", "launch", "register", "seal",
                      "replace", "resume", "drop", "drain", "retire", "finish", "report",
                      "rollback", "rollback_file", "rollback_old", "undone"},
               old : 0..Len(gen), cand : 0..Len(gen), replaced : BOOLEAN, failed : BOOLEAN]
    /\ restart \in {"none", "image", "stop_lost", "stop_old", "launch", "record", "unlink",
                    "close", "discard"}
    /\ wanted \in 1..(MaxHandoffs + 1)
    /\ reports \subseteq {"succeeded", "recovered", "dirty"}
    /\ faults \in 0..MaxFaults

AtRest == Idle /\ restart = "none" /\ runtime = NoRuntime /\ ~recovery.on

\* Once nothing is under way, the process that accepts runs what is on disk: the next
\* start of Xray changes nothing (restore_old_*_from_state, replace_executable, and
\* restore in crash_recovery.rs each move the file for the generation they keep).  A
\* configuration rolled back under two unanswered calls may leave an older file beside
\* the new generation, never the reverse.
ServingMatchesDisk ==
    AtRest => \A g \in AliveGens :
        gen[g].accepting => gen[g].img = live \/ (kind = "config" /\ gen[g].img > live)

\* Once nothing is under way, one process accepts: users and forwards are then applied to
\* one generation, and no second one shares its ports unseen (recover_interrupted_handoff
\* ends a handoff only when the other generation is gone; main.rs: "Do not claim a
\* configuration or grant work order while two generations are alive").
OneServes ==
    AtRest => \A g, h \in AliveGens : gen[g].accepting /\ gen[h].accepting => h = g

\* The receipts of a binary release tell what became of it, whichever of executor,
\* guard and recovery ended it: success means the new executable is the managed one,
\* recovered means it is not, and never both (store_recovered_success_report,
\* rollback_handoff_before_switch, restore).
TruthfulReport ==
    AtRest =>
        /\ "succeeded" \in reports => live = wanted
        /\ "recovered" \in reports => live # wanted
        /\ ~({"succeeded", "recovered"} \subseteq reports)

\* The agent cuts no session it was not allowed to cut: a generation that carries
\* connections is terminated at a forced deadline, or in a restart, or because a
\* generation lost its control channel (perform_handoff_update_at_target,
\* recover_interrupted_handoff, rollback: `active != 0`).
SessionsDrain ==
    [][\A g \in DOMAIN gen :
          gen[g].busy /\ ~gen'[g].alive /\ faults' = faults =>
              force \/ recovery.on \/ \E h \in AliveGens : gen[h].silent]_vars

\* A checkpoint whose restart is refused for good: it names other identities than the
\* handoff, the frozen image cannot be brought back, or a process nobody registered runs
\* (crash_recovery.rs: retry, restore).
Refusing ==
    /\ recovery.on
    /\ \/ runtime # NoRuntime /\ (runtime.old # recovery.old \/ runtime.cand # recovery.cand)
       \/ ~Restorable
       \/ Others # {} /\ ~Adoptable

\* A candidate outlived the old generation and was never registered: the ordinary guard
\* takes it for the running Xray (guard_xray_once, serving_xray_process_in).
Orphaned == ~recovery.on /\ Cand = 0 /\ ~Alive(Old) /\ AliveGens # {}

\* Whatever the faults left behind, some generation serves again, and when the drain may
\* be cut short the handoff ends; the handlers stop short only where they refuse for good
\* (guard_interrupted_handoff: "Restore one accepting generation";
\* recover_interrupted_handoff).
ServiceReturns ==
    /\ []<>(\E g \in DOMAIN gen : Serves(g)) \/ <>[](Refusing \/ Orphaned)
    /\ []<>((runtime = NoRuntime /\ ~recovery.on) \/ ~force) \/ <>[]Refusing

\* What docs/concepts.md:83 promises: a handoff that lost its candidate is recovered
\* locally from the checkpoint, the approved configuration and binary are restarted.
ServiceAlwaysReturns == []<>(\E g \in DOMAIN gen : Serves(g))
=============================================================================
