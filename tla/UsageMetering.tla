--------------------------- MODULE UsageMetering ---------------------------
(***************************************************************************)
(* How the bytes of one counter of one machine reach the books.  Xray      *)
(* counts; the agent samples the counter under one lock, before it stops   *)
(* Xray and after, and appends every reading to the usage spool; the       *)
(* reporter delivers the spool with lost answers; the control plane turns  *)
(* cumulative readings into booked bytes.  Agent, Xray and machine die.    *)
(*                                                                         *)
(* With an accounting journal the counter outlives the Xray process, and   *)
(* all its readings carry one epoch.  Without one every process counts     *)
(* from zero in an epoch of its own.                                       *)
(*                                                                         *)
(* Three clocks matter: the machine's wall clock, which can be set; the    *)
(* start of the process, which the kernel dates from that clock and which  *)
(* moves with it; and the control plane's clock, which only advances.      *)
(* Instants are counted from an arbitrary second.                          *)
(***************************************************************************)
EXTENDS AgentSpool

CONSTANTS
    Journal,    \* does Xray keep its counters in the journal file
    Depth,      \* lines the usage spool holds
    Commands,   \* which commands and faults a run contains
    MaxBytes,   \* bound: bytes carried
    MaxSkew,    \* how far ahead a reading may be dated (MAX_CLOCK_SKEW_SECS)
    MaxTime,    \* bound: the control plane's clock, in seconds
    MaxSeq,     \* bound: report sequences reserved
    MaxStarts,  \* bound: Xray processes
    MaxFaults   \* bound: deaths of agent, Xray and machine, and steps of the clock

ASSUME UsageAssumption ==
    /\ Journal \in BOOLEAN
    /\ Depth \in Nat \ {0}
    /\ MaxBytes \in Nat
    /\ MaxSkew \in Nat
    /\ MaxTime \in Nat
    /\ MaxSeq \in Nat
    /\ MaxStarts \in Nat
    /\ MaxFaults \in Nat

UsageSpool == [max |-> Depth, keeps |-> TRUE, terminal |-> FALSE, unique |-> FALSE]

VARIABLES
    now,       \* the machine's wall clock
    console,   \* the control plane's clock
    clockSet,  \* history: the directions the machine's clock was set in
    xray,      \* the serving process: is it up, its name, since when
    count,     \* the counter's cumulative value
    synced,    \* what of it is certainly on disk
    cursor,    \* the last sequence reserved, on disk
    stopFile,  \* the stop checkpoint: none, unconfirmed or confirmed
    idle,      \* the ends of the downtime windows no sample has carried
    worker,    \* who holds the meter lock and how far it is
    head,      \* the control plane's durable baseline, NoHead at first
    receipts,  \* sequences whose answer is still kept
    expired,   \* history: the newest sequence whose answer was pruned
    committed, \* the highest sequence processed
    booked,    \* bytes in the books
    carried,   \* history: bytes that passed through Xray
    faults     \* deaths and clock steps so far

clockVars == <<now, console, clockSet>>
agentVars == <<cursor, stopFile, idle, worker>>
bookVars == <<head, receipts, expired, committed, booked>>
vars == <<spoolVars, clockVars, xray, count, synced, agentVars, bookVars, carried, faults>>

Policies == {"EstablishBaseline", "CountFromZero"}
WorkerSteps == {"idle", "sampled", "dead", "final", "spawned"}

\* Mutant of Epoch: every process opens an epoch, whatever counter it continues.
EpochOfProcess == xray.id

\* The namespace a reading belongs to: one for the journal, otherwise the name of the
\* process, its start as the machine's clock dates it.
Epoch == IF Journal THEN 0 ELSE xray.id

Report == [seq : Nat, at : Int, started : Int, epoch : Nat, count : Nat, idle : SUBSET Int]
NoHead == [at |-> -1, epoch |-> -1, count |-> 0]
NoStop == [state |-> "none", at |-> 0, started |-> 0, epoch |-> 0, count |-> 0]

\* The records of agent, spool and books keep their shape, and answers are kept only of
\* sequences the cursor has passed (record_usage_report).
TypeOK ==
    /\ SpoolTypeOK(Report)
    /\ now \in Int
    /\ console \in Int
    /\ clockSet \subseteq {"back", "ahead"}
    /\ xray \in [up : BOOLEAN, id : Nat, started : Int]
    /\ count \in Nat
    /\ synced \in Nat
    /\ cursor \in Nat
    /\ stopFile \in [state : {"none", "unconfirmed", "confirmed"},
                     at : Int, started : Int, epoch : Nat, count : Nat]
    /\ idle \subseteq Int
    /\ worker \in WorkerSteps
    /\ head \in [at : Int, epoch : Nat, count : Nat] \cup {NoHead}
    /\ receipts \subseteq 1 .. committed
    /\ expired \in 0 .. committed
    /\ committed \in Nat
    /\ booked \in Nat
    /\ carried \in Nat
    /\ faults \in Nat

Init ==
    /\ SpoolInit
    /\ now = 1
    /\ console = 1
    /\ clockSet = {}
    /\ xray = [up |-> TRUE, id |-> 1, started |-> 1]
    /\ count = 0
    /\ synced = 0
    /\ cursor = 0
    /\ stopFile = NoStop
    /\ idle = {}
    /\ worker = "idle"
    /\ head = NoHead
    /\ receipts = {}
    /\ expired = 0
    /\ committed = 0
    /\ booked = 0
    /\ carried = 0
    /\ faults = 0

---------------------------------------------------------------------------
\* Traffic and time.

Carry ==
    /\ xray.up
    /\ carried < MaxBytes
    /\ count' = count + 1
    /\ carried' = carried + 1
    /\ UNCHANGED <<spoolVars, clockVars, xray, synced, agentVars, bookVars, faults>>

Tick ==
    /\ console < MaxTime
    /\ console' = console + 1
    /\ now' = now + 1
    /\ UNCHANGED <<spoolVars, clockSet, xray, count, synced, agentVars, bookVars, carried, faults>>

\* The machine's clock is set.  The kernel dates a running process from the same clock
\* (btime of /proc/stat), so its start and its name move too.
ClockSet(step) ==
    /\ "clock" \in Commands
    /\ faults < MaxFaults
    /\ now' = now + step
    /\ clockSet' = clockSet \cup {IF step < 0 THEN "back" ELSE "ahead"}
    /\ xray' = IF xray.up THEN [xray EXCEPT !.started = @ + step, !.id = @ + 1] ELSE xray
    /\ faults' = faults + 1
    /\ UNCHANGED <<spoolVars, console, count, synced, agentVars, bookVars, carried>>

---------------------------------------------------------------------------
\* The agent.  One lock serialises its samplers, stops and launches: "worker"
\* is how far the holder of that lock is, "idle" when it is free.

Move(from, to) ==
    /\ worker = from
    /\ worker' = to

\* A sequence is reserved on disk before the counter is read.
Reserve ==
    /\ cursor < MaxSeq
    /\ cursor' = cursor + 1

LiveReading(seq) ==
    [seq |-> seq, at |-> now, started |-> xray.started, epoch |-> Epoch, count |-> count,
     idle |-> idle]

\* A stopped Xray is reported with what its confirmed stop recorded: the start of the
\* process as it was dated then.
StoppedReading(seq, at) ==
    [seq |-> seq, at |-> at, started |-> stopFile.started,
     epoch |-> stopFile.epoch, count |-> stopFile.count, idle |-> idle]

\* The journal is synced before the live reading counts.
SyncJournal == synced' = IF Journal /\ xray.up THEN count ELSE synced

\* The downtime windows leave their file after the append, unless that fails.
Sample ==
    /\ worker = "idle"
    /\ xray.up \/ stopFile.state = "confirmed"
    /\ Reserve
    /\ Push(UsageSpool, IF xray.up THEN LiveReading(cursor') ELSE StoppedReading(cursor', now))
    /\ SyncJournal
    /\ idle' \in {{}, idle}
    /\ UNCHANGED <<clockVars, xray, count, stopFile, worker, bookVars, carried, faults>>

\* A full queue refuses the reading: the sequence is spent, and the counter
\* keeps its value for the next one.
SampleFails ==
    /\ worker = "idle"
    /\ xray.up \/ stopFile.state = "confirmed"
    /\ ~Room(UsageSpool)
    /\ Reserve
    /\ UNCHANGED <<spoolVars, clockVars, xray, count, synced, stopFile, idle, worker, bookVars, carried, faults>>

\* Stopping Xray begins with a durable sample; a full queue keeps Xray running.
Stop ==
    /\ "stop" \in Commands
    /\ xray.up
    /\ Move("idle", "sampled")
    /\ Reserve
    /\ Push(UsageSpool, LiveReading(cursor'))
    /\ SyncJournal
    /\ stopFile' = [state |-> "unconfirmed", at |-> 0, started |-> xray.started,
                    epoch |-> Epoch, count |-> count]
    /\ UNCHANGED <<clockVars, xray, count, idle, bookVars, carried, faults>>

Terminate ==
    /\ Move("sampled", "dead")
    /\ xray' = [xray EXCEPT !.up = FALSE]
    /\ UNCHANGED <<spoolVars, clockVars, count, synced, cursor, stopFile, idle, bookVars, carried, faults>>

\* The process is gone: the journal holds its last byte, a process without one
\* leaves what was sampled before.
Confirm ==
    /\ Move("dead", "final")
    /\ Reserve
    /\ stopFile' = [stopFile EXCEPT !.state = "confirmed", !.at = now,
                                    !.count = IF Journal THEN count ELSE @]
    /\ synced' = IF Journal THEN count ELSE synced
    /\ UNCHANGED <<spoolVars, clockVars, xray, count, idle, bookVars, carried, faults>>

\* The final reading; a full queue fails the stop, with Xray down.
PushFinal ==
    /\ Move("final", "idle")
    /\ \/ Push(UsageSpool, StoppedReading(cursor, stopFile.at))
       \/ ~Room(UsageSpool) /\ UNCHANGED spoolVars
    /\ UNCHANGED <<clockVars, xray, count, synced, cursor, stopFile, idle, bookVars, carried, faults>>

\* A release or the guard launches Xray.  A confirmed stop is reported once
\* more before, and the downtime it ends goes to a file; nothing is without a
\* stop, or if the clock did not advance.  A full queue refuses the launch.
Launch ==
    /\ ~xray.up
    /\ Move("idle", "spawned")
    /\ xray.id < MaxStarts
    /\ \/ /\ stopFile.state = "confirmed" => now <= stopFile.at
          /\ UNCHANGED <<spoolVars, cursor, idle>>
       \/ /\ stopFile.state = "confirmed"
          /\ now >= stopFile.at
          /\ Reserve
          /\ Push(UsageSpool, StoppedReading(cursor', now))
          /\ idle' = idle \cup {now}
    /\ xray' = [up |-> TRUE, id |-> xray.id + 1, started |-> now]
    /\ count' = IF Journal THEN count ELSE 0
    /\ UNCHANGED <<clockVars, synced, stopFile, bookVars, carried, faults>>

\* The listener answered: the checkpoint of the stop is removed.
Launched ==
    /\ Move("spawned", "idle")
    /\ stopFile' = NoStop
    /\ UNCHANGED <<spoolVars, clockVars, xray, count, synced, cursor, idle, bookVars, carried, faults>>

\* The listener did not answer in time; the process may still come up.
LaunchTimesOut ==
    /\ Move("spawned", "idle")
    /\ UNCHANGED <<spoolVars, clockVars, xray, count, synced, cursor, stopFile, idle, bookVars, carried, faults>>

\* The agent dies anywhere, a reserved sequence in hand or not.
AgentDies ==
    /\ "agent" \in Commands
    /\ faults < MaxFaults
    /\ Reserve \/ UNCHANGED cursor
    /\ worker' = "idle"
    /\ RoundLost
    /\ faults' = faults + 1
    /\ UNCHANGED <<clockVars, xray, count, synced, stopFile, idle, bookVars, carried>>

XrayDies ==
    /\ "xray" \in Commands
    /\ faults < MaxFaults
    /\ xray.up
    /\ xray' = [xray EXCEPT !.up = FALSE]
    /\ faults' = faults + 1
    /\ UNCHANGED <<spoolVars, clockVars, count, synced, agentVars, bookVars, carried>>

\* Power loss: the journal keeps at least what was synced.
MachineDies ==
    /\ "machine" \in Commands
    /\ faults < MaxFaults
    /\ xray' = [xray EXCEPT !.up = FALSE]
    /\ IF Journal THEN \E kept \in synced .. count : count' = kept
       ELSE UNCHANGED count
    /\ worker' = "idle"
    /\ RoundLost
    /\ faults' = faults + 1
    /\ UNCHANGED <<clockVars, synced, cursor, stopFile, idle, bookVars, carried>>

---------------------------------------------------------------------------
\* The control plane: one transaction per report.

\* A known sequence repeats its answer; one at or behind the cursor whose
\* receipt is gone is refused, and stays in the queue.
Known(r) == r.seq \in receipts
Behind(r) == ~Known(r) /\ r.seq <= committed

\* A reading dated before its process started, or before the end of a downtime it
\* carries, is refused whenever it arrives.
Misdated(r) == r.at < r.started \/ \E end \in r.idle : end > r.at

\* One dated too far ahead is refused until the control plane's clock is there.
Ahead(r) == r.at > console + MaxSkew

Refused(r) == Misdated(r) \/ Ahead(r) \/ Behind(r)

\* Within one epoch the counter only grows.
Usable(r) ==
    /\ r.at > head.at
    /\ ~(r.epoch = head.epoch /\ r.count < head.count)

Restarted(r) == r.epoch # head.epoch

WindowStart(r) ==
    IF Restarted(r) /\ r.started > head.at THEN r.started ELSE head.at

\* Mutant of Delta: a process that started after the baseline has nothing to book.
DeltaSkipped(r) == IF r.started > head.at THEN 0 ELSE r.count - head.count

Delta(r) ==
    IF WindowStart(r) >= r.at THEN 0
    ELSE IF Restarted(r) THEN r.count
    ELSE r.count - head.count

\* What the first reading means is frozen in its usage generation: a label a
\* known generation did not own counts in full, any other is a baseline.
FirstDelta(policy, r) == IF policy = "CountFromZero" THEN r.count ELSE 0

Baseline(r) == [at |-> r.at, epoch |-> r.epoch, count |-> r.count]

\* What a reading that was not seen before does to the baseline and the books.
Book(r) ==
    IF head = NoHead
    THEN /\ head' = Baseline(r)
         /\ \E policy \in Policies : booked' = booked + FirstDelta(policy, r)
    ELSE IF Usable(r)
    THEN /\ head' = Baseline(r)
         /\ booked' = booked + Delta(r)
    ELSE UNCHANGED <<head, booked>>

\* Mutant of Process: the cursor stays where it was.
ProcessUncommitted(r) ==
    /\ ~Refused(r)
    /\ IF Known(r) THEN UNCHANGED bookVars
       ELSE /\ receipts' = receipts \cup {r.seq}
            /\ Book(r)
            /\ UNCHANGED <<committed, expired>>

\* Mutant of Process: a reading that books nothing leaves no receipt.
ProcessUnreceipted(r) ==
    /\ ~Refused(r)
    /\ IF Known(r) THEN UNCHANGED bookVars
       ELSE /\ committed' = r.seq
            /\ receipts' = IF head = NoHead \/ Usable(r) THEN receipts \cup {r.seq} ELSE receipts
            /\ Book(r)
            /\ UNCHANGED expired

\* One transaction: refused, answered again, or booked with its receipt and cursor.
Process(r) ==
    /\ ~Refused(r)
    /\ IF Known(r) THEN UNCHANGED bookVars
       ELSE /\ committed' = r.seq
            /\ receipts' = receipts \cup {r.seq}
            /\ Book(r)
            /\ UNCHANGED expired

\* Answers are kept for a while, the oldest go first.
PruneReceipt ==
    /\ "prune" \in Commands
    /\ \E seq \in receipts :
          /\ \A other \in receipts : seq <= other
          /\ receipts' = receipts \ {seq}
          /\ expired' = seq
    /\ UNCHANGED <<spoolVars, clockVars, xray, count, synced, agentVars,
                   head, committed, booked, carried, faults>>

---------------------------------------------------------------------------
\* The reporter, concurrent with everything above.

Start ==
    /\ BeginRound
    /\ UNCHANGED <<clockVars, xray, count, synced, agentVars, bookVars, carried, faults>>

Deliver ==
    /\ Acknowledged
    /\ Process(InFlight)
    /\ UNCHANGED <<clockVars, xray, count, synced, agentVars, carried, faults>>

DeliverUnanswered ==
    /\ "lose" \in Commands
    /\ Sending
    /\ Process(InFlight)
    /\ EndRound
    /\ UNCHANGED <<clockVars, xray, count, synced, agentVars, carried, faults>>

\* All lines are answered, or a request failed or was refused.
Finish ==
    /\ \/ sent = Len(lines)
       \/ "lose" \in Commands
       \/ Sending /\ Refused(InFlight)
    /\ EndRound
    /\ UNCHANGED <<clockVars, xray, count, synced, agentVars, bookVars, carried, faults>>

Next ==
    \/ Carry \/ Tick \/ ClockSet(-1) \/ ClockSet(1)
    \/ Sample \/ SampleFails
    \/ Stop \/ Terminate \/ Confirm \/ PushFinal
    \/ Launch \/ Launched \/ LaunchTimesOut
    \/ AgentDies \/ XrayDies \/ MachineDies
    \/ PruneReceipt
    \/ Start \/ Deliver \/ DeliverUnanswered \/ Finish

Spec == Init /\ [][Next]_vars

---------------------------------------------------------------------------
\* No byte is booked twice, and none that was not carried, through replays, restarts,
\* power loss and readings of a stop that is long over (record_usage_report).
BookedOnce == booked <= carried

\* The usage queue retries every refusal, so a refused reading blocks all behind it.
\* Three things can make one: its answer expired before the agent read it
\* (prune_usage_report_receipts), or the machine's clock was set back, or ahead.  No lost
\* answer, no death between reserve_usage_sequence and the spool, no launch that timed
\* out and no stop reported again blocks the queue (record_usage_report).
OnlyExpiryOrClockBlocks ==
    \A i \in DOMAIN queue :
        /\ Behind(queue[i]) => queue[i].seq <= expired
        /\ Misdated(queue[i]) => "back" \in clockSet
        /\ Ahead(queue[i]) => "ahead" \in clockSet

\* The books implement the abstract meter: every report record_usage_report accepts
\* moves them to a level the counter reached, by the difference.
Ledger == INSTANCE UsageLedger WITH
    level <- IF head = NoHead THEN -1 ELSE head.count

ImplementsLedger == Ledger!Spec
=============================================================================
