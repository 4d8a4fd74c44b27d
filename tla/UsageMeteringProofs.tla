------------------------- MODULE UsageMeteringProofs -------------------------
(***************************************************************************)
(* Metering with a journal: the books implement the abstract ledger, and   *)
(* no byte is booked twice, for every depth of the spool, every mix of     *)
(* commands and faults and every bound.                                    *)
(*                                                                         *)
(* With a journal every reading belongs to one epoch and stands at a level *)
(* the counter reached.  The books stand at the level of the last baseline *)
(* and contain at most that level, so a later reading adds what is missing *)
(* and an older one nothing.                                               *)
(***************************************************************************)
EXTENDS UsageMetering, SequenceTheorems, TLAPS

(* What the operations of AgentSpool do to the file, whatever its lines.   *)

\* The spool holds lines of a set after a step.
HoldsNext(Item) ==
    /\ queue' \in Seq(Item) /\ lines' \in Seq(Item)
    /\ sent' \in 0 .. Len(lines') /\ dropped' \in Nat /\ torn' \in BOOLEAN

\* A step that leaves the spool alone keeps its lines.
LEMMA Unpushed ==
    ASSUME NEW Item, SpoolTypeOK(Item), UNCHANGED spoolVars
    PROVE  HoldsNext(Item)
<1> QED
  BY DEF SpoolTypeOK, HoldsNext, spoolVars

\* Readings are appended to a spool that keeps everything.
LEMMA UsageAppends ==
    ASSUME NEW r, Push(UsageSpool, r)
    PROVE  queue' = Append(queue, r) /\ UNCHANGED <<lines, sent, dropped, torn>>
<1> QED
  BY DEF Push, UsageSpool

\* An append adds one line of the set.
LEMMA PushHolds ==
    ASSUME NEW Item, SpoolTypeOK(Item), NEW item \in Item, Push(UsageSpool, item)
    PROVE  HoldsNext(Item)
<1>1. Append(queue, item) \in Seq(Item)
  BY DEF SpoolTypeOK
<1> QED
  BY <1>1, UsageAppends DEF SpoolTypeOK, HoldsNext

\* A round begins with what the file holds.
LEMMA BeginHolds ==
    ASSUME NEW Item, SpoolTypeOK(Item), BeginRound
    PROVE  HoldsNext(Item)
<1> QED
  BY DEF BeginRound, SpoolTypeOK, HoldsNext

\* An answered line changes nothing in the file.
LEMMA AcknowledgedHolds ==
    ASSUME NEW Item, SpoolTypeOK(Item), Acknowledged
    PROVE  HoldsNext(Item)
<1> QED
  BY DEF Acknowledged, Sending, SpoolTypeOK, HoldsNext

\* A round ends with the file, or with what of it was not answered.
LEMMA EndHolds ==
    ASSUME NEW Item, SpoolTypeOK(Item), EndRound
    PROVE  HoldsNext(Item)
<1>1. lines' = << >> /\ sent' = 0 /\ dropped' = dropped /\ torn' = torn
  BY DEF EndRound
<1>2. queue' = queue \/ (Len(queue) >= sent /\ queue' = SubSeq(queue, sent + 1, Len(queue)))
  BY DEF EndRound, HeadUnchanged
<1>3. queue \in Seq(Item) /\ sent \in Nat
  BY DEF SpoolTypeOK
<1>4. Len(queue) >= sent => SubSeq(queue, sent + 1, Len(queue)) \in Seq(Item)
  <2> SUFFICES ASSUME Len(queue) >= sent PROVE SubSeq(queue, sent + 1, Len(queue)) \in Seq(Item)
    OBVIOUS
  <2>1. \A i \in sent + 1 .. Len(queue) : i \in DOMAIN queue
    BY <1>3
  <2> QED
    BY <1>3, <2>1, SubSeqProperties
<1>5. queue' \in Seq(Item)
  BY <1>2, <1>3, <1>4
<1> QED
  BY <1>1, <1>5 DEF SpoolTypeOK, HoldsNext

\* A death forgets the round and keeps the file.
LEMMA LostHolds ==
    ASSUME NEW Item, SpoolTypeOK(Item), RoundLost
    PROVE  HoldsNext(Item)
<1> QED
  BY DEF RoundLost, SpoolTypeOK, HoldsNext

\* The line being sent is a line of the spool.
LEMMA InFlightHeld ==
    ASSUME NEW Item, SpoolTypeOK(Item), Sending
    PROVE  InFlight \in Item /\ sent + 1 \in DOMAIN lines
<1> QED
  BY DEF Sending, InFlight, SpoolTypeOK
----------------------------------------------------------------------------

\* The shape of the agent's state; the spool is treated apart.
AgentOK ==
    /\ now \in Int /\ console \in Int /\ clockSet \subseteq {"back", "ahead"}
    /\ xray \in [up : BOOLEAN, id : Nat, started : Int]
    /\ idle \subseteq Int
    /\ count \in Nat /\ synced \in 0 .. count /\ (~Journal => synced = 0)
    /\ cursor \in Nat
    /\ stopFile \in [state : {"none", "unconfirmed", "confirmed"},
                     at : Int, started : Int, epoch : Nat, count : Nat]
    /\ worker \in WorkerSteps
    /\ carried \in Nat /\ faults \in Nat

BooksOK ==
    /\ head \in [at : Int, epoch : Nat, count : Nat] \cup {NoHead}
    /\ committed \in Nat /\ expired \in 0 .. committed
    /\ receipts \subseteq 1 .. committed
    /\ booked \in Nat

Shapes == SpoolTypeOK(Report) /\ AgentOK /\ BooksOK

\* What a reading of the journal can be.
Readings(bytes) == {r \in Report : r.epoch = 0 /\ r.count <= bytes}

\* The level of the books, and what they contain.
Level ==
    \/ head = NoHead /\ booked = 0
    \/ /\ head \in [at : Int, epoch : {0}, count : 0 .. carried]
       /\ booked \in 0 .. head.count

Journaled ==
    /\ SpoolTypeOK(Readings(carried))
    /\ count <= carried
    /\ stopFile.epoch = 0 /\ stopFile.count <= carried
    /\ Level

----------------------------------------------------------------------------
(* The spool: every step appends a reading, or moves what is there.         *)

\* The steps that only move what is in the spool.
Moves == BeginRound \/ Acknowledged \/ EndRound \/ RoundLost \/ UNCHANGED spoolVars

LEMMA MovesHold ==
    ASSUME NEW Item, SpoolTypeOK(Item), Moves
    PROVE  HoldsNext(Item)
<1> QED
  BY BeginHolds, AcknowledgedHolds, EndHolds, LostHolds, Unpushed DEF Moves

LEMMA EpochType == ASSUME AgentOK PROVE Epoch \in Nat /\ (Journal => Epoch = 0)
<1> QED
  BY DEF AgentOK, Epoch

LEMMA LiveType ==
    ASSUME AgentOK, NEW seq \in Nat
    PROVE  /\ LiveReading(seq) \in Report
           /\ Journal /\ count <= carried => LiveReading(seq) \in Readings(carried)
<1>1. LiveReading(seq) \in Report
  BY EpochType DEF AgentOK, LiveReading, Report
<1> QED
  BY <1>1, EpochType DEF LiveReading, Readings

LEMMA StoppedType ==
    ASSUME AgentOK, NEW seq \in Nat, NEW at \in Int
    PROVE  /\ StoppedReading(seq, at) \in Report
           /\ stopFile.epoch = 0 /\ stopFile.count <= carried =>
                 StoppedReading(seq, at) \in Readings(carried)
<1>1. StoppedReading(seq, at) \in Report
  BY DEF AgentOK, StoppedReading, Report
<1> QED
  BY <1>1 DEF StoppedReading, Readings

\* A reading as some step takes it.
Taken(r) ==
    \E seq \in Nat :
        \/ xray.up /\ r = LiveReading(seq)
        \/ r = StoppedReading(seq, now)
        \/ worker = "final" /\ r = StoppedReading(seq, stopFile.at)

\* What a step does to the spool: it moves lines, or appends a reading taken now.
Spooled == Moves \/ \E r : Taken(r) /\ Push(UsageSpool, r)

LEMMA TakenType ==
    ASSUME AgentOK, NEW r, Taken(r)
    PROVE  /\ r \in Report
           /\ Journal /\ count <= carried /\ stopFile.epoch = 0 /\ stopFile.count <= carried =>
                 r \in Readings(carried)
<1>1. now \in Int /\ stopFile.at \in Int
  BY DEF AgentOK
<1>2. PICK seq \in Nat : r = LiveReading(seq) \/ \E at \in Int : r = StoppedReading(seq, at)
  BY <1>1 DEF Taken
<1>3. CASE r = LiveReading(seq)
  BY <1>3, LiveType
<1>4. ASSUME NEW at \in Int, r = StoppedReading(seq, at)
      PROVE  /\ r \in Report
             /\ stopFile.epoch = 0 /\ stopFile.count <= carried => r \in Readings(carried)
  BY <1>4, StoppedType
<1> QED
  BY <1>2, <1>3, <1>4

LEMMA SpooledHolds ==
    ASSUME NEW Item, SpoolTypeOK(Item), Spooled, \A r : Taken(r) => r \in Item
    PROVE  HoldsNext(Item)
<1>1. CASE Moves
  BY <1>1, MovesHold
<1>2. CASE \E r : Taken(r) /\ Push(UsageSpool, r)
  <2>1. PICK r : Taken(r) /\ Push(UsageSpool, r)
    BY <1>2
  <2> QED
    BY <2>1, PushHolds
<1> QED
  BY <1>1, <1>2 DEF Spooled

LEMMA SpooledReports ==
    ASSUME SpoolTypeOK(Report), AgentOK, Spooled
    PROVE  HoldsNext(Report)
<1> QED
  BY SpooledHolds, TakenType

LEMMA SpooledReadings ==
    ASSUME Journal, AgentOK, Journaled, Spooled
    PROVE  HoldsNext(Readings(carried))
<1>1. SpoolTypeOK(Readings(carried)) /\ \A r : Taken(r) => r \in Readings(carried)
  BY TakenType DEF Journaled
<1> QED
  BY <1>1, SpooledHolds

LEMMA EveryStepSpools ==
    ASSUME AgentOK, [Next]_vars
    PROVE  Spooled
<1>0. cursor \in Nat /\ cursor + 1 \in Nat
  BY DEF AgentOK
<1>1. CASE Carry \/ Tick \/ ClockSet(-1) \/ ClockSet(1) \/ SampleFails \/ Terminate \/ Confirm
           \/ Launched \/ LaunchTimesOut \/ XrayDies \/ PruneReceipt \/ UNCHANGED vars
  <2>1. UNCHANGED spoolVars
    BY <1>1 DEF Carry, Tick, ClockSet, SampleFails, Terminate, Confirm, Launched,
                LaunchTimesOut, XrayDies, PruneReceipt, vars
  <2> QED
    BY <2>1 DEF Spooled, Moves
<1>2. CASE Sample
  <2>1. cursor' = cursor + 1
    BY <1>2 DEF Sample, Reserve
  <2>2. CASE xray.up
    <3>1. Push(UsageSpool, LiveReading(cursor + 1))
      BY <1>2, <2>1, <2>2 DEF Sample
    <3>2. Taken(LiveReading(cursor + 1))
      BY <1>0, <2>2 DEF Taken
    <3> QED
      BY <3>1, <3>2 DEF Spooled
  <2>3. CASE ~xray.up
    <3>1. Push(UsageSpool, StoppedReading(cursor + 1, now))
      BY <1>2, <2>1, <2>3 DEF Sample
    <3>2. Taken(StoppedReading(cursor + 1, now))
      BY <1>0 DEF Taken
    <3> QED
      BY <3>1, <3>2 DEF Spooled
  <2> QED
    BY <2>2, <2>3
<1>3. CASE Stop
  <2>1. Push(UsageSpool, LiveReading(cursor + 1)) /\ xray.up
    BY <1>3 DEF Stop, Reserve
  <2>2. Taken(LiveReading(cursor + 1))
    BY <1>0, <2>1 DEF Taken
  <2> QED
    BY <2>1, <2>2 DEF Spooled
<1>4. CASE PushFinal
  <2>1. worker = "final" /\ (Push(UsageSpool, StoppedReading(cursor, stopFile.at)) \/ UNCHANGED spoolVars)
    BY <1>4 DEF PushFinal, Move
  <2>2. Taken(StoppedReading(cursor, stopFile.at))
    BY <1>0, <2>1 DEF Taken
  <2> QED
    BY <2>1, <2>2 DEF Spooled, Moves
<1>5. CASE Launch
  <2>1. Push(UsageSpool, StoppedReading(cursor + 1, now)) \/ UNCHANGED spoolVars
    BY <1>5 DEF Launch, Reserve
  <2>2. Taken(StoppedReading(cursor + 1, now))
    BY <1>0 DEF Taken
  <2> QED
    BY <2>1, <2>2 DEF Spooled, Moves
<1>6. CASE AgentDies \/ MachineDies
  BY <1>6 DEF AgentDies, MachineDies, Spooled, Moves
<1>7. CASE Start \/ Deliver \/ DeliverUnanswered \/ Finish
  BY <1>7 DEF Start, Deliver, DeliverUnanswered, Finish, Spooled, Moves
<1> QED
  BY <1>1, <1>2, <1>3, <1>4, <1>5, <1>6, <1>7 DEF Next

----------------------------------------------------------------------------
(* The books: a step processes a line of the spool, prunes an answer, or    *)
(* leaves them alone.                                                       *)

BookStep ==
    \/ UNCHANGED bookVars
    \/ Sending /\ Process(InFlight) /\ UNCHANGED carried
    \/ PruneReceipt

LEMMA EveryStepBooks ==
    ASSUME [Next]_vars
    PROVE  BookStep
<1>1. CASE Carry \/ Tick \/ ClockSet(-1) \/ ClockSet(1) \/ Sample \/ SampleFails \/ Stop
           \/ Terminate \/ Confirm \/ PushFinal \/ Launch \/ Launched \/ LaunchTimesOut \/ AgentDies \/ XrayDies
           \/ MachineDies \/ Start \/ Finish \/ UNCHANGED vars
  <2>1. UNCHANGED bookVars
    BY <1>1 DEF Carry, Tick, ClockSet, Sample, SampleFails, Stop, Terminate, Confirm,
                PushFinal, Launch, Launched, LaunchTimesOut, AgentDies, XrayDies,
                MachineDies, Start, Finish, vars
  <2> QED
    BY <2>1 DEF BookStep
<1>2. CASE Deliver \/ DeliverUnanswered
  BY <1>2 DEF Deliver, DeliverUnanswered, Acknowledged, BookStep
<1>3. CASE PruneReceipt
  BY <1>3 DEF BookStep
<1> QED
  BY <1>1, <1>2, <1>3 DEF Next

LEMMA BaselineType ==
    ASSUME NEW r \in Report
    PROVE  Baseline(r) \in [at : Int, epoch : Nat, count : Nat] /\ Baseline(r).count = r.count
           /\ Baseline(r).epoch = r.epoch /\ Baseline(r).at = r.at /\ Baseline(r) # NoHead
<1> QED
  BY DEF Report, Baseline, NoHead

\* Within the epoch of the baseline, the difference is what is booked.
LEMMA DeltaOfJournal ==
    ASSUME head \in [at : Int, epoch : {0}, count : Nat], NEW r \in Report, r.epoch = 0, Usable(r)
    PROVE  Delta(r) = r.count - head.count /\ r.count >= head.count
<1> QED
  BY DEF Report, Usable, Delta, WindowStart, Restarted

LEMMA DeltaType ==
    ASSUME head \in [at : Int, epoch : Nat, count : Nat], NEW r \in Report, Usable(r)
    PROVE  Delta(r) \in Nat
<1> QED
  BY DEF Report, Usable, Delta, WindowStart, Restarted

LEMMA BooksKept ==
    ASSUME BooksOK, UNCHANGED bookVars
    PROVE  BooksOK'
<1> QED
  BY DEF BooksOK, bookVars

LEMMA ProcessBooks ==
    ASSUME BooksOK, NEW r \in Report, Process(r)
    PROVE  BooksOK'
<1>1. CASE Known(r)
  BY <1>1, BooksKept DEF Process
<1>2. CASE ~Known(r)
  <2>1. /\ committed' = r.seq /\ receipts' = receipts \cup {r.seq} /\ expired' = expired
        /\ r.seq \in Nat /\ r.seq > committed /\ Book(r)
    BY <1>2 DEF Process, Refused, Behind, Report, BooksOK
  <2>2. committed' \in Nat /\ expired' \in 0 .. committed'
    BY <2>1 DEF BooksOK
  <2>4. receipts' \subseteq 1 .. committed'
    <3>1. r.seq \in 1 .. r.seq /\ 1 .. committed \subseteq 1 .. r.seq
      BY <2>1 DEF BooksOK
    <3> QED
      BY <2>1, <3>1 DEF BooksOK
  <2>3. \/ head' = Baseline(r) /\ booked' \in Nat
        \/ UNCHANGED <<head, booked>>
    <3>1. CASE head = NoHead
      <4>1. head' = Baseline(r) /\ \E policy \in Policies : booked' = booked + FirstDelta(policy, r)
        BY <2>1, <3>1 DEF Book
      <4>2. \A policy \in Policies : FirstDelta(policy, r) \in Nat
        BY DEF FirstDelta, Report
      <4> QED
        BY <4>1, <4>2 DEF BooksOK
    <3>2. CASE head # NoHead /\ Usable(r)
      <4>1. head \in [at : Int, epoch : Nat, count : Nat]
        BY <3>2 DEF BooksOK
      <4>2. head' = Baseline(r) /\ booked' = booked + Delta(r)
        BY <2>1, <3>2 DEF Book
      <4> QED
        BY <3>2, <4>1, <4>2, DeltaType DEF BooksOK
    <3>3. CASE head # NoHead /\ ~Usable(r)
      BY <2>1, <3>3 DEF Book
    <3> QED
      BY <3>1, <3>2, <3>3
  <2> QED
    BY <2>2, <2>3, <2>4, BaselineType DEF BooksOK
<1> QED
  BY <1>1, <1>2

LEMMA PruneBooks ==
    ASSUME BooksOK, PruneReceipt
    PROVE  BooksOK'
<1>1. PICK seq \in receipts : receipts' = receipts \ {seq} /\ expired' = seq
  BY DEF PruneReceipt
<1>2. UNCHANGED <<head, committed, booked>>
  BY DEF PruneReceipt
<1> QED
  BY <1>1, <1>2 DEF BooksOK

LEMMA BookStepTyped ==
    ASSUME SpoolTypeOK(Report), BooksOK, BookStep
    PROVE  BooksOK'
<1>1. CASE UNCHANGED bookVars
  BY <1>1, BooksKept
<1>2. CASE Sending /\ Process(InFlight)
  BY <1>2, InFlightHeld, ProcessBooks
<1>3. CASE PruneReceipt
  BY <1>3, PruneBooks
<1> QED
  BY <1>1, <1>2, <1>3 DEF BookStep

----------------------------------------------------------------------------
(* The agent.                                                               *)

LEMMA StopType ==
    ASSUME AgentOK
    PROVE  /\ [state |-> "unconfirmed", at |-> 0, started |-> xray.started,
               epoch |-> Epoch, count |-> count] \in
                  [state : {"none", "unconfirmed", "confirmed"},
                   at : Int, started : Int, epoch : Nat, count : Nat]
           /\ NoStop \in [state : {"none", "unconfirmed", "confirmed"},
                          at : Int, started : Int, epoch : Nat, count : Nat]
<1> QED
  BY EpochType DEF AgentOK, NoStop

LEMMA AgentTyped ==
    ASSUME AgentOK, [Next]_vars
    PROVE  AgentOK'
<1> USE DEF WorkerSteps
<1>1. CASE Carry \/ Tick \/ ClockSet(-1) \/ ClockSet(1)
  <2>1. /\ now' \in Int /\ console' \in Int
        /\ count' \in Nat /\ carried' \in Nat /\ faults' \in Nat /\ count' >= count
    BY <1>1 DEF Carry, Tick, ClockSet, clockVars, AgentOK
  <2>2. UNCHANGED <<synced, cursor, stopFile, idle, worker>>
    BY <1>1 DEF Carry, Tick, ClockSet, agentVars
  <2>3. clockSet' \subseteq {"back", "ahead"}
    BY <1>1 DEF Carry, Tick, ClockSet, clockVars, AgentOK
  <2>4. xray' \in [up : BOOLEAN, id : Nat, started : Int]
    <3>1. ASSUME NEW step \in {-1, 1}, ClockSet(step)
          PROVE  xray' \in [up : BOOLEAN, id : Nat, started : Int]
      <4>1. xray' = IF xray.up THEN [xray EXCEPT !.started = @ + step, !.id = @ + 1] ELSE xray
        BY <3>1 DEF ClockSet
      <4>2. xray.started + step \in Int /\ xray.id + 1 \in Nat
        BY DEF AgentOK
      <4> QED
        BY <4>1, <4>2 DEF AgentOK
    <3> QED
      BY <1>1, <3>1 DEF Carry, Tick, AgentOK
  <2> QED
    BY <2>1, <2>2, <2>3, <2>4 DEF AgentOK
<1>2. CASE Sample \/ SampleFails
  <2>1. UNCHANGED <<now, console, clockSet, xray, count, stopFile, worker, carried, faults>>
    BY <1>2 DEF Sample, SampleFails, clockVars
  <2>2. cursor' \in Nat /\ idle' \subseteq Int
    <3>1. cursor' = cursor + 1 /\ (idle' = {} \/ idle' = idle)
      BY <1>2 DEF Sample, SampleFails, Reserve
    <3>2. cursor \in Nat /\ idle \subseteq Int
      BY DEF AgentOK
    <3>3. CASE idle' = {}
      BY <3>1, <3>2, <3>3
    <3>4. CASE idle' = idle
      BY <3>1, <3>2, <3>4
    <3> QED
      BY <3>1, <3>3, <3>4
  <2>3. synced' \in 0 .. count /\ (~Journal => synced' = 0)
    BY <1>2 DEF Sample, SampleFails, SyncJournal, AgentOK
  <2> QED
    BY <2>1, <2>2, <2>3 DEF AgentOK
<1>3. CASE Stop
  <2>1. stopFile' \in [state : {"none", "unconfirmed", "confirmed"},
                       at : Int, started : Int, epoch : Nat, count : Nat]
    BY <1>3, StopType DEF Stop
  <2> QED
    BY <1>3, <2>1 DEF Stop, Move, Reserve, SyncJournal, clockVars, AgentOK
<1>4. CASE Terminate \/ Confirm \/ PushFinal
  <2>1. xray' \in [up : BOOLEAN, id : Nat, started : Int]
    BY <1>4 DEF Terminate, Confirm, PushFinal, AgentOK
  <2>2. stopFile' \in [state : {"none", "unconfirmed", "confirmed"},
                       at : Int, started : Int, epoch : Nat, count : Nat]
    BY <1>4 DEF Terminate, Confirm, PushFinal, AgentOK
  <2>3. synced' \in 0 .. count /\ (~Journal => synced' = 0) /\ cursor' \in Nat
    BY <1>4 DEF Terminate, Confirm, PushFinal, Reserve, AgentOK
  <2>4. worker' \in WorkerSteps /\ UNCHANGED <<now, console, clockSet, idle, count, carried, faults>>
    BY <1>4 DEF Terminate, Confirm, PushFinal, Move, clockVars
  <2> QED
    BY <2>1, <2>2, <2>3, <2>4 DEF AgentOK
<1>5. CASE Launch
  <2>1. /\ worker' = "spawned" /\ cursor' \in Nat
        /\ xray' \in [up : BOOLEAN, id : Nat, started : Int]
        /\ UNCHANGED <<now, console, clockSet, stopFile, carried, faults>>
    BY <1>5 DEF Launch, Move, Reserve, clockVars, AgentOK
  <2>3. idle' \subseteq Int
    BY <1>5 DEF Launch, AgentOK
  <2>2. count' \in Nat /\ synced' \in 0 .. count' /\ (~Journal => synced' = 0)
    BY <1>5 DEF Launch, AgentOK
  <2> QED
    BY <2>1, <2>2, <2>3 DEF AgentOK
<1>6. CASE Launched \/ LaunchTimesOut
  BY <1>6, StopType DEF Launched, LaunchTimesOut, Move, clockVars, AgentOK
<1>7. CASE AgentDies \/ XrayDies \/ MachineDies
  <2>1. xray' \in [up : BOOLEAN, id : Nat, started : Int]
    BY <1>7 DEF AgentDies, XrayDies, MachineDies, AgentOK
  <2>2. count' \in Nat /\ synced' \in 0 .. count' /\ (~Journal => synced' = 0)
    BY <1>7 DEF AgentDies, XrayDies, MachineDies, AgentOK
  <2>3. cursor' \in Nat /\ worker' \in WorkerSteps /\ faults' \in Nat
    BY <1>7 DEF AgentDies, XrayDies, MachineDies, Reserve, AgentOK, agentVars
  <2>4. UNCHANGED <<now, console, clockSet, idle, stopFile, carried>>
    BY <1>7 DEF AgentDies, XrayDies, MachineDies, agentVars, clockVars
  <2> QED
    BY <2>1, <2>2, <2>3, <2>4 DEF AgentOK
<1>8. CASE PruneReceipt \/ Start \/ Deliver \/ DeliverUnanswered \/ Finish \/ UNCHANGED vars
  BY <1>8 DEF PruneReceipt, Start, Deliver, DeliverUnanswered, Finish, AgentOK, agentVars, clockVars, vars
<1> QED
  BY <1>1, <1>2, <1>3, <1>4, <1>5, <1>6, <1>7, <1>8 DEF Next

----------------------------------------------------------------------------
(* The journal: readings stand at levels the counter reached.               *)

LEMMA CarriedGrows ==
    ASSUME AgentOK, [Next]_vars
    PROVE  carried' \in Nat /\ carried <= carried'
<1>1. CASE Carry
  BY <1>1 DEF Carry, AgentOK
<1>2. CASE UNCHANGED carried
  BY <1>2 DEF AgentOK
<1>3. Carry \/ UNCHANGED carried
  BY DEF Next, Tick, ClockSet, Sample, SampleFails, Stop, Terminate, Confirm, PushFinal, Launch,
         Launched, LaunchTimesOut, AgentDies, XrayDies, MachineDies, PruneReceipt, Start, Deliver,
         DeliverUnanswered, Finish, vars
<1> QED
  BY <1>1, <1>2, <1>3

LEMMA CounterKept ==
    ASSUME Journal, AgentOK, Journaled, [Next]_vars
    PROVE  /\ count' <= carried'
           /\ stopFile'.epoch = 0 /\ stopFile'.count <= carried'
<1>0. /\ count \in Nat /\ carried \in Nat /\ count <= carried /\ synced \in 0 .. count
      /\ stopFile.epoch = 0 /\ stopFile.count <= carried /\ stopFile.count \in Nat
  BY DEF AgentOK, Journaled
<1>1. CASE Carry
  BY <1>0, <1>1 DEF Carry, agentVars
<1>2. CASE Stop
  BY <1>0, <1>2, EpochType DEF Stop
<1>3. CASE Confirm
  <2>1. stopFile' = [stopFile EXCEPT !.state = "confirmed", !.at = now, !.count = count]
    BY <1>3 DEF Confirm
  <2>2. UNCHANGED <<count, carried>>
    BY <1>3 DEF Confirm
  <2>3. stopFile'.epoch = 0 /\ stopFile'.count = count
    BY <1>0, <2>1 DEF AgentOK
  <2> QED
    BY <1>0, <2>2, <2>3
<1>4. CASE Launched
  BY <1>0, <1>4 DEF Launched, NoStop
<1>5. CASE MachineDies
  BY <1>0, <1>5 DEF MachineDies
<1>6. CASE Tick \/ ClockSet(-1) \/ ClockSet(1) \/ Sample \/ SampleFails \/ Terminate
           \/ PushFinal \/ Launch \/ LaunchTimesOut \/ AgentDies \/ XrayDies \/ PruneReceipt \/ Start \/ Deliver
           \/ DeliverUnanswered \/ Finish \/ UNCHANGED vars
  <2>1. UNCHANGED <<count, stopFile, carried>>
    BY <1>6 DEF Tick, ClockSet, Sample, SampleFails, Terminate, PushFinal, Launch,
                LaunchTimesOut, AgentDies, XrayDies, PruneReceipt, Start, Deliver,
                DeliverUnanswered, Finish, agentVars, vars
  <2> QED
    BY <1>0, <2>1
<1> QED
  BY <1>1, <1>2, <1>3, <1>4, <1>5, <1>6 DEF Next

\* A processed reading opens the books, moves them up, or changes nothing.
LEMMA ProcessMoves ==
    ASSUME AgentOK, Level, NEW r \in Readings(carried), Process(r)
    PROVE  \/ UNCHANGED <<head, booked>>
           \/ /\ head = NoHead /\ head' = Baseline(r)
              /\ booked' \in {booked, booked + r.count}
           \/ /\ head # NoHead /\ head' = Baseline(r) /\ r.count >= head.count
              /\ booked' = booked + (r.count - head.count)
<1>1. CASE Known(r)
  BY <1>1 DEF Process, bookVars
<1>2. CASE ~Known(r) /\ head = NoHead
  <2>1. head' = Baseline(r) /\ \E policy \in Policies : booked' = booked + FirstDelta(policy, r)
    BY <1>2 DEF Process, Book
  <2>2. \A policy \in Policies : FirstDelta(policy, r) \in {0, r.count}
    BY DEF FirstDelta
  <2>3. booked + 0 = booked
    BY DEF Level
  <2> QED
    BY <1>2, <2>1, <2>2, <2>3
<1>3. CASE ~Known(r) /\ head # NoHead /\ Usable(r)
  <2>1. head \in [at : Int, epoch : {0}, count : Nat] /\ r \in Report /\ r.epoch = 0
    BY <1>3 DEF Level, Readings, AgentOK
  <2>2. head' = Baseline(r) /\ booked' = booked + Delta(r)
    BY <1>3 DEF Process, Book
  <2> QED
    BY <1>3, <2>1, <2>2, DeltaOfJournal
<1>4. CASE ~Known(r) /\ head # NoHead /\ ~Usable(r)
  BY <1>4 DEF Process, Book
<1> QED
  BY <1>1, <1>2, <1>3, <1>4

\* What a step does to the books, in the words of the ledger.
LEMMA BooksMove ==
    ASSUME AgentOK, Journaled, [Next]_vars
    PROVE  \/ UNCHANGED <<head, booked>>
           \/ /\ UNCHANGED carried
              /\ \E r \in Readings(carried) :
                    \/ /\ head = NoHead /\ head' = Baseline(r)
                       /\ booked' \in {booked, booked + r.count}
                    \/ /\ head # NoHead /\ head' = Baseline(r) /\ r.count >= head.count
                       /\ booked' = booked + (r.count - head.count)
<1>1. CASE UNCHANGED bookVars
  BY <1>1 DEF bookVars
<1>2. CASE PruneReceipt
  BY <1>2 DEF PruneReceipt
<1>3. CASE Sending /\ Process(InFlight) /\ UNCHANGED carried
  <2>1. InFlight \in Readings(carried)
    BY <1>3, InFlightHeld DEF Journaled
  <2> QED
    BY <1>3, <2>1, ProcessMoves DEF Journaled
<1> QED
  BY <1>1, <1>2, <1>3, EveryStepBooks DEF BookStep

LEMMA LevelKept ==
    ASSUME AgentOK, Journaled, [Next]_vars
    PROVE  Level'
<1>0. carried \in Nat /\ carried' \in Nat /\ carried <= carried' /\ Level
  BY CarriedGrows DEF AgentOK, Journaled
<1>1. CASE UNCHANGED <<head, booked>>
  <2>1. 0 .. carried \subseteq 0 .. carried'
    BY <1>0
  <2> QED
    BY <1>0, <1>1, <2>1 DEF Level
<1>2. ASSUME UNCHANGED carried, NEW r \in Readings(carried),
             \/ /\ head = NoHead /\ head' = Baseline(r)
                /\ booked' \in {booked, booked + r.count}
             \/ /\ head # NoHead /\ head' = Baseline(r) /\ r.count >= head.count
                /\ booked' = booked + (r.count - head.count)
      PROVE  Level'
  <2>1. r \in Report /\ r.epoch = 0 /\ r.count \in 0 .. carried
    BY <1>0 DEF Readings, Report
  <2>2. head' = Baseline(r) /\ head' \in [at : Int, epoch : {0}, count : 0 .. carried]
        /\ head'.count = r.count
    BY <1>2, <2>1 DEF Baseline, Report
  <2>3. CASE head = NoHead
    <3>1. booked = 0
      BY <1>0, <2>3 DEF Level, NoHead
    <3> QED
      BY <1>2, <2>1, <2>2, <2>3, <3>1 DEF Level
  <2>4. CASE head # NoHead
    <3>1. booked \in 0 .. head.count /\ head.count \in Nat
      BY <1>0, <2>4 DEF Level
    <3>2. booked' \in 0 .. r.count
      BY <1>2, <2>1, <2>4, <3>1
    <3> QED
      BY <1>2, <2>2, <3>2 DEF Level
  <2> QED
    BY <2>3, <2>4
<1> QED
  BY <1>1, <1>2, BooksMove

----------------------------------------------------------------------------
(* The theorems.                                                            *)

LEMMA ShapesHold == Spec => []Shapes
<1>1. Init => Shapes
  <2> SUFFICES ASSUME Init PROVE Shapes
    OBVIOUS
  <2>1. SpoolTypeOK(Report)
    <3>1. queue = << >> /\ lines = << >> /\ sent = 0 /\ dropped = 0 /\ torn = FALSE
      BY DEF Init, SpoolInit
    <3>2. << >> \in Seq(Report) /\ Len(<< >>) = 0
      OBVIOUS
    <3>3. queue \in Seq(Report) /\ lines \in Seq(Report) /\ sent \in 0 .. Len(lines) /\ dropped \in Nat
      BY <3>1, <3>2
    <3>4. torn \in BOOLEAN
      BY <3>1
    <3> QED
      BY <3>3, <3>4 DEF SpoolTypeOK
  <2>2. AgentOK /\ BooksOK
    BY DEF Init, AgentOK, BooksOK, WorkerSteps, NoStop, NoHead
  <2> QED
    BY <2>1, <2>2 DEF Shapes
<1>2. Shapes /\ [Next]_vars => Shapes'
  <2> SUFFICES ASSUME Shapes, [Next]_vars PROVE Shapes'
    OBVIOUS
  <2>0. SpoolTypeOK(Report) /\ AgentOK /\ BooksOK
    BY DEF Shapes
  <2>1. Spooled /\ BookStep
    BY <2>0, EveryStepSpools, EveryStepBooks
  <2>2. HoldsNext(Report)
    BY <2>0, <2>1, SpooledReports
  <2>3. AgentOK' /\ BooksOK'
    BY <2>0, <2>1, AgentTyped, BookStepTyped
  <2> QED
    BY <2>2, <2>3 DEF Shapes, SpoolTypeOK, HoldsNext, Report
<1> QED
  BY <1>1, <1>2, PTL DEF Spec

LEMMA JournalHolds == ASSUME Journal PROVE Spec => []Journaled
<1>1. Init => Journaled
  <2> SUFFICES ASSUME Init PROVE Journaled
    OBVIOUS
  <2>1. SpoolTypeOK(Readings(carried))
    <3>1. queue = << >> /\ lines = << >> /\ sent = 0 /\ dropped = 0 /\ torn = FALSE
      BY DEF Init, SpoolInit
    <3>2. << >> \in Seq(Readings(carried)) /\ Len(<< >>) = 0
      OBVIOUS
    <3>3. /\ queue \in Seq(Readings(carried)) /\ lines \in Seq(Readings(carried))
          /\ sent \in 0 .. Len(lines) /\ dropped \in Nat
      BY <3>1, <3>2
    <3>4. torn \in BOOLEAN
      BY <3>1
    <3> QED
      BY <3>3, <3>4 DEF SpoolTypeOK
  <2>2. count <= carried /\ stopFile.epoch = 0 /\ stopFile.count <= carried /\ Level
    BY DEF Init, Level, NoStop
  <2> QED
    BY <2>1, <2>2 DEF Journaled
<1>2. Shapes /\ Journaled /\ [Next]_vars => Journaled'
  <2> SUFFICES ASSUME Shapes, Journaled, [Next]_vars PROVE Journaled'
    OBVIOUS
  <2>0. AgentOK /\ carried \in Nat
    BY DEF Shapes, AgentOK
  <2>1. HoldsNext(Readings(carried))
    BY <2>0, EveryStepSpools, SpooledReadings
  <2>2. SpoolTypeOK(Readings(carried))'
    <3>1. carried' \in Nat /\ carried <= carried'
      BY <2>0, CarriedGrows
    <3>2. Readings(carried) \subseteq Readings(carried')
      BY <2>0, <3>1 DEF Readings, Report
    <3>3. queue' \in Seq(Readings(carried')) /\ lines' \in Seq(Readings(carried'))
      BY <2>1, <3>2, SeqDef DEF HoldsNext
    <3> QED
      BY <2>1, <3>3 DEF SpoolTypeOK, HoldsNext, Readings, Report
  <2> QED
    BY <2>0, <2>2, CounterKept, LevelKept DEF Journaled
<1> QED
  BY <1>1, <1>2, ShapesHold, PTL DEF Spec

\* The records of agent, spool and books keep their shape, and answers are kept only of
\* sequences the cursor has passed, with and without a journal (record_usage_report).
THEOREM TypeCorrect == Spec => []TypeOK
<1>1. Shapes => TypeOK
  BY DEF Shapes, AgentOK, BooksOK, TypeOK, SpoolTypeOK
<1> QED
  BY <1>1, ShapesHold, PTL

\* With a journal no byte is booked twice, and none that was not carried, whatever is
\* replayed, lost, refused, pruned or restarted (record_usage_report).
THEOREM JournalBooksOnce == ASSUME Journal PROVE Spec => []BookedOnce
<1>1. Shapes /\ Journaled => BookedOnce
  BY DEF Shapes, AgentOK, Journaled, Level, BookedOnce
<1> QED
  BY <1>1, ShapesHold, JournalHolds, PTL

\* With a journal every step of machine, agent, spool and control plane is a step of the
\* abstract meter or changes nothing it sees (record_usage_report).
THEOREM JournalImplementsLedger == ASSUME Journal PROVE Spec => ImplementsLedger
<1>1. Init => Ledger!Init
  BY DEF Init, Ledger!Init
<1>2. Shapes /\ Journaled /\ [Next]_vars => [Ledger!Next]_(Ledger!ledgerVars)
  <2> SUFFICES ASSUME Shapes, Journaled, [Next]_vars
               PROVE  Ledger!Next \/ UNCHANGED Ledger!ledgerVars
    OBVIOUS
  <2>0. AgentOK /\ carried \in Nat
    BY DEF Shapes, AgentOK
  <2>1. CASE UNCHANGED <<head, booked>>
    <3>1. carried' = carried + 1 \/ carried' = carried
      BY DEF Next, Carry, Tick, ClockSet, Sample, SampleFails, Stop, Terminate, Confirm, PushFinal,
             Launch, Launched, LaunchTimesOut, AgentDies, XrayDies, MachineDies, PruneReceipt,
             Start, Deliver, DeliverUnanswered, Finish, vars
    <3> QED
      BY <2>1, <3>1 DEF Ledger!Next, Ledger!Carry, Ledger!ledgerVars
  <2>2. ASSUME UNCHANGED carried, NEW r \in Readings(carried),
               head = NoHead, head' = Baseline(r), booked' \in {booked, booked + r.count}
        PROVE  Ledger!Open
    <3>1. r.count \in 0 .. carried /\ head' # NoHead /\ head'.count = r.count
      BY <2>0, <2>2, BaselineType DEF Readings, Report
    <3> QED
      BY <2>2, <3>1 DEF Ledger!Open
  <2>3. ASSUME UNCHANGED carried, NEW r \in Readings(carried),
               head # NoHead, head' = Baseline(r), r.count >= head.count,
               booked' = booked + (r.count - head.count)
        PROVE  Ledger!Book
    <3>1. r.count \in 0 .. carried /\ head' # NoHead /\ head'.count = r.count
      BY <2>0, <2>3, BaselineType DEF Readings, Report
    <3>2. head.count \in 0 .. carried
      BY <2>3 DEF Journaled, Level
    <3> QED
      BY <2>0, <2>3, <3>1, <3>2 DEF Ledger!Book
  <2> QED
    BY <2>0, <2>1, <2>2, <2>3, BooksMove DEF Ledger!Next
<1> QED
  BY <1>1, <1>2, ShapesHold, JournalHolds, PTL DEF Spec, ImplementsLedger, Ledger!Spec

----------------------------------------------------------------------------
(* The head of the queue.  The usage spool loses nothing, so what a round   *)
(* read is a prefix of the file, in the order of the sequences; what the    *)
(* books have passed, they have answered.                                   *)

Seqs(i) == queue[i].seq

InSequence ==
    /\ \A i, j \in 1 .. Len(queue) : i < j => Seqs(i) < Seqs(j)
    /\ Len(lines) <= Len(queue) /\ \A i \in 1 .. Len(lines) : lines[i] = queue[i]

\* A sequence in hand, between Confirm and PushFinal, is newer than all in the file.
Reserved ==
    /\ committed <= cursor /\ \A i \in 1 .. Len(queue) : Seqs(i) <= cursor
    /\ worker = "final" => committed < cursor /\ \A i \in 1 .. Len(queue) : Seqs(i) < cursor

Passed ==
    /\ \A k \in 1 .. sent : Seqs(k) <= committed
    /\ \A i \in 1 .. Len(queue) :
          Seqs(i) <= committed => Seqs(i) \in receipts \/ Seqs(i) <= expired
    /\ \A seq \in receipts : expired < seq

Clear == InSequence /\ Reserved /\ Passed

LEMMA Numbers ==
    ASSUME Shapes
    PROVE  /\ queue \in Seq(Report) /\ lines \in Seq(Report) /\ sent \in 0 .. Len(lines)
           /\ DOMAIN queue = 1 .. Len(queue)
           /\ \A i \in 1 .. Len(queue) : Seqs(i) \in Nat
           /\ cursor \in Nat /\ committed \in Nat /\ expired \in 0 .. committed
           /\ receipts \subseteq 1 .. committed
<1>1. queue \in Seq(Report) /\ lines \in Seq(Report) /\ sent \in 0 .. Len(lines)
  BY DEF Shapes, SpoolTypeOK
<1>2. \A i \in 1 .. Len(queue) : Seqs(i) \in Nat
  <2>1. \A i \in 1 .. Len(queue) : queue[i] \in Report
    BY <1>1
  <2>2. \A r \in Report : r.seq \in Nat
    BY DEF Report
  <2> QED
    BY <2>1, <2>2 DEF Seqs
<1> QED
  BY <1>1, <1>2 DEF Shapes, AgentOK, BooksOK

\* The file and the books stay as they are.
LEMMA QuietKeeps ==
    ASSUME Shapes, Clear, UNCHANGED <<queue, bookVars>>,
           \/ UNCHANGED <<lines, sent>>
           \/ lines' = << >> /\ sent' = 0
           \/ lines' = queue /\ sent' = 0,
           cursor' \in Nat, cursor' >= cursor,
           worker' = "final" => (worker = "final" /\ cursor' = cursor) \/ cursor' > cursor
    PROVE  Clear'
<1>1. InSequence'
  BY Numbers DEF Clear, InSequence, Seqs
<1>2. Reserved'
  <2>1. committed' = committed /\ queue' = queue
    BY DEF bookVars
  <2> QED
    BY <2>1, Numbers DEF Clear, Reserved, Seqs
<1>3. Passed'
  BY Numbers DEF Clear, Passed, Seqs, bookVars
<1> QED
  BY <1>1, <1>2, <1>3 DEF Clear

\* A reading is appended under a sequence that is newer than all before.
LEMMA AppendKeeps ==
    ASSUME Shapes, Clear, NEW r \in Report, queue' = Append(queue, r),
           UNCHANGED <<lines, sent, bookVars>>, worker' # "final",
           r.seq = cursor', committed < cursor',
           \A i \in 1 .. Len(queue) : Seqs(i) < cursor'
    PROVE  Clear'
<1>1. /\ Len(queue') = Len(queue) + 1 /\ Len(queue) \in Nat
      /\ \A i \in 1 .. Len(queue) : queue'[i] = queue[i]
      /\ queue'[Len(queue) + 1] = r
  BY Numbers
<1>2. \A i \in 1 .. Len(queue') : i \in 1 .. Len(queue) \/ i = Len(queue) + 1
  BY <1>1
<1>3. r.seq \in Nat
  BY DEF Report
<1>4. InSequence'
  <2>1. \A i, j \in 1 .. Len(queue') : i < j => Seqs(i)' < Seqs(j)'
    <3> SUFFICES ASSUME NEW i \in 1 .. Len(queue'), NEW j \in 1 .. Len(queue'), i < j
                 PROVE  queue'[i].seq < queue'[j].seq
      BY DEF Seqs
    <3>1. i \in 1 .. Len(queue)
      BY <1>1
    <3> QED
      BY <1>1, <1>2, <3>1 DEF Clear, InSequence, Seqs
  <2>2. Len(lines) <= Len(queue') /\ \A i \in 1 .. Len(lines) : lines[i] = queue'[i]
    BY <1>1, Numbers DEF Clear, InSequence
  <2> QED
    BY <2>1, <2>2 DEF InSequence
<1>5. Reserved'
  <2>1. \A i \in 1 .. Len(queue') : queue'[i].seq <= cursor'
    BY <1>1, <1>2, <1>3, Numbers DEF Seqs
  <2> QED
    BY <1>3, <2>1, Numbers DEF Reserved, Seqs, bookVars
<1>6. Passed'
  <2>1. \A k \in 1 .. sent : k \in 1 .. Len(queue)
    BY <1>1, Numbers DEF Clear, InSequence
  <2>2. \A k \in 1 .. sent : queue'[k].seq <= committed
    BY <1>1, <2>1 DEF Clear, Passed, Seqs
  <2>3. \A i \in 1 .. Len(queue') :
           queue'[i].seq <= committed => queue'[i].seq \in receipts \/ queue'[i].seq <= expired
    BY <1>1, <1>2, <1>3, Numbers DEF Clear, Passed, Seqs
  <2> QED
    BY <2>2, <2>3 DEF Clear, Passed, Seqs, bookVars
<1> QED
  BY <1>4, <1>5, <1>6 DEF Clear

\* The line being sent is the first of the file that the books may not have passed.
LEMMA NextLine ==
    ASSUME Shapes, Clear, Sending
    PROVE  /\ sent + 1 \in 1 .. Len(queue) /\ InFlight = queue[sent + 1] /\ InFlight \in Report
           /\ InFlight.seq = Seqs(sent + 1)
           /\ \A i \in 1 .. Len(queue) : Seqs(i) < InFlight.seq => Seqs(i) <= committed
<1>1. sent + 1 \in 1 .. Len(lines) /\ sent + 1 \in 1 .. Len(queue)
  BY Numbers DEF Sending, Clear, InSequence
<1>2. InFlight = queue[sent + 1]
  BY <1>1 DEF InFlight, Clear, InSequence
<1>3. InFlight \in Report
  BY <1>1, <1>2, Numbers
<1>4. ASSUME NEW i \in 1 .. Len(queue), Seqs(i) < Seqs(sent + 1)
      PROVE  Seqs(i) <= committed
  <2>1. ~(sent + 1 < i) /\ i # sent + 1
    BY <1>1, <1>4, Numbers DEF Clear, InSequence
  <2>2. i \in 1 .. sent
    BY <2>1, Numbers
  <2> QED
    BY <2>2 DEF Clear, Passed
<1> QED
  BY <1>1, <1>2, <1>3, <1>4 DEF Seqs

\* What the books do with that line leaves every line they passed answered.
LEMMA ProcessPasses ==
    ASSUME Shapes, Clear, Sending, Process(InFlight)
    PROVE  /\ committed <= committed' /\ InFlight.seq <= committed' /\ committed' \in Nat
           /\ committed' \in {committed, InFlight.seq}
           /\ \A i \in 1 .. Len(queue) :
                 Seqs(i) <= committed' => Seqs(i) \in receipts' \/ Seqs(i) <= expired'
           /\ \A seq \in receipts' : expired' < seq
<1>0. InFlight.seq \in Nat
  BY NextLine DEF Report
<1>1. CASE Known(InFlight)
  <2>1. UNCHANGED bookVars /\ InFlight.seq \in receipts
    BY <1>1 DEF Process, Known
  <2>2. InFlight.seq <= committed /\ committed \in Nat
    BY <2>1, Numbers
  <2>3. committed' = committed /\ receipts' = receipts /\ expired' = expired
    BY <2>1 DEF bookVars
  <2> QED
    BY <2>2, <2>3 DEF Clear, Passed
<1>2. CASE ~Known(InFlight)
  <2>1. /\ committed' = InFlight.seq /\ receipts' = receipts \cup {InFlight.seq}
        /\ expired' = expired /\ InFlight.seq > committed
    BY <1>0, <1>2, Numbers DEF Process, Refused, Behind
  <2>2. \A i \in 1 .. Len(queue) :
           Seqs(i) <= InFlight.seq => Seqs(i) <= committed \/ Seqs(i) = InFlight.seq
    BY <1>0, NextLine, Numbers
  <2>3. expired < InFlight.seq /\ committed <= InFlight.seq
    BY <1>0, <2>1, Numbers
  <2> QED
    BY <1>0, <2>1, <2>2, <2>3 DEF Clear, Passed
<1> QED
  BY <1>1, <1>2

\* The cursor of the machine stays ahead of the books.
LEMMA ReservedAfter ==
    ASSUME Shapes, Clear, Sending, Process(InFlight), UNCHANGED agentVars
    PROVE  /\ committed' <= cursor'
           /\ worker' = "final" => committed' < cursor'
<1>1. InFlight.seq <= cursor /\ (worker = "final" => InFlight.seq < cursor)
  BY NextLine DEF Clear, Reserved
<1>2. committed' = committed \/ committed' = InFlight.seq
  BY ProcessPasses
<1> QED
  BY <1>1, <1>2 DEF Clear, Reserved, agentVars

LEMMA DeliverKeeps ==
    ASSUME Shapes, Clear, Deliver
    PROVE  Clear'
<1>1. /\ Sending /\ Process(InFlight) /\ sent' = sent + 1
      /\ UNCHANGED <<queue, lines, cursor, worker>> /\ UNCHANGED agentVars
  BY DEF Deliver, Acknowledged, agentVars
<1>2. InSequence'
  BY <1>1 DEF Clear, InSequence, Seqs
<1>3. Reserved'
  BY <1>1, ReservedAfter DEF Clear, Reserved, Seqs
<1>4. \A k \in 1 .. sent + 1 : Seqs(k) <= committed'
  <2> SUFFICES ASSUME NEW k \in 1 .. sent + 1 PROVE Seqs(k) <= committed'
    OBVIOUS
  <2>1. CASE k = sent + 1
    BY <1>1, <2>1, NextLine, ProcessPasses
  <2>2. CASE k \in 1 .. sent
    <3>1. Seqs(k) <= committed /\ k \in 1 .. Len(queue)
      BY <1>1, <2>2, NextLine, Numbers DEF Clear, Passed
    <3>2. Seqs(k) \in Nat /\ committed \in Nat /\ committed' \in Nat /\ committed <= committed'
      BY <1>1, <3>1, Numbers, ProcessPasses
    <3> QED
      BY <3>1, <3>2
  <2> QED
    BY <2>1, <2>2, Numbers
<1>5. Passed'
  BY <1>1, <1>4, ProcessPasses DEF Passed, Seqs
<1> QED
  BY <1>2, <1>3, <1>5 DEF Clear

\* The file after a round is what it was, or its end.
LEMMA EndShifts ==
    ASSUME Shapes, EndRound
    PROVE  /\ lines' = << >> /\ sent' = 0
           /\ \E k \in Nat : /\ Len(queue') = Len(queue) - k /\ Len(queue') \in Nat
                            /\ \A i \in 1 .. Len(queue') :
                                  k + i \in 1 .. Len(queue) /\ queue'[i] = queue[k + i]
<1>0. queue \in Seq(Report) /\ Len(queue) \in Nat /\ sent \in Nat
  BY Numbers
<1>1. lines' = << >> /\ sent' = 0
  BY DEF EndRound
<1>2. CASE queue' = queue
  <2>1. /\ Len(queue') = Len(queue) - 0 /\ Len(queue') \in Nat
        /\ \A i \in 1 .. Len(queue') : 0 + i \in 1 .. Len(queue) /\ queue'[i] = queue[0 + i]
    BY <1>0, <1>2
  <2> QED
    BY <1>1, <2>1
<1>3. CASE Len(queue) >= sent /\ queue' = SubSeq(queue, sent + 1, Len(queue))
  <2>1. \A i \in sent + 1 .. Len(queue) : queue[i] \in Report
    BY <1>0
  <2>2. /\ Len(queue') = IF sent + 1 <= Len(queue) THEN Len(queue) - (sent + 1) + 1 ELSE 0
        /\ \A i \in 1 .. Len(queue) - (sent + 1) + 1 : queue'[i] = queue[(sent + 1) + i - 1]
    BY <1>0, <1>3, <2>1, SubSeqProperties
  <2>3. Len(queue') = Len(queue) - sent /\ Len(queue') \in Nat
    BY <1>0, <1>3, <2>2
  <2>4. \A i \in 1 .. Len(queue') : sent + i \in 1 .. Len(queue) /\ queue'[i] = queue[sent + i]
    BY <1>0, <2>2, <2>3
  <2> QED
    BY <1>0, <1>1, <2>3, <2>4
<1>4. queue' = queue \/ (Len(queue) >= sent /\ queue' = SubSeq(queue, sent + 1, Len(queue)))
  BY DEF EndRound, HeadUnchanged
<1> QED
  BY <1>2, <1>3, <1>4

LEMMA EndKeeps ==
    ASSUME Shapes, Clear, EndRound, UNCHANGED agentVars,
           UNCHANGED bookVars \/ (Sending /\ Process(InFlight))
    PROVE  Clear'
<1>0. lines' = << >> /\ sent' = 0
  BY EndShifts
<1>1. PICK k \in Nat : /\ Len(queue') = Len(queue) - k /\ Len(queue') \in Nat
                       /\ \A i \in 1 .. Len(queue') :
                             k + i \in 1 .. Len(queue) /\ queue'[i] = queue[k + i]
  BY EndShifts
<1>2. InSequence'
  <2>1. \A i, j \in 1 .. Len(queue') : i < j => queue'[i].seq < queue'[j].seq
    <3> SUFFICES ASSUME NEW i \in 1 .. Len(queue'), NEW j \in 1 .. Len(queue'), i < j
                 PROVE  queue'[i].seq < queue'[j].seq
      OBVIOUS
    <3>1. k + i < k + j /\ k + i \in 1 .. Len(queue) /\ k + j \in 1 .. Len(queue)
      BY <1>1
    <3> QED
      BY <1>1, <3>1 DEF Clear, InSequence, Seqs
  <2> QED
    BY <1>0, <1>1, <2>1 DEF InSequence, Seqs
<1>3. /\ committed' <= cursor' /\ (worker' = "final" => committed' < cursor')
      /\ \A i \in 1 .. Len(queue) :
            Seqs(i) <= committed' => Seqs(i) \in receipts' \/ Seqs(i) <= expired'
      /\ \A seq \in receipts' : expired' < seq
  <2>1. CASE UNCHANGED bookVars
    BY <2>1 DEF Clear, Reserved, Passed, bookVars, agentVars
  <2>2. CASE Sending /\ Process(InFlight)
    BY <2>2, ProcessPasses, ReservedAfter
  <2> QED
    BY <2>1, <2>2
<1>4. Reserved'
  BY <1>1, <1>3 DEF Clear, Reserved, Seqs, agentVars
<1>5. Passed'
  BY <1>0, <1>1, <1>3 DEF Passed, Seqs
<1> QED
  BY <1>2, <1>4, <1>5 DEF Clear

LEMMA PruneKeeps ==
    ASSUME Shapes, Clear, PruneReceipt
    PROVE  Clear'
<1>1. PICK seq \in receipts : /\ \A other \in receipts : seq <= other
                              /\ receipts' = receipts \ {seq} /\ expired' = seq
  BY DEF PruneReceipt
<1>2. UNCHANGED <<queue, lines, sent, cursor, worker, committed>>
  BY DEF PruneReceipt, spoolVars, agentVars
<1>3. InSequence' /\ Reserved'
  BY <1>2 DEF Clear, InSequence, Reserved, Seqs
<1>4. seq \in Nat /\ expired < seq /\ expired \in Nat
  BY Numbers DEF Clear, Passed
<1>5. \A other \in receipts' : seq < other
  <2>1. receipts \subseteq Nat
    BY Numbers
  <2> QED
    BY <1>1, <1>4, <2>1
<1>6. \A i \in 1 .. Len(queue) : Seqs(i) <= committed => Seqs(i) \in receipts' \/ Seqs(i) <= seq
  BY <1>1, <1>4, Numbers DEF Clear, Passed
<1>7. Passed'
  BY <1>1, <1>2, <1>5, <1>6 DEF Clear, Passed, Seqs
<1> QED
  BY <1>3, <1>7 DEF Clear

LEMMA ClearKept == Shapes /\ Clear /\ [Next]_vars => Clear'
<1> SUFFICES ASSUME Shapes, Clear, [Next]_vars PROVE Clear'
  OBVIOUS
<1>0. cursor \in Nat /\ committed <= cursor /\ committed \in Nat /\ AgentOK
      /\ now \in Int /\ stopFile.at \in Int
      /\ \A i \in 1 .. Len(queue) : Seqs(i) <= cursor /\ Seqs(i) \in Nat
  BY Numbers DEF Clear, Reserved, Shapes, AgentOK
<1>a. cursor + 1 \in Nat /\ committed < cursor + 1
      /\ \A i \in 1 .. Len(queue) : Seqs(i) < cursor + 1
  BY <1>0
<1>1. CASE Carry \/ Tick \/ ClockSet(-1) \/ ClockSet(1) \/ SampleFails \/ Terminate \/ Confirm
           \/ Launched \/ LaunchTimesOut \/ XrayDies \/ UNCHANGED vars
  <2>1. /\ UNCHANGED <<queue, lines, sent, bookVars>>
        /\ cursor' = cursor \/ cursor' = cursor + 1
        /\ worker' = "final" => (worker = "final" /\ cursor' = cursor) \/ cursor' = cursor + 1
    BY <1>1 DEF Carry, Tick, ClockSet, SampleFails, Terminate, Confirm, Launched, LaunchTimesOut,
                XrayDies, Reserve, Move, agentVars, spoolVars, vars
  <2> QED
    BY <1>0, <2>1, QuietKeeps
<1>2. CASE Sample
  <2>1. /\ cursor' = cursor + 1 /\ worker' # "final" /\ UNCHANGED bookVars
        /\ \/ Push(UsageSpool, LiveReading(cursor + 1))
           \/ Push(UsageSpool, StoppedReading(cursor + 1, now))
    BY <1>2 DEF Sample, Reserve
  <2>2. ASSUME NEW r \in Report, r.seq = cursor + 1, Push(UsageSpool, r)
        PROVE  Clear'
    BY <1>a, <2>1, <2>2, UsageAppends, AppendKeeps
  <2>3. LiveReading(cursor + 1) \in Report /\ StoppedReading(cursor + 1, now) \in Report
    BY <1>0, <1>a, LiveType, StoppedType
  <2> QED
    BY <2>1, <2>2, <2>3 DEF LiveReading, StoppedReading
<1>3. CASE Stop
  <2>1. /\ cursor' = cursor + 1 /\ worker' # "final" /\ UNCHANGED bookVars
        /\ Push(UsageSpool, LiveReading(cursor + 1))
    BY <1>3 DEF Stop, Reserve, Move
  <2>2. LiveReading(cursor + 1) \in Report /\ LiveReading(cursor + 1).seq = cursor + 1
    BY <1>0, <1>a, LiveType DEF LiveReading
  <2> QED
    BY <1>a, <2>1, <2>2, UsageAppends, AppendKeeps
<1>4. CASE PushFinal
  <2>1. /\ worker = "final" /\ worker' # "final" /\ UNCHANGED bookVars /\ cursor' = cursor
        /\ Push(UsageSpool, StoppedReading(cursor, stopFile.at)) \/ UNCHANGED spoolVars
    BY <1>4 DEF PushFinal, Move
  <2>2. StoppedReading(cursor, stopFile.at) \in Report /\ StoppedReading(cursor, stopFile.at).seq = cursor
    BY <1>0, StoppedType DEF StoppedReading
  <2>3. committed < cursor /\ \A i \in 1 .. Len(queue) : Seqs(i) < cursor
    BY <2>1 DEF Clear, Reserved
  <2>4. CASE Push(UsageSpool, StoppedReading(cursor, stopFile.at))
    BY <2>1, <2>2, <2>3, <2>4, UsageAppends, AppendKeeps
  <2>5. CASE UNCHANGED spoolVars
    BY <1>0, <2>1, <2>5, QuietKeeps DEF spoolVars
  <2> QED
    BY <2>1, <2>4, <2>5
<1>5. CASE Launch
  <2>1. /\ worker' # "final" /\ UNCHANGED bookVars
        /\ \/ UNCHANGED spoolVars /\ cursor' = cursor
           \/ cursor' = cursor + 1 /\ Push(UsageSpool, StoppedReading(cursor + 1, now))
    BY <1>5 DEF Launch, Reserve, Move
  <2>2. StoppedReading(cursor + 1, now) \in Report /\ StoppedReading(cursor + 1, now).seq = cursor + 1
    BY <1>0, <1>a, StoppedType DEF StoppedReading
  <2>3. CASE cursor' = cursor + 1 /\ Push(UsageSpool, StoppedReading(cursor + 1, now))
    BY <1>a, <2>1, <2>2, <2>3, UsageAppends, AppendKeeps
  <2>4. CASE UNCHANGED spoolVars /\ cursor' = cursor
    BY <1>0, <2>1, <2>4, QuietKeeps DEF spoolVars
  <2> QED
    BY <2>1, <2>3, <2>4
<1>6. CASE AgentDies \/ MachineDies
  <2>1. /\ UNCHANGED <<queue, bookVars>> /\ lines' = << >> /\ sent' = 0 /\ worker' = "idle"
        /\ cursor' = cursor \/ cursor' = cursor + 1
    BY <1>6 DEF AgentDies, MachineDies, RoundLost, Reserve
  <2> QED
    BY <1>0, <2>1, QuietKeeps
<1>7. CASE Start
  <2>1. /\ UNCHANGED <<queue, bookVars>> /\ lines' = queue /\ sent' = 0
        /\ worker' = worker /\ cursor' = cursor
    BY <1>7 DEF Start, BeginRound, agentVars
  <2> QED
    BY <1>0, <2>1, QuietKeeps
<1>8. CASE Deliver
  BY <1>8, DeliverKeeps
<1>9. CASE DeliverUnanswered
  BY <1>9, EndKeeps DEF DeliverUnanswered
<1>10. CASE Finish
  BY <1>10, EndKeeps DEF Finish
<1>11. CASE PruneReceipt
  BY <1>11, PruneKeeps
<1> QED
  BY <1>1, <1>2, <1>3, <1>4, <1>5, <1>6, <1>7, <1>8, <1>9, <1>10, <1>11 DEF Next

----------------------------------------------------------------------------
(* The dates.  Until the machine's clock is set back, everything the agent  *)
(* dates lies behind it, in the order it happened; until it is set ahead,   *)
(* it does not pass the control plane's.                                    *)

Dated(r) ==
    /\ "back" \notin clockSet => ~Misdated(r)
    /\ "ahead" \notin clockSet => r.at <= console

DatedReports == {r \in Report : Dated(r)}

\* A clock that was not set back is past every instant the agent wrote down, and the
\* final reading of a stop carries no downtime that ended after it.
Forward ==
    /\ 0 <= now
    /\ xray.up => xray.started <= now
    /\ stopFile.started <= now
    /\ \A end \in idle : end <= now
    /\ worker = "final" => /\ stopFile.started <= stopFile.at
                           /\ \A end \in idle : end <= stopFile.at

Behindhand == now <= console /\ stopFile.at <= console

Dates ==
    /\ 0 <= console
    /\ "back" \notin clockSet => Forward
    /\ "ahead" \notin clockSet => Behindhand
    /\ SpoolTypeOK(DatedReports)

LEMMA Clocks ==
    ASSUME AgentOK
    PROVE  /\ now \in Int /\ console \in Int /\ xray.started \in Int /\ stopFile.at \in Int
           /\ stopFile.started \in Int /\ idle \subseteq Int
           /\ clockSet \subseteq {"back", "ahead"}
<1> QED
  BY DEF AgentOK

LEMMA TakenDated ==
    ASSUME AgentOK, Dates, NEW r, Taken(r)
    PROVE  r \in DatedReports
<1>1. r \in Report /\ r.at \in Int
  BY TakenType DEF Report
<1>2. PICK seq \in Nat : \/ xray.up /\ r = LiveReading(seq)
                         \/ r = StoppedReading(seq, now)
                         \/ worker = "final" /\ r = StoppedReading(seq, stopFile.at)
  BY DEF Taken
<1>3. \/ xray.up /\ r.at = now /\ r.started = xray.started /\ r.idle = idle
      \/ r.at = now /\ r.started = stopFile.started /\ r.idle = idle
      \/ worker = "final" /\ r.at = stopFile.at /\ r.started = stopFile.started /\ r.idle = idle
  BY <1>2 DEF LiveReading, StoppedReading
<1>4. "back" \notin clockSet => ~Misdated(r)
  <2> SUFFICES ASSUME "back" \notin clockSet PROVE ~Misdated(r)
    OBVIOUS
  <2>1. Forward
    BY DEF Dates
  <2>2. r.started <= r.at /\ \A end \in r.idle : end <= r.at
    BY <1>3, <2>1 DEF Forward
  <2>3. r.started \in Int /\ r.idle \subseteq Int
    BY <1>3, Clocks
  <2> QED
    BY <1>1, <2>2, <2>3 DEF Misdated
<1>5. "ahead" \notin clockSet => r.at <= console
  BY <1>3 DEF Dates, Behindhand
<1> QED
  BY <1>1, <1>4, <1>5 DEF DatedReports, Dated

\* The console's clock advances, and what was set stays set.
LEMMA ClocksMove ==
    ASSUME AgentOK, [Next]_vars
    PROVE  console <= console' /\ console' \in Int /\ clockSet \subseteq clockSet'
<1>1. CASE Tick \/ ClockSet(-1) \/ ClockSet(1)
  BY <1>1, Clocks DEF Tick, ClockSet
<1>2. CASE UNCHANGED clockVars
  BY <1>2, Clocks DEF clockVars
<1>3. Tick \/ ClockSet(-1) \/ ClockSet(1) \/ UNCHANGED clockVars
  BY DEF Next, Carry, Sample, SampleFails, Stop, Terminate, Confirm, PushFinal, Launch,
         Launched, LaunchTimesOut, AgentDies, XrayDies, MachineDies, PruneReceipt, Start, Deliver,
         DeliverUnanswered, Finish, vars
<1> QED
  BY <1>1, <1>2, <1>3

LEMMA DatedStays ==
    ASSUME AgentOK, [Next]_vars, NEW r \in DatedReports
    PROVE  r \in DatedReports'
<1>1. r \in Report /\ Dated(r) /\ r.at \in Int
  BY DEF DatedReports, Report
<1>2. console \in Int /\ console' \in Int /\ console <= console' /\ clockSet \subseteq clockSet'
  BY ClocksMove, Clocks
<1>3. ("back" \notin clockSet' => ~Misdated(r)) /\ ("ahead" \notin clockSet' => r.at <= console')
  BY <1>1, <1>2 DEF Dated
<1>4. r \in Report' /\ (Misdated(r)' <=> Misdated(r))
  BY <1>1 DEF Report, Misdated
<1> QED
  BY <1>3, <1>4 DEF DatedReports, Dated, Misdated

LEMMA ForwardKept ==
    ASSUME AgentOK, [Next]_vars, "back" \notin clockSet', Forward
    PROVE  Forward'
<1> USE Clocks
<1>1. CASE Carry \/ PruneReceipt \/ Start \/ Deliver \/ DeliverUnanswered \/ Finish \/ XrayDies
           \/ UNCHANGED vars
  <2>1. UNCHANGED <<now, stopFile, idle, worker>> /\ (xray' = xray \/ ~xray'.up)
    BY <1>1 DEF Carry, PruneReceipt, Start, Deliver, DeliverUnanswered, Finish, XrayDies, vars,
                clockVars, agentVars, AgentOK
  <2> QED
    BY <2>1 DEF Forward
<1>2. CASE Tick
  BY <1>2 DEF Tick, agentVars, Forward
<1>3. CASE ClockSet(-1)
  BY <1>3 DEF ClockSet
<1>4. CASE ClockSet(1)
  <2>1. /\ now' = now + 1 /\ UNCHANGED <<stopFile, idle, worker>>
        /\ xray'.up = xray.up /\ (xray.up => xray'.started = xray.started + 1)
    BY <1>4 DEF ClockSet, agentVars, AgentOK
  <2> QED
    BY <2>1 DEF Forward
<1>5. CASE Sample \/ SampleFails
  <2>1. UNCHANGED <<now, xray, stopFile>> /\ idle' \subseteq idle /\ worker' = "idle"
    BY <1>5 DEF Sample, SampleFails, clockVars
  <2> QED
    BY <2>1 DEF Forward
<1>6. CASE Stop
  <2>1. UNCHANGED <<now, xray, idle>> /\ stopFile'.started = xray.started /\ worker' = "sampled" /\ xray.up
    BY <1>6 DEF Stop, Move, clockVars
  <2> QED
    BY <2>1 DEF Forward
<1>7. CASE Terminate
  <2>1. UNCHANGED <<now, stopFile, idle>> /\ ~xray'.up /\ worker' = "dead"
    BY <1>7 DEF Terminate, Move, clockVars, AgentOK
  <2> QED
    BY <2>1 DEF Forward
<1>8. CASE Confirm
  <2>1. UNCHANGED <<now, xray, idle>> /\ stopFile'.started = stopFile.started /\ stopFile'.at = now
    BY <1>8 DEF Confirm, clockVars, AgentOK
  <2> QED
    BY <2>1 DEF Forward
<1>9. CASE PushFinal \/ LaunchTimesOut
  <2>1. UNCHANGED <<now, xray, stopFile, idle>> /\ worker' = "idle"
    BY <1>9 DEF PushFinal, LaunchTimesOut, Move, clockVars
  <2> QED
    BY <2>1 DEF Forward
<1>10. CASE Launch
  <2>1. UNCHANGED <<now, stopFile>> /\ idle' \subseteq idle \cup {now} /\ worker' = "spawned"
        /\ xray'.started = now
    BY <1>10 DEF Launch, Move, clockVars
  <2> QED
    BY <2>1 DEF Forward
<1>11. CASE Launched
  <2>1. UNCHANGED <<now, xray, idle>> /\ worker' = "idle" /\ stopFile'.started = 0
    BY <1>11 DEF Launched, Move, clockVars, NoStop
  <2> QED
    BY <2>1 DEF Forward
<1>12. CASE AgentDies \/ MachineDies
  <2>1. UNCHANGED <<now, stopFile, idle>> /\ worker' = "idle" /\ (xray' = xray \/ ~xray'.up)
    BY <1>12 DEF AgentDies, MachineDies, clockVars, AgentOK
  <2> QED
    BY <2>1 DEF Forward
<1> QED
  BY <1>1, <1>2, <1>3, <1>4, <1>5, <1>6, <1>7, <1>8, <1>9, <1>10, <1>11, <1>12 DEF Next

LEMMA BehindhandKept ==
    ASSUME AgentOK, [Next]_vars, 0 <= console, "ahead" \notin clockSet', Behindhand
    PROVE  Behindhand'
<1> USE Clocks
<1>1. CASE Tick
  BY <1>1 DEF Tick, agentVars, Behindhand
<1>2. CASE ClockSet(-1)
  BY <1>2 DEF ClockSet, agentVars, Behindhand
<1>3. CASE ClockSet(1)
  BY <1>3 DEF ClockSet
<1>4. CASE Stop \/ Confirm \/ Launched
  <2>1. UNCHANGED <<now, console>> /\ stopFile'.at \in {0, now}
    <3>1. CASE Stop
      BY <3>1 DEF Stop, clockVars
    <3>2. CASE Confirm
      BY <3>2 DEF Confirm, clockVars, AgentOK
    <3>3. CASE Launched
      BY <3>3 DEF Launched, NoStop, clockVars
    <3> QED
      BY <1>4, <3>1, <3>2, <3>3
  <2> QED
    BY <2>1 DEF Behindhand
<1>5. CASE UNCHANGED <<now, console, stopFile>>
  BY <1>5 DEF Behindhand
<1>6. Tick \/ ClockSet(-1) \/ ClockSet(1) \/ Stop \/ Confirm \/ Launched
      \/ UNCHANGED <<now, console, stopFile>>
  BY DEF Next, Carry, Sample, SampleFails, Terminate, PushFinal, Launch, LaunchTimesOut,
         AgentDies, XrayDies, MachineDies, PruneReceipt, Start, Deliver, DeliverUnanswered,
         Finish, vars, clockVars, agentVars
<1> QED
  BY <1>1, <1>2, <1>3, <1>4, <1>5, <1>6

LEMMA DatesKept == Shapes /\ Dates /\ [Next]_vars => Dates'
<1> SUFFICES ASSUME Shapes, Dates, [Next]_vars PROVE Dates'
  OBVIOUS
<1>0. AgentOK /\ SpoolTypeOK(DatedReports) /\ clockSet \subseteq clockSet'
  BY ClocksMove DEF Shapes, Dates
<1>1. HoldsNext(DatedReports)
  BY <1>0, EveryStepSpools, SpooledHolds, TakenDated
<1>2. SpoolTypeOK(DatedReports)'
  <2>1. DatedReports \subseteq DatedReports'
    BY <1>0, DatedStays
  <2>2. queue' \in Seq(DatedReports') /\ lines' \in Seq(DatedReports')
    <3>1. queue' \in Seq(DatedReports) /\ lines' \in Seq(DatedReports)
      BY <1>1 DEF HoldsNext
    <3> HIDE DEF DatedReports
    <3> QED
      BY <2>1, <3>1, SeqDef
  <2>3. sent' \in 0 .. Len(lines') /\ dropped' \in Nat /\ torn' \in BOOLEAN
    BY <1>1 DEF HoldsNext
  <2> QED
    BY <2>2, <2>3 DEF SpoolTypeOK
<1>3. 0 <= console'
  BY <1>0, ClocksMove, Clocks DEF Dates
<1>4. "back" \notin clockSet' => Forward'
  BY <1>0, ForwardKept DEF Dates
<1>5. "ahead" \notin clockSet' => Behindhand'
  BY <1>0, BehindhandKept DEF Dates
<1> QED
  BY <1>2, <1>3, <1>4, <1>5 DEF Dates

\* A queued reading is refused only if the answer to it expired before the agent read it,
\* or if the machine's clock was set, with and without a journal, however far ahead a
\* reading may be dated (record_usage_report, reserve_usage_sequence).
THEOREM HeadNeverStuck == Spec => []OnlyExpiryOrClockBlocks
<1>1. Init => Clear /\ Dates
  <2> SUFFICES ASSUME Init PROVE Clear /\ Dates
    OBVIOUS
  <2>1. Clear
    BY DEF Init, SpoolInit, Clear, InSequence, Reserved, Passed
  <2>2. SpoolTypeOK(DatedReports)
    <3>1. queue = << >> /\ lines = << >> /\ sent = 0 /\ dropped = 0 /\ torn = FALSE
      BY DEF Init, SpoolInit
    <3>2. << >> \in Seq(DatedReports) /\ Len(<< >>) = 0
      OBVIOUS
    <3>3. /\ queue \in Seq(DatedReports) /\ lines \in Seq(DatedReports)
          /\ sent \in 0 .. Len(lines) /\ dropped \in Nat
      BY <3>1, <3>2
    <3>4. torn \in BOOLEAN
      BY <3>1
    <3> QED
      BY <3>3, <3>4 DEF SpoolTypeOK
  <2>3. Forward /\ Behindhand /\ 0 <= console
    BY DEF Init, Forward, Behindhand, NoStop
  <2> QED
    BY <2>1, <2>2, <2>3 DEF Dates
<1>2. Shapes /\ Clear /\ Dates => OnlyExpiryOrClockBlocks
  <2> SUFFICES ASSUME Shapes, Clear, Dates, NEW i \in DOMAIN queue
               PROVE  /\ Behind(queue[i]) => queue[i].seq <= expired
                      /\ Misdated(queue[i]) => "back" \in clockSet
                      /\ Ahead(queue[i]) => "ahead" \in clockSet
    BY DEF OnlyExpiryOrClockBlocks
  <2>1. Behind(queue[i]) => queue[i].seq <= expired
    BY Numbers DEF Behind, Known, Clear, Passed, Seqs
  <2>2. queue[i] \in DatedReports
    <3>1. queue \in Seq(DatedReports)
      BY DEF Dates, SpoolTypeOK
    <3> QED
      BY <3>1, ElementOfSeq, Numbers
  <2>3. queue[i] \in Report /\ Dated(queue[i])
    BY <2>2 DEF DatedReports
  <2>4. queue[i].at \in Int /\ console \in Int /\ MaxSkew \in Nat
    BY <2>3, Clocks, UsageAssumption DEF Report, Shapes
  <2> QED
    BY <2>1, <2>3, <2>4 DEF Dated, Ahead
<1> QED
  BY <1>1, <1>2, ClearKept, DatesKept, ShapesHold, PTL DEF Spec
=============================================================================
