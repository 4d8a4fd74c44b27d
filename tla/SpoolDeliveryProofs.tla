------------------------- MODULE SpoolDeliveryProofs -------------------------
(***************************************************************************)
(* A spool hands its lines over in the order they were made, and loses     *)
(* none but to overflow, for every depth and number of items and crashes.  *)
(*                                                                         *)
(* The queue always holds the newest items, without a gap; so does what a  *)
(* round read.  A round therefore sends nothing older than what an earlier *)
(* round was answered for, except what is known to have arrived.           *)
(***************************************************************************)
EXTENDS SpoolDelivery, FiniteSetTheorems, SequenceTheorems, TLAPS

\* A file that holds the newest items made.
Newest(q, m) == \A i \in 1 .. Len(q) : q[i] = m - Len(q) + i

Run(l) == \A i \in 1 .. Len(l) : l[i] = l[1] + i - 1

\* What the reporter takes for answered: a refusal only where a status condemns the line.
Answered == got \cup {i \in refused : spool.terminal}

Typed ==
    /\ spool \in SpoolKind /\ spool \in Spools
    /\ made \in 0 .. MaxItems /\ crashes \in 0 .. MaxCrash
    /\ got \subseteq 1 .. made /\ refused \subseteq 1 .. made
    /\ SpoolTypeOK(1 .. made)
    /\ Len(queue) <= spool.max
    /\ replay \in BOOLEAN
    /\ replay => spool.unique /\ made > 0

Ordered ==
    /\ Newest(queue, made)
    /\ Run(lines)
    \* what is in the file and older than what the round sends, the round has sent
    /\ lines # << >> => \A i \in DOMAIN queue : lines[1] <= queue[i]
    /\ \A k \in 1 .. sent : lines[k] \in Answered
    /\ \A i \in DOMAIN queue : \A j \in got : queue[i] < j => queue[i] \in Answered
    /\ \A k \in sent + 1 .. Len(lines) : \A j \in got : lines[k] < j => lines[k] \in Answered

IInv == Typed /\ Ordered

----------------------------------------------------------------------------
LEMMA Bounds == /\ MaxItems \in Nat /\ MaxCrash \in Nat
                /\ \A s \in Spools : s \in SpoolKind
<1> QED
  BY SpoolsAssumption

LEMMA NewestAppended ==
    ASSUME NEW m \in Nat, NEW q \in Seq(1 .. m), Newest(q, m)
    PROVE  /\ Append(q, m + 1) \in Seq(1 .. m + 1)
           /\ Len(Append(q, m + 1)) = Len(q) + 1
           /\ Newest(Append(q, m + 1), m + 1)
           /\ \A i \in DOMAIN Append(q, m + 1) : i \in DOMAIN q \/ i = Len(q) + 1
           /\ \A i \in DOMAIN q : i \in DOMAIN Append(q, m + 1) /\ Append(q, m + 1)[i] = q[i]
           /\ Append(q, m + 1)[Len(q) + 1] = m + 1
<1>1. Append(q, m + 1) \in Seq(1 .. m + 1)
  <2>1. q \in Seq(1 .. m + 1)
    BY SeqDef
  <2> QED
    BY <2>1
<1>2. Len(Append(q, m + 1)) = Len(q) + 1
  OBVIOUS
<1>3. \A i \in 1 .. Len(q) : Append(q, m + 1)[i] = q[i]
  OBVIOUS
<1>4. Append(q, m + 1)[Len(q) + 1] = m + 1
  OBVIOUS
<1>5. Newest(Append(q, m + 1), m + 1)
  <2> SUFFICES ASSUME NEW i \in 1 .. Len(q) + 1
               PROVE  Append(q, m + 1)[i] = (m + 1) - (Len(q) + 1) + i
    BY <1>2 DEF Newest
  <2>1. CASE i = Len(q) + 1
    BY <1>4, <2>1
  <2>2. CASE i \in 1 .. Len(q)
    BY <1>3, <2>2 DEF Newest
  <2> QED
    BY <2>1, <2>2
<1> QED
  BY <1>1, <1>2, <1>3, <1>4, <1>5

LEMMA NewestTail ==
    ASSUME NEW m \in Nat, NEW q \in Seq(1 .. m), Newest(q, m), q # << >>
    PROVE  /\ Tail(q) \in Seq(1 .. m) /\ Len(Tail(q)) = Len(q) - 1
           /\ Newest(Tail(q), m)
           /\ \A i \in DOMAIN Tail(q) : i + 1 \in DOMAIN q /\ Tail(q)[i] = q[i + 1]
<1>1. Tail(q) \in Seq(1 .. m) /\ Len(Tail(q)) = Len(q) - 1
  OBVIOUS
<1>2. \A i \in 1 .. Len(q) - 1 : Tail(q)[i] = q[i + 1]
  OBVIOUS
<1> QED
  BY <1>1, <1>2 DEF Newest

LEMMA NewestCut ==
    ASSUME NEW m \in Nat, NEW q \in Seq(1 .. m), Newest(q, m), NEW k \in 0 .. Len(q)
    PROVE  LET c == SubSeq(q, k + 1, Len(q))
           IN  /\ c \in Seq(1 .. m) /\ Len(c) = Len(q) - k
               /\ Newest(c, m)
               /\ \A i \in DOMAIN c : k + i \in DOMAIN q /\ c[i] = q[k + i]
               /\ \A i \in DOMAIN q : i > k => i - k \in DOMAIN c /\ c[i - k] = q[i]
<1> DEFINE c == SubSeq(q, k + 1, Len(q))
<1>1. /\ c \in Seq(1 .. m)
      /\ Len(c) = IF k + 1 <= Len(q) THEN Len(q) - (k + 1) + 1 ELSE 0
      /\ \A i \in 1 .. Len(q) - (k + 1) + 1 : c[i] = q[(k + 1) + i - 1]
  <2>1. \A i \in k + 1 .. Len(q) : q[i] \in 1 .. m
    OBVIOUS
  <2> QED
    BY <2>1, SubSeqProperties
<1>2. c \in Seq(1 .. m) /\ Len(c) = Len(q) - k
  BY <1>1
<1>3. DOMAIN c = 1 .. Len(q) - k /\ DOMAIN q = 1 .. Len(q)
  BY <1>2
<1>4. \A i \in 1 .. Len(q) - k : k + i \in 1 .. Len(q) /\ c[i] = q[k + i]
  BY <1>1
<1> HIDE DEF c
<1>5. Newest(c, m)
  BY <1>2, <1>4 DEF Newest
<1>6. \A i \in 1 .. Len(q) : i > k => i - k \in 1 .. Len(q) - k /\ c[i - k] = q[i]
  <2> SUFFICES ASSUME NEW i \in 1 .. Len(q), i > k
               PROVE  i - k \in 1 .. Len(q) - k /\ c[i - k] = q[i]
    OBVIOUS
  <2>1. i - k \in 1 .. Len(q) - k /\ k + (i - k) = i
    OBVIOUS
  <2> QED
    BY <1>4, <2>1
<1>7. /\ \A i \in DOMAIN c : k + i \in DOMAIN q /\ c[i] = q[k + i]
      /\ \A i \in DOMAIN q : i > k => i - k \in DOMAIN c /\ c[i - k] = q[i]
  BY <1>3, <1>4, <1>6
<1> QED
  BY <1>2, <1>5, <1>7 DEF c

\* What a step takes out of the file is answered, or is the head of one that overflows.
LEMMA HeadAnswered ==
    ASSUME IInv, Len(queue) >= sent, SubSeq(queue, 1, sent) = SubSeq(lines, 1, sent)
    PROVE  \A i \in 1 .. sent : queue[i] \in Answered
<1>1. queue \in Seq(1 .. made) /\ lines \in Seq(1 .. made) /\ sent \in 0 .. Len(lines)
  BY DEF IInv, Typed, SpoolTypeOK
<1>2. \A i \in 1 .. sent : SubSeq(queue, 1, sent)[i] = queue[i] /\ SubSeq(lines, 1, sent)[i] = lines[i]
  BY <1>1
<1>3. \A i \in 1 .. sent : queue[i] = lines[i]
  BY <1>2
<1> QED
  BY <1>3 DEF IInv, Ordered

----------------------------------------------------------------------------
(* Every action keeps the invariant.                                        *)

LEMMA Facts ==
    ASSUME IInv
    PROVE  /\ queue \in Seq(1 .. made) /\ lines \in Seq(1 .. made)
           /\ sent \in 0 .. Len(lines) /\ made \in Nat /\ dropped \in Nat
           /\ torn \in BOOLEAN /\ spool \in SpoolKind
           /\ DOMAIN queue = 1 .. Len(queue) /\ DOMAIN lines = 1 .. Len(lines)
           /\ spool.max \in Nat \ {0} /\ crashes \in Nat
           /\ Newest(queue, made) /\ Run(lines)
<1> QED
  BY Bounds DEF IInv, Typed, Ordered, SpoolTypeOK, SpoolKind

LEMMA Loss == ASSUME dropped \in Nat, torn \in BOOLEAN, CountLoss
              PROVE  dropped' \in Nat /\ torn' \in BOOLEAN
<1>1. dropped' \in Nat
  BY DEF CountLoss
<1>2. torn' = torn \/ torn' = TRUE
  BY DEF CountLoss
<1> QED
  BY <1>1, <1>2

LEMMA PowerLoss == ASSUME dropped \in Nat, torn \in BOOLEAN, PowerLost
                   PROVE  /\ dropped' \in Nat /\ torn' \in BOOLEAN
                          /\ torn' \/ (~torn /\ dropped' = dropped)
<1>1. dropped' \in Nat /\ dropped' <= dropped
  BY DEF PowerLost
<1>2. torn' = (torn \/ dropped' < dropped)
  BY DEF PowerLost
<1>3. torn' \in BOOLEAN
  BY <1>2
<1>4. ~torn' => ~torn /\ ~(dropped' < dropped)
  BY <1>2
<1> QED
  BY <1>1, <1>3, <1>4

\* The file ends with the newest item.
LEMMA Last == ASSUME IInv, queue # << >>
              PROVE  Len(queue) \in DOMAIN queue /\ queue[Len(queue)] = made /\ made \in Queued
<1>1. queue \in Seq(1 .. made) /\ made \in Nat /\ DOMAIN queue = 1 .. Len(queue) /\ Newest(queue, made)
  BY Facts
<1>2. Len(queue) \in Nat /\ Len(queue) \in 1 .. Len(queue)
  BY <1>1
<1>3. queue[Len(queue)] = made - Len(queue) + Len(queue)
  BY <1>1, <1>2 DEF Newest
<1>4. queue[Len(queue)] = made
  BY <1>1, <1>2, <1>3
<1> QED
  BY <1>1, <1>2, <1>4 DEF Queued

\* What is produced is not in the file.
LEMMA Unqueued == ASSUME IInv PROVE made + 1 \notin Queued
<1> QED
  BY Facts DEF Queued

LEMMA ProduceKeeps == IInv /\ Produce => IInv'
<1> SUFFICES ASSUME IInv, Produce PROVE IInv'
  OBVIOUS
<1> DEFINE q == Append(queue, made + 1)
<1>1. /\ made' = made + 1 /\ made' \in 0 .. MaxItems
      /\ UNCHANGED <<spool, got, refused, replay, crashes, lines, sent>>
  BY Facts, Bounds DEF Produce, Producing, Push
<1>2. /\ q \in Seq(1 .. made') /\ Len(q) = Len(queue) + 1 /\ Newest(q, made') /\ q # << >>
      /\ \A i \in DOMAIN q : i \in DOMAIN queue \/ i = Len(queue) + 1
      /\ \A i \in DOMAIN queue : q[i] = queue[i]
      /\ q[Len(queue) + 1] = made + 1
  <2>1. queue \in Seq(1 .. made) /\ made \in Nat /\ Newest(queue, made)
    BY Facts
  <2>2. /\ q \in Seq(1 .. made + 1) /\ Len(q) = Len(queue) + 1 /\ Newest(q, made + 1)
        /\ \A i \in DOMAIN q : i \in DOMAIN queue \/ i = Len(queue) + 1
        /\ \A i \in DOMAIN queue : i \in DOMAIN q /\ q[i] = queue[i]
        /\ q[Len(queue) + 1] = made + 1
    BY <2>1, NewestAppended
  <2>3. Len(queue) \in Nat /\ Len(queue) + 1 # 0
    BY <2>1
  <2> HIDE DEF q
  <2>4. q # << >>
    BY <2>2, <2>3
  <2> QED
    BY <1>1, <2>2, <2>4
<1>3. /\ Tail(q) \in Seq(1 .. made') /\ Len(Tail(q)) = Len(q) - 1 /\ Newest(Tail(q), made')
      /\ \A i \in DOMAIN Tail(q) : i + 1 \in DOMAIN q /\ Tail(q)[i] = q[i + 1]
  <2>1. made' \in Nat
    BY <1>1, Facts
  <2> HIDE DEF q
  <2> QED
    BY <1>2, <2>1, NewestTail
<1>4. \/ Len(queue) < spool.max /\ queue' = q
      \/ Len(queue) >= spool.max /\ queue' = Tail(q)
  <2>1. Push(spool, made + 1)
    BY DEF Produce
  <2>2. spool.max \in Nat /\ Len(queue) \in Nat
    BY Facts
  <2> QED
    BY <2>1, <2>2, Unqueued DEF Push, Room
<1>5. dropped' \in Nat /\ torn' \in BOOLEAN
  BY Facts, Loss DEF Produce, Push
<1> HIDE DEF q
<1>6. queue' \in Seq(1 .. made') /\ Newest(queue', made')
  BY <1>2, <1>3, <1>4
<1>7. Len(queue') <= spool.max
  BY <1>2, <1>3, <1>4, Facts DEF IInv, Typed
<1>8. lines \in Seq(1 .. made')
  BY <1>1, Facts, SeqDef
<1>9. Typed'
  <2>1. got' \subseteq 1 .. made' /\ refused' \subseteq 1 .. made'
    BY <1>1, Facts DEF IInv, Typed
  <2>2. made > 0 => made' > 0
    BY <1>1, Facts
  <2> QED
    BY <1>1, <1>5, <1>6, <1>7, <1>8, <2>1, <2>2 DEF IInv, Typed, SpoolTypeOK
\* The file gains the newest item, above all that were accepted.
<1>10. \A i \in DOMAIN queue' : (\E k \in DOMAIN queue : queue'[i] = queue[k]) \/ queue'[i] = made + 1
  BY <1>2, <1>3, <1>4
<1>11. Ordered'
  <2>1. lines # << >> => \A i \in DOMAIN queue' : lines[1] <= queue'[i]
    <3>1. lines # << >> => lines[1] <= made + 1
      BY Facts
    <3> QED
      BY <1>10, <3>1 DEF IInv, Ordered
  <2>2. \A i \in DOMAIN queue' : \A j \in got : queue'[i] < j => queue'[i] \in Answered
    <3>1. \A j \in got : j <= made /\ j \in Nat
      BY Facts DEF IInv, Typed
    <3> QED
      BY <1>10, <3>1, Facts DEF IInv, Ordered
  <2> QED
    BY <1>1, <1>6, <2>1, <2>2 DEF IInv, Ordered, Answered
<1> QED
  BY <1>9, <1>11 DEF IInv

\* The result of a journal goes into an empty file, or is there already.
LEMMA ReplayKeeps == IInv /\ Replay => IInv'
<1> SUFFICES ASSUME IInv, Replay PROVE IInv'
  OBVIOUS
<1>1. /\ UNCHANGED <<lines, sent, spool, made, got, refused, crashes>> /\ replay' = FALSE
      /\ spool.unique /\ made > 0 /\ Push(spool, made)
  BY DEF Replay, Push, IInv, Typed
<1>2. CASE queue # << >>
  <2>2. made \in Queued
    BY <1>2, Last
  <2>3. UNCHANGED <<queue, dropped, torn>>
    BY <1>1, <2>2 DEF Push
  <2>4. Typed'
    BY <1>1, <2>3 DEF IInv, Typed, SpoolTypeOK
  <2>5. Ordered'
    BY <1>1, <2>3 DEF IInv, Ordered, Answered
  <2> QED
    BY <2>4, <2>5 DEF IInv
<1>3. CASE queue = << >>
  <2>1. Len(queue) = 0 /\ Room(spool) /\ made \notin Queued
    BY <1>3, Facts DEF Room, Queued
  <2>2. queue' = Append(queue, made) /\ UNCHANGED <<dropped, torn>>
    BY <1>1, <2>1 DEF Push
  <2>3. queue' = <<made>> /\ made \in 1 .. made /\ spool.max >= 1
    BY <1>1, <1>3, <2>2, Facts
  <2>4. queue' \in Seq(1 .. made) /\ Len(queue') = 1 /\ DOMAIN queue' = {1} /\ queue'[1] = made
    BY <2>3
  <2>5. Typed'
    BY <1>1, <2>2, <2>3, <2>4 DEF IInv, Typed, SpoolTypeOK
  <2>6. Newest(queue', made)
    BY <2>4, Facts DEF Newest
  <2>7. lines # << >> => lines[1] <= made
    BY Facts
  <2>8. \A j \in got : ~(made < j)
    BY Facts DEF IInv, Typed
  <2>9. Ordered'
    BY <1>1, <2>4, <2>6, <2>7, <2>8 DEF IInv, Ordered, Answered
  <2> QED
    BY <2>5, <2>9 DEF IInv
<1> QED
  BY <1>2, <1>3

\* The file stays, the round stays or is forgotten.
LEMMA RoundEndsKeeps ==
    ASSUME IInv, \/ lines' = << >> /\ sent' = 0
                 \/ UNCHANGED <<lines, sent>>,
           dropped' \in Nat, torn' \in BOOLEAN, crashes' \in 0 .. MaxCrash,
           replay' \in {replay, spool.unique /\ made > 0},
           UNCHANGED <<queue, spool, made, got, refused>>
    PROVE  IInv'
<1>1. replay' \in BOOLEAN /\ (replay' => spool'.unique /\ made' > 0)
  <2>1. replay \in BOOLEAN /\ (replay => spool.unique /\ made > 0)
    BY DEF IInv, Typed
  <2>2. CASE replay' = replay
    BY <2>1, <2>2
  <2>3. CASE replay' = (spool.unique /\ made > 0)
    <3>1. replay' \in BOOLEAN
      BY <2>3
    <3> QED
      BY <2>3, <3>1
  <2> QED
    BY <2>2, <2>3
<1>2. SpoolTypeOK(1 .. made)'
  <2>1. queue' = queue /\ made' = made /\ queue \in Seq(1 .. made)
    BY Facts
  <2>2. lines' \in Seq(1 .. made) /\ sent' \in 0 .. Len(lines')
    <3>1. lines \in Seq(1 .. made) /\ sent \in 0 .. Len(lines)
      BY Facts
    <3>2. << >> \in Seq(1 .. made) /\ 0 \in 0 .. Len(<< >>)
      OBVIOUS
    <3>3. CASE lines' = << >> /\ sent' = 0
      BY <3>2, <3>3
    <3>4. CASE lines' = lines /\ sent' = sent
      BY <3>1, <3>4
    <3> QED
      BY <3>3, <3>4
  <2> QED
    BY <2>1, <2>2 DEF SpoolTypeOK
<1>4. Typed'
  BY <1>1, <1>2, Facts DEF IInv, Typed
<1>3. Ordered'
  BY DEF IInv, Ordered, Run, Answered
<1> QED
  BY <1>3, <1>4 DEF IInv

LEMMA StartKeeps == IInv /\ Start => IInv'
<1> SUFFICES ASSUME IInv, Start PROVE IInv'
  OBVIOUS
<1>1. lines' = queue /\ sent' = 0 /\ UNCHANGED <<queue, dropped, torn, spool, made, got, refused, replay, crashes>>
  BY DEF Start, BeginRound
<1>2. Typed'
  BY <1>1, Facts DEF IInv, Typed, SpoolTypeOK
<1>3. Run(queue) /\ (queue # << >> => \A i \in DOMAIN queue : queue[1] <= queue[i])
  <2>1. queue \in Seq(Nat) /\ made \in Nat /\ \A i \in 1 .. Len(queue) : queue[i] = made - Len(queue) + i
    BY Facts, SeqDef DEF Newest
  <2>2. \A i \in 1 .. Len(queue) : 1 \in 1 .. Len(queue) /\ queue[i] = queue[1] + i - 1 /\ queue[1] \in Nat
    <3>1. \A i \in 1 .. Len(queue) : 1 \in 1 .. Len(queue) /\ queue[i] \in Nat /\ i \in Nat
      BY <2>1
    <3>2. Len(queue) \in Nat
      BY <2>1
    <3> QED
      BY <2>1, <3>1, <3>2
  <2>3. \A i \in 1 .. Len(queue) : queue[1] <= queue[i]
    BY <2>2
  <2>4. DOMAIN queue = 1 .. Len(queue)
    BY <2>1
  <2> QED
    BY <2>2, <2>3, <2>4 DEF Run
<1>4. Ordered'
  BY <1>1, <1>3, Facts DEF IInv, Ordered, Answered
<1> QED
  BY <1>2, <1>4 DEF IInv

\* The line being sent is newer than all that the round has sent, and older than the rest.
LEMMA Between ==
    ASSUME IInv, Sending
    PROVE  /\ InFlight \in 1 .. made /\ InFlight = lines[1] + sent
           /\ \A i \in DOMAIN queue : queue[i] < InFlight => queue[i] \in Answered
           /\ \A k \in sent + 2 .. Len(lines) : InFlight < lines[k]
<1>1. InFlight \in 1 .. made /\ InFlight = lines[1] + sent /\ lines[1] \in Nat /\ lines # << >>
  <2>1. lines \in Seq(1 .. made) /\ sent \in 0 .. Len(lines) /\ made \in Nat /\ Run(lines)
    BY Facts
  <2>2. lines # << >> /\ sent < Len(lines)
    BY <2>1 DEF Sending
  <2>3. sent + 1 \in 1 .. Len(lines) /\ 1 \in 1 .. Len(lines) /\ sent \in Nat
    BY <2>1, <2>2
  <2>4. lines[sent + 1] \in 1 .. made /\ lines[1] \in 1 .. made
    BY <2>1, <2>3
  <2>5. lines[sent + 1] = lines[1] + (sent + 1) - 1
    BY <2>1, <2>3 DEF Run
  <2> QED
    BY <2>1, <2>2, <2>3, <2>4, <2>5 DEF InFlight
<1>2. ASSUME NEW i \in DOMAIN queue, queue[i] < InFlight
      PROVE  queue[i] \in Answered
  <2>1. queue[i] \in Nat /\ lines[1] <= queue[i]
    <3>1. queue \in Seq(1 .. made) /\ i \in 1 .. Len(queue)
      BY Facts
    <3>2. queue[i] \in 1 .. made
      BY <3>1, ElementOfSeq, Zenon
    <3>3. lines # << >> => \A n \in DOMAIN queue : lines[1] <= queue[n]
      BY Zenon DEF IInv, Ordered
    <3> QED
      BY <1>1, <3>2, <3>3
  <2>2. queue[i] - lines[1] + 1 \in 1 .. sent /\ queue[i] - lines[1] + 1 \in 1 .. Len(lines)
    <3>1. queue[i] < lines[1] + sent /\ sent \in Nat /\ sent <= Len(lines) /\ Len(lines) \in Nat
      BY <1>1, <1>2, Facts
    <3> QED
      BY <1>1, <2>1, <3>1
  <2>3. lines[queue[i] - lines[1] + 1] = queue[i]
    <3> DEFINE k == queue[i] - lines[1] + 1
    <3>1. k \in 1 .. Len(lines) /\ lines[1] + k - 1 = queue[i]
      BY <1>1, <2>1, <2>2
    <3>2. \A n \in 1 .. Len(lines) : lines[n] = lines[1] + n - 1
      BY Facts DEF Run
    <3> QED
      BY <3>1, <3>2
  <2> QED
    BY <2>2, <2>3 DEF IInv, Ordered
<1>3. ASSUME NEW k \in sent + 2 .. Len(lines)
      PROVE  InFlight < lines[k]
  <2>1. lines \in Seq(1 .. made) /\ sent \in Nat /\ Run(lines)
    BY Facts
  <2>2. k \in 1 .. Len(lines) /\ k > sent + 1
    BY <2>1
  <2>3. lines[k] = lines[1] + k - 1
    BY <2>1, <2>2 DEF Run
  <2> QED
    BY <1>1, <2>1, <2>2, <2>3
<1> QED
  BY <1>1, <1>2, <1>3

\* What is accepted or refused is the line being sent.
LEMMA AnswerKeeps ==
    ASSUME IInv, Sending, sent' = sent + 1, dropped' \in Nat, torn' \in BOOLEAN,
           \/ got' = got \cup {InFlight} /\ refused' = refused
           \/ spool.terminal /\ refused' = refused \cup {InFlight} /\ got' = got,
           UNCHANGED <<queue, lines, spool, made, replay, crashes>>
    PROVE  IInv'
<1>1. Typed'
  <2>1. sent' \in 0 .. Len(lines)
    BY Facts DEF Sending
  <2>2. InFlight \in 1 .. made
    BY Between
  <2> QED
    BY <2>1, <2>2 DEF IInv, Typed, SpoolTypeOK
<1>2. Answered' = Answered \cup {InFlight} /\ got' \subseteq got \cup {InFlight}
  BY DEF Answered
<1>3. \A k \in 1 .. sent' : lines[k] \in Answered'
  <2>1. \A k \in 1 .. sent + 1 : k \in 1 .. sent \/ k = sent + 1
    BY Facts
  <2> QED
    BY <1>2, <2>1 DEF IInv, Ordered, InFlight
<1>4. \A i \in DOMAIN queue : \A j \in got' : queue[i] < j => queue[i] \in Answered'
  BY <1>2, Between DEF IInv, Ordered
<1>5. \A k \in sent' + 1 .. Len(lines) : \A j \in got' : lines[k] < j => lines[k] \in Answered'
  <2> SUFFICES ASSUME NEW k \in sent + 2 .. Len(lines), NEW j \in got', lines[k] < j
               PROVE  lines[k] \in Answered'
    <3>1. sent' + 1 = sent + 2
      BY Facts
    <3> QED
      BY <3>1
  <2>1. CASE j \in got
    <3>1. k \in sent + 1 .. Len(lines)
      BY Facts
    <3> QED
      BY <1>2, <2>1, <3>1 DEF IInv, Ordered
  <2>2. CASE j = InFlight
    <3>1. InFlight < lines[k] /\ InFlight \in Nat /\ lines[k] \in Nat
      <4>1. k \in DOMAIN lines /\ lines \in Seq(1 .. made) /\ made \in Nat
        BY Facts
      <4>2. lines[k] \in Nat
        BY <4>1
      <4>3. InFlight \in Nat /\ InFlight < lines[k]
        BY Between, <4>1
      <4> QED
        BY <4>2, <4>3
    <3> QED
      BY <2>2, <3>1
  <2> QED
    BY <1>2, <2>1, <2>2
<1>6. Ordered'
  BY <1>3, <1>4, <1>5 DEF IInv, Ordered
<1> QED
  BY <1>1, <1>6 DEF IInv

\* The file after a round: without its first lines, all of them answered.
LEMMA CutAnswered ==
    ASSUME IInv, EndRound
    PROVE  /\ lines' = << >> /\ sent' = 0 /\ dropped' = dropped /\ torn' = torn
           /\ queue' \in Seq(1 .. made) /\ Newest(queue', made) /\ Len(queue') <= Len(queue)
           /\ \A i \in DOMAIN queue' : \E k \in DOMAIN queue : queue'[i] = queue[k]
           /\ \A k \in DOMAIN queue :
                 queue[k] \in Answered \/ \E i \in DOMAIN queue' : queue'[i] = queue[k]
<1>1. lines' = << >> /\ sent' = 0 /\ dropped' = dropped /\ torn' = torn
  BY DEF EndRound
<1>2. CASE ~HeadUnchanged
  <2>1. queue' = queue
    BY <1>2 DEF EndRound
  <2> QED
    BY <1>1, <2>1, Facts
<1>3. CASE HeadUnchanged
  <2> DEFINE c == SubSeq(queue, sent + 1, Len(queue))
  <2>1. queue' = c /\ sent \in 0 .. Len(queue)
    <3>1. queue' = c /\ Len(queue) >= sent
      BY <1>3 DEF EndRound, HeadUnchanged
    <3>2. sent \in 0 .. Len(lines) /\ queue \in Seq(1 .. made) /\ lines \in Seq(1 .. made)
      BY Facts
    <3>3. sent \in Nat /\ Len(queue) \in Nat
      BY <3>2
    <3> HIDE DEF c
    <3> QED
      BY <3>1, <3>3
  <2>2. /\ c \in Seq(1 .. made) /\ Len(c) = Len(queue) - sent /\ Newest(c, made)
        /\ \A i \in DOMAIN c : sent + i \in DOMAIN queue /\ c[i] = queue[sent + i]
        /\ \A i \in DOMAIN queue : i > sent => i - sent \in DOMAIN c /\ c[i - sent] = queue[i]
    <3>1. made \in Nat /\ queue \in Seq(1 .. made) /\ Newest(queue, made)
      BY Facts
    <3> QED
      BY <2>1, <3>1, NewestCut
  <2> HIDE DEF c
  <2>3. \A k \in DOMAIN queue : k \in 1 .. sent \/ k > sent
    BY Facts
  <2>4. \A k \in 1 .. sent : queue[k] \in Answered
    BY <1>3, HeadAnswered DEF HeadUnchanged
  <2>5. Len(queue') <= Len(queue)
    BY <2>1, <2>2, Facts
  <2>6. \A k \in DOMAIN queue : queue[k] \in Answered \/ \E i \in DOMAIN c : c[i] = queue[k]
    BY <2>2, <2>3, <2>4
  <2> QED
    BY <1>1, <2>1, <2>2, <2>5, <2>6
<1> QED
  BY <1>2, <1>3

\* A round ends; the line being sent may have been accepted, or refused for ever.
LEMMA EndKeeps ==
    ASSUME IInv, EndRound, UNCHANGED <<spool, made, replay, crashes>>,
           \/ got' = got
           \/ Sending /\ got' = got \cup {InFlight},
           \/ refused' = refused
           \/ ~spool.terminal /\ Sending /\ refused' = refused \cup {InFlight}
    PROVE  IInv'
<1>1. /\ lines' = << >> /\ sent' = 0 /\ dropped' = dropped /\ torn' = torn
      /\ queue' \in Seq(1 .. made) /\ Newest(queue', made) /\ Len(queue') <= Len(queue)
      /\ \A i \in DOMAIN queue' : \E k \in DOMAIN queue : queue'[i] = queue[k]
  BY CutAnswered
<1>2. got' \subseteq 1 .. made /\ refused' \subseteq 1 .. made
  BY Between DEF IInv, Typed
<1>3. Len(queue') <= spool.max
  BY <1>1, Facts DEF IInv, Typed
<1>4. Typed'
  BY <1>1, <1>2, <1>3, Facts DEF IInv, Typed, SpoolTypeOK
<1>5. \A k \in DOMAIN queue : \A j \in got' : queue[k] < j => queue[k] \in Answered'
  <2> SUFFICES ASSUME NEW k \in DOMAIN queue, NEW j \in got', queue[k] < j
               PROVE  queue[k] \in Answered'
    OBVIOUS
  <2>1. CASE j \in got
    BY <2>1 DEF IInv, Ordered, Answered
  <2>2. CASE Sending /\ got' = got \cup {InFlight} /\ j = InFlight
    BY <2>2, Between DEF Answered
  <2> QED
    BY <2>1, <2>2
<1>6. Ordered'
  BY <1>1, <1>5 DEF Ordered, Run
<1> QED
  BY <1>4, <1>6 DEF IInv

LEMMA Stuttering == IInv /\ UNCHANGED vars => IInv'
<1> QED
  BY DEF vars, spoolVars, IInv, Typed, Ordered, SpoolTypeOK, Newest, Run, Answered

LEMMA Inductive == IInv /\ [Next]_vars => IInv'
<1> SUFFICES ASSUME IInv, [Next]_vars PROVE IInv'
  OBVIOUS
<1>1. CASE Produce
  BY <1>1, ProduceKeeps
<1>2. CASE ProduceInterrupted
  <2>1. dropped' \in Nat /\ torn' \in BOOLEAN
    BY <1>2, Facts, Loss DEF ProduceInterrupted, PushInterrupted
  <2> QED
    BY <1>2, <2>1, RoundEndsKeeps, Facts, Bounds DEF ProduceInterrupted, PushInterrupted
<1>3. CASE Start
  BY <1>3, StartKeeps
<1>4. CASE Deliver
  BY <1>4, AnswerKeeps, Facts DEF Deliver, Acknowledged
<1>5. CASE DeliverUnanswered
  BY <1>5, EndKeeps DEF DeliverUnanswered
<1>6. CASE Refuse
  <2>1. dropped' \in Nat /\ torn' \in BOOLEAN
    BY <1>6, Facts, Loss DEF Refuse, Condemned
  <2> QED
    BY <1>6, <2>1, AnswerKeeps, Facts DEF Refuse, Condemned
<1>7. CASE Finish
  BY <1>7, EndKeeps DEF Finish
<1>8. CASE Crash
  <2>1. dropped' \in Nat /\ torn' \in BOOLEAN /\ lines' = << >> /\ sent' = 0 /\ queue' = queue
    BY <1>8, Facts, PowerLoss DEF Crash, RoundLost, PowerLost
  <2> QED
    BY <1>8, <2>1, RoundEndsKeeps, Facts, Bounds DEF Crash
<1>9. CASE UNCHANGED vars
  BY <1>9, Stuttering
<1>10. CASE Replay
  BY <1>10, ReplayKeeps
<1>11. CASE Rebuff
  BY <1>11, EndKeeps DEF Rebuff
<1> QED
  BY <1>1, <1>2, <1>3, <1>4, <1>5, <1>6, <1>7, <1>8, <1>9, <1>10, <1>11 DEF Next

LEMMA Initially == Init => IInv
<1> SUFFICES ASSUME Init PROVE IInv
  OBVIOUS
<1>1. SpoolTypeOK(1 .. made)
  <2>1. queue = << >> /\ lines = << >> /\ sent = 0 /\ dropped = 0 /\ torn = FALSE
    BY DEF Init, SpoolInit
  <2>2. << >> \in Seq(1 .. made) /\ Len(<< >>) = 0
    OBVIOUS
  <2>3. torn \in BOOLEAN
    BY <2>1
  <2>4. queue \in Seq(1 .. made) /\ lines \in Seq(1 .. made) /\ sent \in 0 .. Len(lines) /\ dropped \in Nat
    BY <2>1, <2>2
  <2> QED
    BY <2>3, <2>4 DEF SpoolTypeOK
<1>3. spool \in SpoolKind /\ Len(queue) <= spool.max
  <2>1. spool \in SpoolKind /\ Len(queue) = 0
    BY Bounds DEF Init, SpoolInit
  <2> QED
    BY <2>1 DEF SpoolKind
<1>4. replay = FALSE /\ made = 0 /\ crashes = 0 /\ got = {} /\ refused = {} /\ spool \in Spools
  BY DEF Init
<1>6. made \in 0 .. MaxItems /\ crashes \in 0 .. MaxCrash
  BY <1>4, Bounds
<1>7. replay \in BOOLEAN /\ (replay => spool.unique /\ made > 0)
  BY <1>4
<1>8. got \subseteq 1 .. made /\ refused \subseteq 1 .. made
  BY <1>4
<1>5. Typed
  BY <1>1, <1>3, <1>4, <1>6, <1>7, <1>8 DEF Typed
<1>2. Ordered
  BY DEF Init, SpoolInit, Ordered, Newest, Run
<1> QED
  BY <1>2, <1>5 DEF IInv

LEMMA Always == Spec => []IInv
<1> QED
  BY Initially, Inductive, PTL DEF Spec

----------------------------------------------------------------------------
(* The theorems.                                                            *)

\* The file never outgrows its depth (spool_push_inner), and only what was produced is
\* queued, in flight, accepted or refused.
THEOREM TypeCorrect == Spec => []TypeOK
<1>1. IInv => TypeOK
  BY DEF IInv, Typed, TypeOK, SpoolTypeOK
<1> QED
  BY <1>1, Always, PTL

\* An item arrives for the first time only before every newer one, whatever rounds were
\* cut short, sent again or overtaken by an overflow (spool_drain).
THEOREM FirstArrivalsInOrder == Spec => InOrder
<1>1. IInv /\ [Next]_vars => [\A i \in got' \ got : \A j \in got : j < i]_vars
  <2> SUFFICES ASSUME IInv, Next, NEW i \in got' \ got, NEW j \in got
               PROVE  j < i
    OBVIOUS
  <2>1. Sending /\ i = InFlight /\ InFlight \notin refused
    BY DEF Next, Produce, ProduceInterrupted, Replay, Start, Deliver, Acknowledged,
           DeliverUnanswered, Refuse, Rebuff, Finish, Crash
  <2>2. i \in 1 .. made /\ j \in 1 .. made /\ made \in Nat
    BY <2>1, Between, Facts DEF IInv, Typed
  <2>3. ~(i < j)
    <3>1. sent + 1 \in sent + 1 .. Len(lines)
      BY <2>1, Facts DEF Sending
    <3> QED
      BY <2>1, <3>1 DEF IInv, Ordered, Answered, InFlight
  <2> QED
    BY <2>2, <2>3
<1> QED
  BY <1>1, Always, PTL DEF Spec, InOrder

\* A line leaves the file unanswered only as the oldest of a queue that overflows, and
\* refused only where a status condemns it (spool_drain compares the head again before
\* it rewrites the file).
THEOREM OnlyOverflowLoses == Spec => UnansweredStays
<1>1. IInv /\ [Next]_vars =>
          [\A i \in Queued \ Queued' :
              \/ i \in got'
              \/ i \in refused' /\ spool.terminal
              \/ ~spool.keeps /\ made' > made /\ i = Head(queue)]_vars
  <2> SUFFICES ASSUME IInv, Next, NEW i \in Queued \ Queued'
               PROVE  \/ i \in got'
                      \/ i \in refused' /\ spool.terminal
                      \/ ~spool.keeps /\ made' > made /\ i = Head(queue)
    OBVIOUS
  <2>1. PICK k \in DOMAIN queue : i = queue[k]
    BY DEF Queued
  <2>2. \A n \in DOMAIN queue' : queue'[n] # i
    BY DEF Queued
  <2>3. queue' # queue
    BY <2>1, <2>2
  <2>4. CASE Produce
    <3> DEFINE q == Append(queue, made + 1)
    <3>0. made \in Nat /\ queue \in Seq(1 .. made) /\ Newest(queue, made)
      BY Facts
    <3>1. /\ q \in Seq(1 .. made + 1) /\ q # << >>
          /\ \A n \in DOMAIN queue : n \in DOMAIN q /\ q[n] = queue[n]
      BY <3>0, NewestAppended
    <3>2. queue' = q \/ (~spool.keeps /\ queue' = Tail(q) /\ made' = made + 1)
      BY <2>4, Unqueued DEF Produce, Push
    <3>3. queue' # q
      BY <2>1, <2>2, <3>1
    <3>4. k = 1
      <4>1. \A n \in 1 .. Len(q) - 1 : Tail(q)[n] = q[n + 1] /\ n \in DOMAIN Tail(q)
        BY <3>1
      <4>2. k # 1 => k - 1 \in 1 .. Len(q) - 1 /\ (k - 1) + 1 = k
        <5>1. k \in 1 .. Len(queue) /\ Len(queue) \in Nat
          BY <2>1, <3>0
        <5>2. Len(q) = Len(queue) + 1
          BY <3>0
        <5> QED
          BY <5>1, <5>2
      <4> QED
        BY <2>1, <2>2, <3>1, <3>2, <3>3, <4>1, <4>2
    <3> HIDE DEF q
    <3> QED
      BY <2>1, <3>2, <3>3, <3>4, Facts
  <2>5. CASE DeliverUnanswered \/ Rebuff \/ Finish
    <3>1. EndRound /\ got \subseteq got' /\ refused \subseteq refused'
      BY <2>5 DEF DeliverUnanswered, Rebuff, Finish
    <3> QED
      BY <2>1, <2>2, <3>1, CutAnswered DEF Answered
  <2>6. CASE Replay
    <3>1. made \in Queued
      BY <2>1, Last, Facts
    <3>2. made \in Queued /\ spool.unique
      BY <2>6, <3>1 DEF Replay, IInv, Typed
    <3> QED
      BY <2>3, <2>6, <3>2 DEF Replay, Push
  <2>7. Produce \/ DeliverUnanswered \/ Rebuff \/ Finish \/ Replay
    BY <2>3 DEF Next, ProduceInterrupted, PushInterrupted, Start, BeginRound, Deliver, Acknowledged,
                Refuse, Condemned, Crash, RoundLost, PowerLost
  <2> QED
    BY <2>4, <2>5, <2>6, <2>7
<1> QED
  BY <1>1, Always, PTL DEF Spec, UnansweredStays

----------------------------------------------------------------------------
(* What is given up is counted, as long as no count failed.  A line that is *)
(* condemned is counted then, and may stay in the file after a crash, so it *)
(* is given up from then on.                                                *)

GivenUp == ((1 .. made) \ (got \cup Queued)) \cup {i \in refused : spool.terminal}

Counted == ~torn => Cardinality(GivenUp) <= dropped

\* A step gives up nothing, or counts the one line that it gives up, or its count fails.
OneCounted ==
    \/ torn'
    \/ ~torn /\ dropped' = dropped /\ GivenUp' \subseteq GivenUp
    \/ ~torn /\ dropped' = dropped + 1 /\ \E x : GivenUp' \subseteq GivenUp \cup {x}

LEMMA ProduceCounts == IInv /\ Produce => OneCounted
<1> SUFFICES ASSUME IInv, Produce, ~torn' PROVE OneCounted
  BY DEF OneCounted
<1> DEFINE q == Append(queue, made + 1)
<1>0. /\ ~torn
      /\ \/ queue' = q /\ dropped' = dropped
         \/ Len(queue) >= spool.max /\ queue' = Tail(q) /\ dropped' = dropped + 1
  <2>1. Push(spool, made + 1) /\ spool.max \in Nat /\ Len(queue) \in Nat
    BY Facts DEF Produce
  <2> QED
    BY <2>1, Unqueued DEF Push, Room, CountLoss
<1>1. /\ q \in Seq(1 .. made + 1) /\ Len(q) = Len(queue) + 1
      /\ \A i \in DOMAIN queue : i \in DOMAIN q /\ q[i] = queue[i]
      /\ q[Len(queue) + 1] = made + 1
  BY Facts, NewestAppended
<1>2. made' = made + 1 /\ got' = got /\ refused' = refused /\ spool' = spool
  BY DEF Produce
<1>3. 1 .. made' = (1 .. made) \cup {made + 1}
  BY <1>2, Facts
<1>4. CASE queue' = q /\ dropped' = dropped
  <2>0. Len(queue) + 1 \in DOMAIN q
    BY <1>1, Facts
  <2> HIDE DEF q
  <2>1. made + 1 \in Queued' /\ Queued \subseteq Queued'
    BY <1>1, <1>4, <2>0 DEF Queued
  <2> QED
    BY <1>0, <1>2, <1>3, <1>4, <2>1 DEF OneCounted, GivenUp
<1>5. CASE Len(queue) >= spool.max /\ queue' = Tail(q) /\ dropped' = dropped + 1
  <2>1. Len(queue) \in Nat /\ Len(queue) >= 1
    BY <1>5, Facts
  <2> HIDE DEF q
  <2>2. \A i \in 1 .. Len(queue) : i \in DOMAIN Tail(q) /\ Tail(q)[i] = q[i + 1]
    <3>1. q # << >> /\ q \in Seq(1 .. made + 1) /\ Len(q) - 1 = Len(queue)
      BY <1>1, <2>1
    <3>2. Tail(q) \in Seq(1 .. made + 1) /\ Len(Tail(q)) = Len(queue)
      BY <3>1
    <3>3. \A i \in 1 .. Len(Tail(q)) : Tail(q)[i] = q[i + 1]
      BY <3>1
    <3> QED
      BY <3>2, <3>3
  <2>3. made + 1 \in Queued'
    <3>1. Len(queue) \in 1 .. Len(queue)
      BY <2>1
    <3>2. Len(queue) \in DOMAIN queue' /\ queue'[Len(queue)] = made + 1
      BY <1>1, <1>5, <2>2, <3>1
    <3> QED
      BY <3>2 DEF Queued
  <2>4. \A k \in DOMAIN queue : k = 1 \/ queue[k] \in Queued'
    <3> SUFFICES ASSUME NEW k \in DOMAIN queue, k # 1
                 PROVE  queue[k] \in Queued'
      OBVIOUS
    <3>1. k - 1 \in 1 .. Len(queue) /\ (k - 1) + 1 = k
      BY Facts
    <3>2. queue'[k - 1] = queue[k] /\ k - 1 \in DOMAIN queue'
      BY <1>1, <1>5, <2>2, <3>1
    <3> QED
      BY <3>2 DEF Queued
  <2>5. GivenUp' \subseteq GivenUp \cup {queue[1]}
    BY <1>2, <1>3, <2>3, <2>4 DEF GivenUp, Queued
  <2> QED
    BY <1>0, <1>5, <2>5 DEF OneCounted
<1> QED
  BY <1>0, <1>4, <1>5

LEMMA EndCounts ==
    ASSUME IInv, EndRound, got \subseteq got', UNCHANGED <<made, spool>>,
           Answered \subseteq Answered',
           {i \in refused' : spool.terminal} = {i \in refused : spool.terminal}
    PROVE  OneCounted
<1>1. \A x \in Queued : x \in Answered \/ x \in Queued'
  BY CutAnswered DEF Queued
<1>2. dropped' = dropped /\ torn' = torn /\ torn \in BOOLEAN
  BY CutAnswered, Facts
<1>3. GivenUp' \subseteq GivenUp
  BY <1>1 DEF GivenUp, Answered
<1> QED
  BY <1>2, <1>3 DEF OneCounted

LEMMA EveryStepCounts ==
    ASSUME IInv, [Next]_vars
    PROVE  OneCounted
<1>1. CASE Produce
  BY <1>1, ProduceCounts
<1>2. CASE ProduceInterrupted
  <2>1. /\ UNCHANGED <<queue, made, got, refused, spool>>
        /\ torn' \/ (dropped' = dropped + 1 /\ torn' = torn)
    BY <1>2 DEF ProduceInterrupted, PushInterrupted, CountLoss
  <2>2. GivenUp' = GivenUp
    BY <2>1 DEF GivenUp, Queued
  <2> QED
    BY <2>1, <2>2 DEF OneCounted
<1>3. CASE Start \/ Deliver \/ Crash \/ UNCHANGED vars
  <2>1. /\ UNCHANGED <<queue, made, refused, spool>> /\ got \subseteq got'
        /\ torn' \/ (~torn /\ dropped' = dropped)
    <3>1. dropped \in Nat /\ torn \in BOOLEAN
      BY Facts
    <3>2. CASE UNCHANGED <<dropped, torn>>
      BY <1>3, <3>1, <3>2 DEF Start, BeginRound, Deliver, Acknowledged, Crash, RoundLost, PowerLost,
                              vars, spoolVars
    <3>3. CASE Crash /\ PowerLost
      BY <3>1, <3>3, PowerLoss DEF Crash, PowerLost
    <3> QED
      BY <1>3, <3>2, <3>3 DEF Start, BeginRound, Deliver, Acknowledged, Crash, RoundLost, vars, spoolVars
  <2>2. Queued' = Queued
    BY <2>1 DEF Queued
  <2>3. GivenUp' \subseteq GivenUp
    BY <2>1, <2>2 DEF GivenUp
  <2> QED
    BY <2>1, <2>3 DEF OneCounted
<1>4. CASE Refuse
  <2>1. /\ UNCHANGED <<queue, made, got, spool>>
        /\ torn' \/ (dropped' = dropped + 1 /\ torn' = torn)
        /\ refused' = refused \cup {InFlight}
    BY <1>4 DEF Refuse, Condemned, CountLoss
  <2>2. Queued' = Queued
    BY <2>1 DEF Queued
  <2>3. GivenUp' \subseteq GivenUp \cup {InFlight}
    BY <2>1, <2>2 DEF GivenUp
  <2> QED
    BY <2>1, <2>3 DEF OneCounted
<1>5. CASE DeliverUnanswered \/ Finish
  BY <1>5, EndCounts DEF DeliverUnanswered, Finish, Answered
<1>6. CASE Rebuff
  BY <1>6, EndCounts DEF Rebuff, Answered
<1>7. CASE Replay
  <2>1. /\ UNCHANGED <<made, got, refused, spool>> /\ spool.unique /\ Push(spool, made)
    BY <1>7 DEF Replay, IInv, Typed
  <2>2. /\ queue # << >> => made \in Queued
        /\ queue = << >> => Room(spool)
    <3>1. Len(<< >>) = 0 /\ spool.max \in Nat \ {0}
      BY Facts
    <3> QED
      BY <3>1, Last DEF Room
  <2>3. UNCHANGED <<dropped, torn>> /\ (queue' = queue \/ queue = << >>)
    BY <2>1, <2>2 DEF Push, Queued
  <2>4. Queued \subseteq Queued'
    BY <2>3 DEF Queued
  <2>5. GivenUp' \subseteq GivenUp
    BY <2>1, <2>4 DEF GivenUp
  <2> QED
    BY <2>3, <2>5, Facts DEF OneCounted
<1> QED
  BY <1>1, <1>2, <1>3, <1>4, <1>5, <1>6, <1>7 DEF Next

LEMMA GivenUpFinite == ASSUME IInv PROVE IsFiniteSet(GivenUp)
<1>1. GivenUp \subseteq 1 .. made /\ made \in Nat
  BY Facts DEF GivenUp, IInv, Typed
<1>2. IsFiniteSet(1 .. made)
  BY <1>1, FS_Interval
<1> QED
  BY <1>1, <1>2, FS_Subset

LEMMA CountedKept ==
    ASSUME IInv, IInv', Counted, OneCounted
    PROVE  Counted'
<1>1. IsFiniteSet(GivenUp) /\ IsFiniteSet(GivenUp') /\ dropped \in Nat
  <2>1. IsFiniteSet(GivenUp)
    BY GivenUpFinite
  <2>2. GivenUp' \subseteq 1 .. made' /\ made' \in Nat
    <3>1. made' \in 0 .. MaxItems /\ refused' \subseteq 1 .. made'
      BY DEF IInv, Typed
    <3>2. made' \in Nat
      BY <3>1, Bounds
    <3> QED
      BY <3>1, <3>2 DEF GivenUp
  <2>3. IsFiniteSet(1 .. made')
    BY <2>2, FS_Interval
  <2>4. IsFiniteSet(GivenUp')
    BY <2>2, <2>3, FS_Subset
  <2> QED
    BY <2>1, <2>4, Facts
<1>2. Cardinality(GivenUp) \in Nat /\ Cardinality(GivenUp') \in Nat
  BY <1>1, FS_CardinalityType
<1>3. CASE ~torn /\ dropped' = dropped /\ GivenUp' \subseteq GivenUp
  BY <1>1, <1>2, <1>3, FS_Subset DEF Counted
<1>4. ASSUME ~torn, dropped' = dropped + 1, NEW x, GivenUp' \subseteq GivenUp \cup {x}
      PROVE  Counted'
  <2>1. /\ IsFiniteSet(GivenUp \cup {x})
        /\ Cardinality(GivenUp \cup {x}) \in {Cardinality(GivenUp), Cardinality(GivenUp) + 1}
    BY <1>1, FS_AddElement
  <2>2. Cardinality(GivenUp') <= Cardinality(GivenUp \cup {x})
    BY <1>4, <2>1, FS_Subset
  <2> QED
    BY <1>1, <1>2, <1>4, <2>1, <2>2 DEF Counted
<1>5. CASE torn'
  BY <1>5 DEF Counted
<1> QED
  BY <1>3, <1>4, <1>5 DEF OneCounted

\* What was made durable and is neither queued nor accepted was counted, an append cut
\* short, a refusal sent twice and a journal replayed included -- unless the count itself
\* failed, was cut short or was lost with the power (spool_push_inner, spool_drain).
THEOREM EveryLossCounted == Spec => []LossIsCounted
<1>1. Init => Counted
  <2> SUFFICES ASSUME Init PROVE Counted
    OBVIOUS
  <2>1. GivenUp = {} /\ dropped = 0
    BY DEF Init, SpoolInit, GivenUp
  <2> QED
    BY <2>1, FS_EmptySet DEF Counted
<1>2. IInv /\ IInv' /\ Counted /\ [Next]_vars => Counted'
  BY EveryStepCounts, CountedKept
<1>3. IInv /\ Counted => LossIsCounted
  <2> SUFFICES ASSUME IInv, Counted, ~torn PROVE LossIsCounted
    BY DEF LossIsCounted
  <2> DEFINE lost == (1 .. made) \ (got \cup Queued)
  <2>1. lost \subseteq GivenUp /\ IsFiniteSet(GivenUp) /\ dropped \in Nat
    BY GivenUpFinite, Facts DEF GivenUp
  <2>2. IsFiniteSet(lost) /\ Cardinality(lost) <= Cardinality(GivenUp)
    BY <2>1, FS_Subset
  <2>3. Cardinality(lost) \in Nat /\ Cardinality(GivenUp) \in Nat
    BY <2>1, <2>2, FS_CardinalityType
  <2>4. Cardinality(GivenUp) <= dropped
    BY DEF Counted
  <2>5. Cardinality(lost) <= dropped => LossIsCounted
    BY DEF LossIsCounted
  <2> HIDE DEF lost
  <2> QED
    BY <2>1, <2>2, <2>3, <2>4, <2>5
<1> QED
  BY <1>1, <1>2, <1>3, Always, PTL DEF Spec
=============================================================================
