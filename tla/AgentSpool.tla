----------------------------- MODULE AgentSpool -----------------------------
(***************************************************************************)
(* An on-disk retry queue of the agent.  Producers append to a file, one   *)
(* reporter reads the file, sends its lines in order without holding the   *)
(* file, and afterwards removes what was answered -- if the head of the    *)
(* file is still what it read.  The queues differ in depth, in what they   *)
(* do when they are full, in whether an answer can condemn a line, and in  *)
(* whether a line is appended a second time.                               *)
(*                                                                         *)
(* The file is replaced atomically and synced.  The count of lines given   *)
(* up is not: it is truncated, written, never synced, and an error is      *)
(* ignored.                                                                *)
(***************************************************************************)
EXTENDS Integers, Sequences

VARIABLES
    queue,    \* the lines of the spool file, oldest first
    lines,    \* what the reporter read when its round began, << >> between rounds
    sent,     \* how many of them are answered in this round
    dropped,  \* the count of lines given up, as its file reads
    torn      \* history: a count failed, was cut short, or was lost with the power

spoolVars == <<queue, lines, sent, dropped, torn>>

\* A descriptor: depth, whether a full queue refuses, whether a 4xx condemns, whether an
\* append looks for the same line first.
SpoolKind == [max : Nat \ {0}, keeps : BOOLEAN, terminal : BOOLEAN, unique : BOOLEAN]

SpoolInit ==
    /\ queue = << >>
    /\ lines = << >>
    /\ sent = 0
    /\ dropped = 0
    /\ torn = FALSE

SpoolTypeOK(Item) ==
    /\ queue \in Seq(Item)
    /\ lines \in Seq(Item)
    /\ sent \in 0 .. Len(lines)
    /\ dropped \in Nat
    /\ torn \in BOOLEAN

Room(spool) == Len(queue) < spool.max

Queued == {queue[i] : i \in DOMAIN queue}

\* A line given up is counted; if the file cannot be opened the count stays, and if
\* it cannot be written it reads as zero.
CountLoss ==
    \/ dropped' = dropped + 1 /\ UNCHANGED torn
    \/ dropped' \in {dropped, 0} /\ torn' = TRUE

\* Mutant of Push: the oldest line is counted and stays.
PushGrowing(spool, item) ==
    /\ Room(spool) \/ ~spool.keeps
    /\ queue' = Append(queue, item)
    /\ IF Room(spool) THEN UNCHANGED <<dropped, torn>> ELSE CountLoss
    /\ UNCHANGED <<lines, sent>>

\* An append that succeeds.  A queue that keeps everything refuses when full,
\* the others give up their oldest line and count it.
Push(spool, item) ==
    /\ \/ /\ spool.unique
          /\ item \in Queued
          /\ UNCHANGED <<queue, dropped, torn>>
       \/ /\ ~(spool.unique /\ item \in Queued)
          /\ Room(spool)
          /\ queue' = Append(queue, item)
          /\ UNCHANGED <<dropped, torn>>
       \/ /\ ~(spool.unique /\ item \in Queued)
          /\ ~Room(spool)
          /\ ~spool.keeps
          /\ queue' = Tail(Append(queue, item))
          /\ CountLoss
    /\ UNCHANGED <<lines, sent>>

\* An overflowing append is cut short after the count: the file cannot be written, or
\* the process dies.
PushInterrupted(spool) ==
    /\ ~Room(spool)
    /\ ~spool.keeps
    /\ CountLoss
    /\ \/ UNCHANGED <<lines, sent>>
       \/ lines' = << >> /\ sent' = 0
    /\ UNCHANGED queue

BeginRound ==
    /\ lines = << >>
    /\ queue # << >>
    /\ lines' = queue
    /\ sent' = 0
    /\ UNCHANGED <<queue, dropped, torn>>

Sending == sent < Len(lines)
\* Mutant of InFlight: the newest line is sent first.
InFlightNewest == lines[Len(lines) - sent]

InFlight == lines[sent + 1]

\* The line was answered with success.
Acknowledged ==
    /\ Sending
    /\ sent' = sent + 1
    /\ UNCHANGED <<queue, lines, dropped, torn>>

\* Mutant of Condemned: the loss is not counted.
CondemnedSilently(spool) ==
    /\ spool.terminal
    /\ Sending
    /\ sent' = sent + 1
    /\ UNCHANGED <<queue, lines, dropped, torn>>

\* The line was answered with a status that condemns this exact body; the loss is
\* counted when the answer is read, before the line leaves the file.
Condemned(spool) ==
    /\ spool.terminal
    /\ Sending
    /\ sent' = sent + 1
    /\ CountLoss
    /\ UNCHANGED <<queue, lines>>

\* Mutant of HeadUnchanged: an overflow during the round is not noticed.
HeadAssumed == Len(queue) >= sent

HeadUnchanged ==
    /\ Len(queue) >= sent
    /\ SubSeq(queue, 1, sent) = SubSeq(lines, 1, sent)

\* Mutant of EndRound: the last answered line stays.
EndRoundShort ==
    /\ lines # << >>
    /\ queue' = IF HeadUnchanged /\ sent > 0 THEN SubSeq(queue, sent, Len(queue)) ELSE queue
    /\ lines' = << >>
    /\ sent' = 0
    /\ UNCHANGED <<dropped, torn>>

\* All lines are answered, or a request failed: what was answered leaves the file.
EndRound ==
    /\ lines # << >>
    /\ queue' = IF HeadUnchanged THEN SubSeq(queue, sent + 1, Len(queue)) ELSE queue
    /\ lines' = << >>
    /\ sent' = 0
    /\ UNCHANGED <<dropped, torn>>

\* The agent dies, or cannot write the file: it stays, and the round is forgotten.
RoundLost ==
    /\ lines' = << >>
    /\ sent' = 0
    /\ UNCHANGED <<queue, dropped, torn>>

\* Power loss: the count falls back to what some earlier write left on the disk.
PowerLost ==
    /\ lines' = << >>
    /\ sent' = 0
    /\ dropped' \in 0 .. dropped
    /\ torn' = (torn \/ dropped' < dropped)
    /\ UNCHANGED queue
=============================================================================
