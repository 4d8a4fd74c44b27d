---------------------------- MODULE SpoolDelivery ----------------------------
(***************************************************************************)
(* A producer, the spool, the network and the control plane that receives  *)
(* the lines.  Items are numbered in the order they are produced.  The     *)
(* agent dies, the machine loses power, files cannot be written, answers   *)
(* are lost, and lines are refused for good -- by a status that condemns   *)
(* them, or by one that the agent retries for ever.                        *)
(***************************************************************************)
EXTENDS AgentSpool, FiniteSets

CONSTANTS
    Spools,    \* the descriptors to check
    MaxItems,  \* bound: items produced
    MaxCrash   \* bound: deaths of the agent, power losses and failed writes

ASSUME SpoolsAssumption == Spools \subseteq SpoolKind /\ MaxItems \in Nat /\ MaxCrash \in Nat

VARIABLES
    spool,     \* the descriptor of this queue
    made,      \* items produced, and durable when produced
    got,       \* items the control plane has accepted
    refused,   \* items it has refused: the body can never become valid
    replay,    \* a journal on disk says the newest item may not be in the file
    crashes    \* deaths, power losses and failed writes so far

vars == <<spoolVars, spool, made, got, refused, replay, crashes>>

\* The file never outgrows its depth (spool_push_inner), and only what was produced
\* is queued, in flight, accepted or refused.
TypeOK ==
    /\ spool \in Spools
    /\ SpoolTypeOK(1 .. made)
    /\ Len(queue) <= spool.max
    /\ made \in 0 .. MaxItems
    /\ got \subseteq 1 .. made
    /\ refused \subseteq 1 .. made
    /\ replay \in BOOLEAN
    /\ crashes \in 0 .. MaxCrash

Init ==
    /\ SpoolInit
    /\ spool \in Spools
    /\ made = 0
    /\ got = {}
    /\ refused = {}
    /\ replay = FALSE
    /\ crashes = 0

\* A convergence result is only produced after all earlier ones were answered, and
\* after the journal of the last one was replayed (apply_once_inner).
Producing ==
    /\ made < MaxItems
    /\ spool.unique => queue = << >> /\ ~replay

Produce ==
    /\ Producing
    /\ Push(spool, made + 1)
    /\ made' = made + 1
    /\ UNCHANGED <<spool, got, refused, replay, crashes>>

ProduceInterrupted ==
    /\ Producing
    /\ crashes < MaxCrash
    /\ PushInterrupted(spool)
    /\ crashes' = crashes + 1
    /\ UNCHANGED <<spool, made, got, refused, replay>>

\* The agent that died between the append and the removal of its journal appends the
\* result again, delivered meanwhile or not.
Replay ==
    /\ replay
    /\ Push(spool, made)
    /\ replay' = FALSE
    /\ UNCHANGED <<spool, made, got, refused, crashes>>

Start ==
    /\ BeginRound
    /\ UNCHANGED <<spool, made, got, refused, replay, crashes>>

\* The line is accepted and the answer arrives.
Deliver ==
    /\ Acknowledged
    /\ InFlight \notin refused
    /\ got' = got \cup {InFlight}
    /\ UNCHANGED <<spool, made, refused, replay, crashes>>

\* The line is accepted and the answer is lost, which ends the round.
DeliverUnanswered ==
    /\ Sending
    /\ InFlight \notin refused
    /\ got' = got \cup {InFlight}
    /\ EndRound
    /\ UNCHANGED <<spool, made, refused, replay, crashes>>

\* The line is refused with a status that condemns it.
Refuse ==
    /\ Condemned(spool)
    /\ refused' = refused \cup {InFlight}
    /\ UNCHANGED <<spool, made, got, replay, crashes>>

\* The line is refused for good, but no status condemns a line of this queue: the round
\* ends and the line is sent again for ever.
Rebuff ==
    /\ ~spool.terminal
    /\ Sending
    /\ refused' = refused \cup {InFlight}
    /\ EndRound
    /\ UNCHANGED <<spool, made, got, replay, crashes>>

Finish ==
    /\ EndRound
    /\ UNCHANGED <<spool, made, got, refused, replay, crashes>>

Crash ==
    /\ crashes < MaxCrash
    /\ RoundLost \/ PowerLost
    /\ replay' \in {replay, spool.unique /\ made > 0}
    /\ crashes' = crashes + 1
    /\ UNCHANGED <<spool, made, got, refused>>

Next ==
    \/ Produce
    \/ ProduceInterrupted
    \/ Replay
    \/ Start
    \/ Deliver
    \/ DeliverUnanswered
    \/ Refuse
    \/ Rebuff
    \/ Finish
    \/ Crash

Spec == Init /\ [][Next]_vars

\* The reporter loops for ever, and a line the control plane accepts, or condemns, gets
\* through some time.
Fairness ==
    /\ WF_vars(Start)
    /\ SF_vars(Deliver \/ Refuse)
    /\ SF_vars(Finish /\ sent = Len(lines))

FairSpec == Spec /\ Fairness

---------------------------------------------------------------------------
\* An item arrives for the first time only before every newer one, whatever rounds
\* were cut short or sent again (spool_drain stops at the first failure): the control
\* plane computes deltas and overwrites state in that order.
InOrder ==
    [][\A i \in got' \ got : \A j \in got : j < i]_vars

\* What was made durable and is neither queued nor accepted was counted, whenever the
\* agent dies and whatever else fails -- unless the count itself failed, was cut short or
\* was lost with the power (spool_push_inner and spool_drain count before they write the
\* file; bump_dropped is a plain write).
LossIsCounted ==
    ~torn => Cardinality((1 .. made) \ (got \cup Queued)) <= dropped

\* A line leaves the file unanswered only as the oldest of a queue that overflows, never
\* because a round removes another line than the one it was answered for, and a line
\* that is refused only where a status condemns it (spool_drain compares the head again;
\* spool_push_inner returns an error where every checkpoint is preserved).
UnansweredStays ==
    [][\A i \in Queued \ Queued' :
          \/ i \in got'
          \/ i \in refused' /\ spool.terminal
          \/ ~spool.keeps /\ made' > made /\ i = Head(queue)]_vars

\* Every line leaves the file, or a line at or before it is refused for good by a control
\* plane whose answers condemn nothing in this queue: only that blocks the head
\* (spool_drain skips what terminal_statuses condemns and retries the rest for ever).
QueueMoves ==
    \A i \in 1 .. MaxItems :
        made >= i ~> \/ i \notin Queued
                     \/ ~spool.terminal /\ \E j \in refused \cap Queued : j <= i
=============================================================================
