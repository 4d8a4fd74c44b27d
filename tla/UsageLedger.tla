---------------------------- MODULE UsageLedger ----------------------------
(***************************************************************************)
(* What metering promises for one counter: bytes are carried, and from     *)
(* time to time the books move up to a level the counter really reached,   *)
(* by exactly what lies between the old level and the new one.             *)
(***************************************************************************)
EXTENDS Integers

VARIABLES
    carried,   \* bytes that passed
    level,     \* the counter value the books stand at, -1 before the first
    booked     \* bytes in the books

ledgerVars == <<carried, level, booked>>

Init ==
    /\ carried = 0
    /\ level = -1
    /\ booked = 0

Carry ==
    /\ carried' = carried + 1
    /\ UNCHANGED <<level, booked>>

\* The first reading is a baseline, or counts in full.
Open ==
    /\ level = -1
    /\ level' \in 0 .. carried
    /\ booked' \in {booked, booked + level'}
    /\ UNCHANGED carried

Book ==
    /\ level # -1
    /\ level' \in level .. carried
    /\ booked' = booked + (level' - level)
    /\ UNCHANGED carried

Next == Carry \/ Open \/ Book

Spec == Init /\ [][Next]_ledgerVars
=============================================================================
