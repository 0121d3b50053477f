----------------------------- MODULE IoSampling ------------------------------
(***************************************************************************)
(* The request limits of a connection object: IoSampling counts the frames *)
(* of the current hour, and whenReceivedFrame refuses a frame when a count *)
(* is over its limit.  The counts of the minutes and of the seconds share  *)
(* storage (a union), so minute i and second i of the hour are one cell.   *)
(*                                                                         *)
(* The limits are asked before the frame is handled and the frame counted  *)
(* after it, each at its own reading of the clock.  An object recycled for *)
(* another connection keeps its counts.                                    *)
(***************************************************************************)
EXTENDS Integers, Functions

CONSTANTS
    Minutes,        \* minutes of an hour
    PerMinute,      \* seconds of a minute
    second_limit, minute_limit, hour_limit,
    MaxNow          \* bound: the last second of the run

VARIABLES
    now,            \* the clock, in seconds
    current_hour,   \* _current_hour
    total,          \* _hour_sampling.total
    cell,           \* _hour_sampling.detail, the union
    conn,           \* the object's connection: "open", "handling" or "closed"
    taken           \* history: frames this object has counted in every second

vars == <<now, current_hour, total, cell, conn, taken>>

PerHour == Minutes * PerMinute
Cells == 0..PerHour - 1
Hour(t) == t \div PerHour
Second(t) == t % PerHour
Minute(t) == Second(t) \div PerMinute

Clear == [i \in Cells |-> 0]

TypeOK ==
    /\ now \in 0..MaxNow
    /\ current_hour \in 0..Hour(now)
    /\ total \in 0..hour_limit + 1
    /\ cell \in [Cells -> Nat]
    /\ conn \in {"open", "handling", "closed"}
    /\ taken \in [0..MaxNow -> Nat]

Init ==
    /\ now = 0 /\ current_hour = 0
    /\ total = 0 /\ cell = Clear
    /\ conn = "open"
    /\ taken = [t \in 0..MaxNow |-> 0]

FixedNever(x, zero) == x

(* fixSampleSpace: both readers of the clock start a new hour first.  It is *)
(* a count of this hour, or zero when the hour has changed.                *)
Fixed(x, zero) == IF Hour(now) # current_hour THEN zero ELSE x

(* getSample, and the three limits of whenReceivedFrame.  The comparison   *)
(* is strict, so a limit of n admits n + 1 frames.                         *)
OverLimit ==
    LET c == Fixed(cell, Clear) IN
    \/ c[Second(now)] > second_limit
    \/ c[Minute(now)] > minute_limit
    \/ Fixed(total, 0) > hour_limit

(* whenReceivedFrame up to process(): a frame over a limit resets the      *)
(* connection.                                                             *)
whenReceivedFrame ==
    /\ conn = "open"
    /\ conn' = IF OverLimit THEN "closed" ELSE "handling"
    /\ current_hour' = Hour(now)
    /\ total' = Fixed(total, 0) /\ cell' = Fixed(cell, Clear)
    /\ UNCHANGED <<now, taken>>

sampleMinuteOnly ==
    /\ conn = "handling" /\ conn' = "open"
    /\ current_hour' = Hour(now)
    /\ total' = Fixed(total, 0) + 1
    /\ cell' = [Fixed(cell, Clear) EXCEPT ![Minute(now)] = @ + 1]
    /\ taken' = [taken EXCEPT ![now] = @ + 1]
    /\ UNCHANGED now

(* sample: one more in the hour, in the second and in the minute. *)
sample ==
    /\ conn = "handling" /\ conn' = "open"
    /\ current_hour' = Hour(now)
    /\ total' = Fixed(total, 0) + 1
    /\ cell' = [[Fixed(cell, Clear) EXCEPT ![Second(now)] = @ + 1]
                    EXCEPT ![Minute(now)] = @ + 1]
    /\ taken' = [taken EXCEPT ![now] = @ + 1]
    /\ UNCHANGED now

(* The connection ends, and another one gets the object. *)
Close ==
    /\ conn = "open" /\ conn' = "closed"
    /\ UNCHANGED <<now, current_hour, total, cell, taken>>

initialize ==
    /\ conn = "closed" /\ conn' = "open"
    /\ UNCHANGED <<now, current_hour, total, cell, taken>>

Tick ==
    /\ now < MaxNow
    /\ now' \in now + 1..MaxNow
    /\ UNCHANGED <<current_hour, total, cell, conn, taken>>

Next == whenReceivedFrame \/ sample \/ Close \/ initialize \/ Tick

Spec == Init /\ [][Next]_vars

(***************************************************************************)
(* Properties.                                                             *)
(***************************************************************************)
Frames(S) == SumFunctionOnSet(taken, S)
SecondsOf(h, i) == {t \in 0..MaxNow : Hour(t) = h /\ Second(t) = i}
MinutesOf(h, i) == {t \in 0..MaxNow : Hour(t) = h /\ Minute(t) = i}
HoursOf(h) == {t \in 0..MaxNow : Hour(t) = h}

(* What the shared cells hold: the frames of second i of the hour and      *)
(* those of minute i together.  No cell ever holds fewer frames than the   *)
(* object has taken in its second or minute, whatever the hour before left.*)
CellsExact ==
    /\ total = Frames(HoursOf(current_hour))
    /\ \A i \in Cells :
          cell[i] = Frames(SecondsOf(current_hour, i))
                    + Frames(MinutesOf(current_hour, i))

(* One connection object never takes more than a limit's frames and one in *)
(* a second, a minute or an hour of the clock, although the clock may      *)
(* cross the boundary while a frame is handled.                            *)
LimitsHold ==
    \A t \in 0..now :
        /\ taken[t] <= second_limit + 1
        /\ Frames(MinutesOf(Hour(t), Minute(t))) <= minute_limit + 1
        /\ Frames(HoursOf(Hour(t))) <= hour_limit + 1
=============================================================================
