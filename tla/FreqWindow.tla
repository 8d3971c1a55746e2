----------------------------- MODULE FreqWindow -----------------------------
(***************************************************************************)
(* LNFreq (src/monitor.cpp, lines 35-160): a frequency "count/period" and  *)
(* the rolling window of event timestamps kept for it.                     *)
(*                                                                         *)
(* A window is a record                                                    *)
(*   [count |-> c, time |-> p, events |-> E]                               *)
(* where E is the std::map m_events: a function from the fingerprints      *)
(* (CRC values, 0 for the unsharded bucket) that have a bucket to the      *)
(* bucket's std::queue of timestamps, oldest first.  The operations are    *)
(* pure operators from a window (and the current second) to a window or a  *)
(* number; LNLogItem applies them under its own mutex.                     *)
(***************************************************************************)
EXTENDS Integers, Sequences, Functions, TLC

(* pushEvent keeps at most m_count + 10 events before appending one.      *)
HardLimitSlack == 10

(* Mutant of NewFreq: count and period swapped.                           *)
NewFreqSwapped(c, p) == [count |-> p, time |-> c, events |-> [f \in {} |-> <<>>]]

(* LNFreq(count, time) with no events recorded.                           *)
NewFreq(c, p) == [count |-> c, time |-> p, events |-> [f \in {} |-> <<>>]]

Bucket(W, crc) == IF crc \in DOMAIN W.events THEN W.events[crc] ELSE <<>>

(* pushEvent(crc): find or create the bucket; if it holds more than       *)
(* count + 10 events, pop the excess from the front; append now.          *)
PushEvent(W, crc, now) ==
    LET q     == Bucket(W, crc)
        limit == W.count + HardLimitSlack
        kept  == IF Len(q) > limit THEN SubSeq(q, Len(q) - limit + 1, Len(q)) ELSE q
    IN [W EXCEPT !.events = (crc :> Append(kept, now)) @@ W.events]

(* The while loop of removeDeprecated: pop while front < deprTime.        *)
RECURSIVE DropOlder(_, _)
DropOlder(q, deprTime) ==
    IF q # <<>> /\ Head(q) < deprTime THEN DropOlder(Tail(q), deprTime) ELSE q

(* removeDeprecated(now): deprTime = now - m_time; every bucket loses its *)
(* events older than deprTime, and buckets left empty are erased.         *)
RemoveDeprecated(W, now) ==
    LET trimmed == [f \in DOMAIN W.events |-> DropOlder(W.events[f], now - W.time)]
    IN [W EXCEPT !.events = RestrictValues(trimmed, LAMBDA q : q # <<>>)]

(* getMessuringCount(crc): crc 0 sums every bucket; any other crc reads   *)
(* its own bucket, which the code dereferences without checking that it   *)
(* exists (evaluating it on a missing bucket is an error here too).       *)
MessuringCount(W, crc) ==
    IF crc = 0
    THEN SumFunction([f \in DOMAIN W.events |-> Len(W.events[f])])
    ELSE Len(W.events[crc])

(* resetMessuring(crc): empty one bucket, or every bucket for crc 0;      *)
(* emptied buckets stay in the map until the next removeDeprecated.       *)
ResetMessuring(W, crc) ==
    IF crc = 0
    THEN [W EXCEPT !.events = [f \in DOMAIN W.events |-> <<>>]]
    ELSE [W EXCEPT !.events[crc] = <<>>]
=============================================================================
