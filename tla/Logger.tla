------------------------------- MODULE Logger -------------------------------
(***************************************************************************)
(* LNLog, logNOT's logger (src/debug.cpp), shared by every thread.         *)
(*                                                                         *)
(* LNLog::log reads the clock (time_min = time(NULL) / 60) BEFORE it       *)
(* takes log_mtx, then, under the mutex, suppresses a message whose CRC    *)
(* and minute equal the previous one's and only counts it; any other       *)
(* message first flushes the count as "Last message repeated N times."     *)
(* and is then printed.  A thread is "idle" or "lock" (it has read the     *)
(* clock and waits for log_mtx); the critical section is one step.        *)
(*                                                                         *)
(* A message is a record [text, type].  Its text stands for the formatted  *)
(* string; texts are compared where the code compares CRC-32s, which      *)
(* treats two texts with the same CRC as equal (see README).  Verbose is   *)
(* debug_is_on: without it logDebug returns before calling log.  Where a  *)
(* line goes (file, stdout or syslog) is left out; a line is a record in  *)
(* "out", and each fprintf either writes its line or fails, after which   *)
(* the code only prints strerror to stdout and goes on.                    *)
(***************************************************************************)
EXTENDS Naturals, Sequences, SequencesExt

CONSTANTS
    Threads,    \* the threads that log
    Texts,      \* the formatted messages
    NoText,     \* prev_log_crc's initial 0, the CRC of no text
    MaxMinute,  \* bound on the clock, in minutes
    Verbose,    \* LNLog::debug_is_on (-v)
    WriteOK     \* the results fprintf may have: {TRUE}, or {TRUE, FALSE}

VARIABLES
    minute,     \* time(NULL) / 60
    prevText,   \* LNLog::prev_log_crc
    prevCount,  \* LNLog::prev_log_count
    prevTime,   \* LNLog::prev_log_time
    lpc,        \* lpc[t]: "idle", or "lock" between the clock read and log_mtx
    lcall,      \* lcall[t]: the message thread t is logging
    lmin,       \* lmin[t]: the time_min thread t read
    out,        \* the lines written, in order
    calls,      \* history: the messages in the order they took log_mtx
    exited      \* a DLOG_FATAL message ended the process

logVars == <<minute, prevText, prevCount, prevTime, lpc, lcall, lmin, out, calls, exited>>

Types == {"info", "warning", "error", "fatal", "debug"}

(* logInfo, logWarning, logError and logFatal format their arguments into *)
(* one message and pass it to log with their type; logDebug does so only  *)
(* when debug_is_on.                                                      *)
Calls == [text : Texts, type : IF Verbose THEN Types ELSE Types \ {"debug"}]

NoCall == [text |-> NoText, type |-> "info"]

Msg(c) == [kind |-> "msg", text |-> c.text, type |-> c.type]

Repeated(n) == [kind |-> "repeat", n |-> n]

TypeOK ==
    /\ minute \in 1..MaxMinute
    /\ prevText \in Texts \cup {NoText} /\ prevTime \in 0..MaxMinute
    /\ prevCount \in Nat
    /\ lpc \in [Threads -> {"idle", "lock"}]
    /\ lcall \in [Threads -> Calls \cup {NoCall}]
    /\ lmin \in [Threads -> 0..MaxMinute]
    /\ out \in Seq({Msg(c) : c \in Calls} \cup {Repeated(n) : n \in Nat})
    /\ calls \in Seq([t : Threads, text : Texts, type : Types])
    /\ exited \in BOOLEAN

(* The statics prev_log_crc, prev_log_count and prev_log_time start at 0; *)
(* time(NULL) / 60 is never 0 on a running system.                        *)
Init ==
    /\ minute = 1
    /\ prevText = NoText /\ prevCount = 0 /\ prevTime = 0
    /\ lpc = [t \in Threads |-> "idle"]
    /\ lcall = [t \in Threads |-> NoCall]
    /\ lmin = [t \in Threads |-> 0]
    /\ out = <<>> /\ calls = <<>> /\ exited = FALSE

(* A minute passes.                                                       *)
Tick ==
    /\ minute < MaxMinute
    /\ minute' = minute + 1
    /\ UNCHANGED <<prevText, prevCount, prevTime, lpc, lcall, lmin, out, calls, exited>>

(* LNLog::log up to LOCK_LOG: curtime and time_min are read, then the     *)
(* thread blocks on log_mtx.                                              *)
Begin(t, c) ==
    /\ ~exited /\ lpc[t] = "idle"
    /\ lpc' = [lpc EXCEPT ![t] = "lock"]
    /\ lcall' = [lcall EXCEPT ![t] = c]
    /\ lmin' = [lmin EXCEPT ![t] = minute]
    /\ UNCHANGED <<minute, prevText, prevCount, prevTime, out, calls, exited>>

(* Mutant of Flushed: the count is printed without prev_log_count++.      *)
FlushedNoIncrement(n) == Repeated(n)

(* The pending count is flushed after prev_log_count++: n + 1 in all.     *)
Flushed(n) == Repeated(n + 1)

(* The line of one fprintf: written, or lost when it fails.               *)
Written(ok, line) == IF ok THEN <<line>> ELSE <<>>

(* The statics and the output, as one record.                             *)
Statics == [text |-> prevText, count |-> prevCount, time |-> prevTime, out |-> out, exited |-> exited]

IsDup(st, c, m) == c.type # "debug" /\ c.text = st.text /\ m = st.time

(* LNLog::log after prev_log_crc is stored: the minute is stored, a        *)
(* pending count is flushed, and the message is written; DLOG_FATAL then  *)
(* calls exit(1), which ends every thread.                                 *)
Rest(st, c, m, okCount, okMsg) ==
    [st EXCEPT !.time = m, !.count = 0,
               !.out = @ \o Written(okCount /\ st.count # 0, Flushed(st.count))
                         \o Written(okMsg, Msg(c)),
               !.exited = @ \/ c.type = "fatal"]

(* LNLog::log under log_mtx.  A non-debug message with the previous CRC   *)
(* in the same minute only counts.  Otherwise a non-debug message stores  *)
(* its CRC and the rest of log runs.                                      *)
Crit(st, c, m, okCount, okMsg) ==
    IF IsDup(st, c, m) THEN [st EXCEPT !.count = @ + 1]
    ELSE Rest([st EXCEPT !.text = IF c.type = "debug" THEN @ ELSE c.text], c, m, okCount, okMsg)

SetStatics(st) ==
    /\ prevText' = st.text /\ prevCount' = st.count /\ prevTime' = st.time
    /\ out' = st.out /\ exited' = st.exited

Record(t, c) == [t |-> t, text |-> c.text, type |-> c.type]

(* Thread t leaves LNLog::log and releases log_mtx.                       *)
Leave(t) ==
    /\ lpc' = [lpc EXCEPT ![t] = "idle"]
    /\ lcall' = [lcall EXCEPT ![t] = NoCall]
    /\ lmin' = [lmin EXCEPT ![t] = 0]
    /\ UNCHANGED minute

(* Thread t runs the critical section of LNLog::log.                      *)
Emit(t) ==
    /\ ~exited /\ lpc[t] = "lock"
    /\ \E okCount, okMsg \in WriteOK :
          SetStatics(Crit(Statics, lcall[t], lmin[t], okCount, okMsg))
    /\ calls' = Append(calls, Record(t, lcall[t]))
    /\ Leave(t)

(* SIGHUP is delivered to thread t right after its duplicate test (and,   *)
(* for a new message, the store of prev_log_crc).  terminationHandler's    *)
(* LNDisableMutex dm() declares a function and disables nothing, and      *)
(* log_mtx is recursive, so the handler's logInfo("Log file re-opened.")  *)
(* (message h, at the current minute) runs the whole of LNLog::log inside *)
(* t's critical section; then t resumes where it was interrupted.         *)
EmitInterrupted(t, h) ==
    /\ ~exited /\ lpc[t] = "lock"
    /\ LET c   == lcall[t]
           m   == lmin[t]
           dup == IsDup(Statics, c, m)
           st1 == IF dup \/ c.type = "debug" THEN Statics ELSE [Statics EXCEPT !.text = c.text]
       IN \E ok1, ok2, ok3, ok4 \in WriteOK :
             LET st2 == Crit(st1, h, minute, ok1, ok2)
             IN SetStatics(IF dup THEN [st2 EXCEPT !.count = @ + 1] ELSE Rest(st2, c, m, ok3, ok4))
    /\ calls' = calls \o <<Record(t, h), Record(t, lcall[t])>>
    /\ Leave(t)

(* The handler's message: logInfo, from the texts a handler logs.         *)
HupCalls == [text : Texts, type : {"info"}]

Next ==
    \/ Tick
    \/ \E t \in Threads :
          \/ \E c \in Calls : Begin(t, c)
          \/ Emit(t)
          \/ \E h \in HupCalls : EmitInterrupted(t, h)

Spec == Init /\ [][Next]_logVars
-----------------------------------------------------------------------------
(* How a reader of the log reconstructs what was logged: a message line   *)
(* stands for itself, and "Last message repeated N times." for N - 1 more *)
(* copies of the message line printed last (of nothing, when no message *)
(* line came before it).                                                   *)
ReadLine(seen, l) ==
    CASE l.kind = "msg" -> Append(seen, l.text)
      [] seen = <<>>    -> seen
      [] OTHER          -> seen \o [i \in 1..(l.n - 1) |-> Last(seen)]

Replay(lines) == FoldLeft(ReadLine, <<>>, lines)

(* What the log says happened is what was logged: replaying the lines,   *)
(* each "Last message repeated N times." standing for N - 1 more copies  *)
(* of the message printed before it, and adding the repeats still being  *)
(* counted, gives every message in the order the threads took log_mtx.   *)
(* Breaks if the duplicate test, the count's increment before it is       *)
(* printed or its reset goes wrong, if a debug line comes between a       *)
(* message and its repeats, or if a line is lost.                          *)
LogAccounting ==
    Replay(out) \o [i \in 1..prevCount |-> prevText]
        = [i \in DOMAIN calls |-> calls[i].text]
=============================================================================
