----------------------------- MODULE RuleEngine -----------------------------
(***************************************************************************)
(* The rule engine of logNOT: the log rules (LNLogItem, src/monitor.cpp),  *)
(* the controller's per-line loop over the rules of a source               *)
(* (processLogFile, src/main.cpp) and the down-bound sweeper thread        *)
(* (_executeDownBoundFreqCheck, src/action_queue.cpp), over a clock that   *)
(* advances in whole seconds as time(NULL) does.                           *)
(*                                                                         *)
(* All rules are attached to one source.  A log line is a content class    *)
(* (a model value: every line of a class gives the same first match, so   *)
(* the same CRC) and the file position read after it.  One controller     *)
(* step handles one line against every rule.  The sweeper takes two      *)
(* steps per rule: the test (deprecation and downBoundFreqExcess) and,    *)
(* when it passes, the enqueue and resetDownBoundFreqMessuring, which     *)
(* lock the rule separately, so the controller may match in between.      *)
(* The clock may pass SweepSeconds boundaries during one sweep.  The      *)
(* actions are not executed here: enqueueing one adds a record to "fired".*)
(***************************************************************************)
EXTENDS Integers, Sequences, FiniteSets, FreqWindow

CONSTANTS
    Rules,          \* the LogRule sections attached to the source
    Contents,       \* classes of log lines
    Blank,          \* the empty line, in Contents
    Pattern,        \* Pattern[r]: the classes r's regex matches
    Crc,            \* Crc[k]: LNUtility::crci of the first match of class k
    UseCrc,         \* m_usecrc
    HasUpAction,    \* m_upbaction is non-empty
    UpFreq,         \* [count, time] of m_upfreq
    DownFreq,       \* [count, time] of m_downfreq
    SizeLimit,      \* m_size, 0 when no size option is given
    SweepInterval,  \* the sweeper's sleep(5)
    SweepSeconds,   \* bound on the clock ticks during one sweep
    Positions,      \* file positions a line may end at
    MaxLines,       \* bound on the lines read
    MaxTime         \* bound on the clock

ASSUME
    /\ Blank \in Contents
    /\ \A r \in Rules : Pattern[r] \subseteq Contents \ {Blank}
    /\ SweepInterval \in Nat \ {0}

VARIABLES
    now,        \* time(NULL)
    item,       \* item[r]: the mutable state of LNLogItem r
    wakeAt,     \* when the sweeper's sleep ends
    todo,       \* rules not yet handled in the current sweep
    startTime,  \* the sweeper's start_time
    uptime,     \* the sweeper's uptime, read once per sweep
    tnow,       \* the sweeper's tnow, read once per sweep
    pendingDown, \* the rule whose down test the sweeper passed, not yet reset
    lines,      \* history: the lines read, with the second and position
    fired       \* history: every action enqueued

vars == <<now, item, wakeAt, todo, startTime, uptime, tnow, pendingDown, lines, fired>>

NoDown == [rule |-> "none", after |-> 0, at |-> 0]

Fp(r, k) == IF UseCrc[r] THEN Crc[k] ELSE 0

Fps == {0} \cup {Crc[k] : k \in Contents}

Times == 0..MaxTime

WindowOK(W, f) ==
    /\ W.count = f.count /\ W.time = f.time
    /\ DOMAIN W.events \subseteq Fps
    /\ \A x \in DOMAIN W.events : W.events[x] \in Seq(Times)

Fire == [kind : {"up", "down", "size"}, rule : Rules, fp : Fps,
         at : Times, after : 0..MaxLines]

TypeOK ==
    /\ now \in Times
    /\ \A r \in Rules :
        /\ WindowOK(item[r].up, UpFreq[r])
        /\ WindowOK(item[r].down, DownFreq[r])
        /\ item[r].quotient \in Nat
    /\ wakeAt \in Nat /\ todo \subseteq Rules
    /\ startTime \in Times /\ uptime \in Int /\ tnow \in Times
    /\ pendingDown \in [rule : Rules, after : 0..MaxLines, at : Times] \cup {NoDown}
    /\ lines \in Seq([content : Contents, at : Times, pos : Positions])
    /\ fired \subseteq Fire

(* The LNLogItem constructor: empty windows, m_quotient = 0; the sweeper *)
(* starts with start_time = time(NULL) and goes to sleep.                 *)
Init ==
    /\ now = 0
    /\ item = [r \in Rules |->
                [up |-> NewFreq(UpFreq[r].count, UpFreq[r].time),
                 down |-> NewFreq(DownFreq[r].count, DownFreq[r].time),
                 quotient |-> 0]]
    /\ wakeAt = SweepInterval
    /\ todo = {} /\ startTime = 0 /\ uptime = 0 /\ tnow = 0
    /\ pendingDown = NoDown
    /\ lines = <<>> /\ fired = {}

(* A second passes.  The sweeper starts a sweep when its sleep ends, and  *)
(* the clock goes on, by at most SweepSeconds, while it sweeps.            *)
Tick ==
    /\ now < MaxTime
    /\ IF todo = {} THEN now < wakeAt ELSE now < tnow + SweepSeconds
    /\ now' = now + 1
    /\ UNCHANGED <<item, wakeAt, todo, startTime, uptime, tnow, pendingDown, lines, fired>>
-----------------------------------------------------------------------------
(* LNLogItem::sizeExcess(size): with no size option, nothing; otherwise  *)
(* m_quotient becomes size / m_size, and the action is due when that     *)
(* quotient grew.                                                         *)
SizeExcess(r, p) ==
    SizeLimit[r] # 0 /\ p \div SizeLimit[r] > item[r].quotient

NewQuotient(r, p) ==
    IF SizeLimit[r] = 0 THEN item[r].quotient ELSE p \div SizeLimit[r]

(* The loop body skips matching when the up action or the line is empty. *)
Matched(r, k) == HasUpAction[r] /\ k # Blank /\ k \in Pattern[r]

(* LNLogItem::Match: a matching line is pushed to the up window under    *)
(* its CRC (0 without usecrc) and to the down window under 0.            *)
AfterMatch(r, k) ==
    [up |-> PushEvent(item[r].up, Fp(r, k), now),
     down |-> PushEvent(item[r].down, 0, now)]

(* Mutant of UpBoundFreqExcess: ">=" for ">".                             *)
UpBoundFreqExcessGe(r, k) ==
    MessuringCount(AfterMatch(r, k).up, Fp(r, k)) >= UpFreq[r].count

(* upBoundFreqExcess: more events than the count in the line's bucket.   *)
UpBoundFreqExcess(r, k) ==
    MessuringCount(AfterMatch(r, k).up, Fp(r, k)) > UpFreq[r].count

(* The whole loop body for one rule: the new item state.  After an       *)
(* up-bound action, resetUpBoundFreqMessuring(0) empties every bucket.    *)
RuleStep(r, k, p) ==
    IF ~Matched(r, k)
    THEN [item[r] EXCEPT !.quotient = NewQuotient(r, p)]
    ELSE [up |-> IF UpBoundFreqExcess(r, k)
                 THEN ResetMessuring(AfterMatch(r, k).up, 0)
                 ELSE AfterMatch(r, k).up,
          down |-> AfterMatch(r, k).down,
          quotient |-> NewQuotient(r, p)]

(* The actions the loop body enqueues for one rule; the size action is   *)
(* enqueued even when the size option has no command.                    *)
RuleFires(r, k, p) ==
    LET n == Len(lines) + 1 IN
    (IF SizeExcess(r, p)
     THEN {[kind |-> "size", rule |-> r, fp |-> 0, at |-> now, after |-> n]}
     ELSE {})
    \cup
    (IF Matched(r, k) /\ UpBoundFreqExcess(r, k)
     THEN {[kind |-> "up", rule |-> r, fp |-> Fp(r, k), at |-> now, after |-> n]}
     ELSE {})

(* processLogFile: fetchNextLog returned line k and the file position is *)
(* p; every attached rule is tried in turn.                               *)
ProcessLine(k, p) ==
    /\ Len(lines) < MaxLines
    /\ item' = [r \in Rules |-> RuleStep(r, k, p)]
    /\ fired' = fired \cup UNION {RuleFires(r, k, p) : r \in Rules}
    /\ lines' = Append(lines, [content |-> k, at |-> now, pos |-> p])
    /\ UNCHANGED <<now, wakeAt, todo, startTime, uptime, tnow, pendingDown>>
-----------------------------------------------------------------------------
DownBoundFreqExcess(W) == MessuringCount(W, 0) < W.count

(* The sweeper wakes from sleep(5), locks the rule collection and reads  *)
(* the clock: tnow = time(NULL), uptime = tnow - start_time.              *)
StartSweep ==
    /\ todo = {} /\ now = wakeAt
    /\ todo' = Rules
    /\ tnow' = now
    /\ uptime' = now - startTime
    /\ UNCHANGED <<now, item, wakeAt, startTime, pendingDown, lines, fired>>

(* LNLogItem::removeDeprecatedEvents: both windows trimmed at the time   *)
(* it reads itself.                                                       *)
RemoveDeprecatedEvents(r) ==
    [item[r] EXCEPT !.up = RemoveDeprecated(@, now), !.down = RemoveDeprecated(@, now)]

(* LNLogItem::resetDownBoundFreqMessuring: every down bucket emptied.    *)
ResetDownBoundFreqMessuring(r) == [item[r] EXCEPT !.down = ResetMessuring(@, 0)]

(* The sweeper leaves rule r; after the last rule it sleeps again.        *)
Leave(r) ==
    /\ todo' = todo \ {r}
    /\ wakeAt' = IF todo' = {} THEN now + SweepInterval ELSE wakeAt

(* One rule, first part: removeDeprecatedEvents trims both windows at    *)
(* time(NULL), then the test under its own lock: a down count, uptime    *)
(* above the down period, and fewer events than the count.  The rule's   *)
(* mutex is released between these calls and the reset.                 *)
SweepTest(r) ==
    /\ r \in todo /\ pendingDown = NoDown
    /\ LET trimmed == RemoveDeprecatedEvents(r)
           due     == /\ DownFreq[r].count > 0
                      /\ uptime > DownFreq[r].time
                      /\ DownBoundFreqExcess(trimmed.down)
       IN /\ item' = [item EXCEPT ![r] = trimmed]
          /\ IF due
             THEN /\ pendingDown' = [rule |-> r, after |-> Len(lines), at |-> now]
                  /\ UNCHANGED <<todo, wakeAt>>
             ELSE /\ Leave(r)
                  /\ UNCHANGED pendingDown
    /\ UNCHANGED <<now, startTime, uptime, tnow, lines, fired>>

(* One rule, second part: enqueue the down action,                       *)
(* resetDownBoundFreqMessuring (every event in the down window, also     *)
(* those Match added since the test), and start_time = tnow.             *)
SweepReset ==
    /\ pendingDown # NoDown
    /\ LET r == pendingDown.rule IN
       /\ item' = [item EXCEPT ![r] = ResetDownBoundFreqMessuring(r)]
       /\ fired' = fired \cup {[kind |-> "down", rule |-> r, fp |-> 0,
                                at |-> pendingDown.at, after |-> pendingDown.after]}
       /\ Leave(r)
    /\ startTime' = tnow
    /\ pendingDown' = NoDown
    /\ UNCHANGED <<now, uptime, tnow, lines>>

Next ==
    \/ Tick
    \/ \E k \in Contents, p \in Positions : ProcessLine(k, p)
    \/ StartSweep
    \/ \E r \in Rules : SweepTest(r)
    \/ SweepReset

Spec == Init /\ [][Next]_vars
-----------------------------------------------------------------------------
(* The lines i in from..to of class matched by r that count for          *)
(* fingerprint f (all of them for f = 0: spec 4.1's count(0) is the sum  *)
(* of every bucket), read at second t0 or later.                          *)
MatchingLines(r, f, from, to, t0) ==
    {i \in from..to : /\ lines[i].content \in Pattern[r]
                      /\ f \in {0, Fp(r, lines[i].content)}
                      /\ lines[i].at >= t0}

(* The line after which the previous up-bound action of r, before the    *)
(* one enqueued at line n, was enqueued (0 if there was none).           *)
PrevUpFire(r, n) ==
    LET earlier == {e.after : e \in {x \in fired : x.kind = "up" /\ x.rule = r
                                                   /\ x.after < n}}
    IN IF earlier = {} THEN 0 ELSE CHOOSE m \in earlier : \A o \in earlier : o <= m

(* An up-bound action of r enqueued at second t for fingerprint f is     *)
(* justified: since r's previous up-bound action, more than the up count *)
(* lines counting for f were matched (every match, for f = 0), none      *)
(* older than the period plus one sweep interval and one sweep's         *)
(* duration (events leave the window only when the sweeper deprecates    *)
(* them).  Breaks if the reset after an action, the comparison in        *)
(* upBoundFreqExcess, the CRC sharding or the deprecation cut-off is     *)
(* wrong.                                                                 *)
UpFireJustified ==
    \A e \in fired :
        e.kind = "up" =>
            Cardinality(MatchingLines(e.rule, e.fp, PrevUpFire(e.rule, e.after) + 1,
                                      e.after,
                                      e.at - UpFreq[e.rule].time - SweepInterval - SweepSeconds))
                > UpFreq[e.rule].count

(* The lines up to line n matched by r's regex that were read at t0 or   *)
(* later, whatever their fingerprint.                                     *)
RecentMatches(r, n, t0) ==
    {i \in 1..n : lines[i].content \in Pattern[r] /\ lines[i].at >= t0}

LastDown(r) ==
    LET afters == {e.after : e \in {x \in fired : x.kind = "down" /\ x.rule = r}}
    IN IF afters = {} THEN 0 ELSE CHOOSE m \in afters : \A o \in afters : o <= m

(* Spec 4.6's test for r in a sweep that woke at second tnow: a down     *)
(* count, a process up at least the down period at the wake-up (it       *)
(* started at second 0), and fewer than the count matches in r's down    *)
(* window deprecated at now: the lines matched since the window was last *)
(* reset and not older than the period.                                   *)
SpecDownDue(r) ==
    /\ DownFreq[r].count > 0
    /\ tnow >= DownFreq[r].time
    /\ Cardinality({i \in (LastDown(r) + 1)..Len(lines) :
                      /\ lines[i].content \in Pattern[r]
                      /\ lines[i].at >= now - DownFreq[r].time})
         < DownFreq[r].count

(* The sweeper decides on every rule as spec 4.6 says: when it tests r,  *)
(* it goes on to enqueue r's down-bound action exactly when the process  *)
(* has been up for r's down period and r's window, deprecated and reset  *)
(* after r's last down-bound action, holds fewer events than the count.  *)
(* Depends on the uptime gate, the start_time it is measured from, and    *)
(* the reset erasing only the events the test saw.                        *)
DownStepAsSpec ==
    \A r \in Rules : SweepTest(r) => (pendingDown'.rule = r <=> SpecDownDue(r))

DownFiresAsSpec == [][DownStepAsSpec]_vars

(* Spec 7's number of size actions for r when the controller observes    *)
(* file position p: one per integer step the quotient p / size grew by.  *)
SpecSizeSteps(r, p) ==
    IF SizeLimit[r] = 0 \/ p \div SizeLimit[r] <= item[r].quotient THEN 0
    ELSE p \div SizeLimit[r] - item[r].quotient

(* Each line the controller processes enqueues, for every rule, as many  *)
(* size actions as spec 7 asks: exactly y - x when the file grew from     *)
(* x * size + r to y * size + s.  Depends on sizeExcess turning a jump    *)
(* over several thresholds into as many actions.                          *)
SizeStepAsSpec ==
    Len(lines') = Len(lines) + 1 =>
        \A r \in Rules :
           Cardinality({f \in fired' \ fired : f.kind = "size" /\ f.rule = r})
             = SpecSizeSteps(r, lines'[Len(lines')].pos)

SizeFiresAsSpec == [][SizeStepAsSpec]_vars

(* What spec 4.6 and 7 promise of a rule's down-bound and size actions.   *)
RulesAsSpec == [][DownStepAsSpec /\ SizeStepAsSpec]_vars
=============================================================================
