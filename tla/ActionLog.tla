----------------------------- MODULE ActionLog -----------------------------
(***************************************************************************)
(* The worker pool composed with the logger: after system() returns, a     *)
(* worker logs " -- Action '<command>' executed with return code <rc>."    *)
(* through LNLog::logInfo (src/action_queue.cpp) before it pops again,     *)
(* while the main thread logs its own messages and may stop the process    *)
(* with logFatal.  Both components share the threads: a worker inside      *)
(* LNLog::log takes no ActionQueue step, and after exit(1) no thread       *)
(* takes any step.                                                         *)
(***************************************************************************)
EXTENDS ActionQueue

CONSTANTS
    Main,         \* the main thread (controller and reload)
    MainTexts,    \* the messages the main thread logs
    MainTypes,    \* the levels it logs them at
    MaxMainLogs,  \* bound on the main thread's messages
    RetCodes,     \* exit codes system() may return
    NoText,
    MaxMinute,
    Verbose,      \* LNLog::debug_is_on
    WriteOK,      \* the results an fprintf to the log may have
    HupTexts,     \* what the SIGHUP handler logs
    MaxHups       \* bound on the SIGHUPs delivered

VARIABLES minute, prevText, prevCount, prevTime, lpc, lcall, lmin, out, calls, exited

(* A worker's report names the producer's command and the exit code.      *)
Report(c, rc) == [text |-> <<c.src, rc>>, type |-> "info"]

Texts == {Report(c, rc).text : c \in Cmd, rc \in RetCodes} \cup MainTexts

L == INSTANCE Logger WITH Threads <- Workers \cup {Main}

logVars == <<minute, prevText, prevCount, prevTime, lpc, lcall, lmin, out, calls, exited>>

sysVars == <<vars, logVars>>

(* A worker step A of the pool, taken only outside LNLog::log.            *)
PoolAct(w, A) == ~exited /\ lpc[w] = "idle" /\ A /\ UNCHANGED logVars

PoolStep(w) ==
    \/ PoolAct(w, CheckEmpty(w)) \/ PoolAct(w, Park(w))
    \/ PoolAct(w, SpuriousWakeup(w)) \/ PoolAct(w, Take(w))

(* _executePendingActions: system() returns rc and the worker calls       *)
(* logInfo with the command and rc before it loops back to pop().         *)
ExecuteAndLog(w) ==
    /\ ~exited /\ lpc[w] = "idle"
    /\ Execute(w)
    /\ \E rc \in RetCodes : L!Begin(w, Report(held[w], rc))

(* The main thread logs one of its messages.                              *)
MainLog ==
    /\ Len(SelectSeq(calls, LAMBDA x : x.t = Main)) < MaxMainLogs
    /\ \E c \in [text : MainTexts, type : {ty \in MainTypes : ty # "debug" \/ Verbose}] :
          L!Begin(Main, c)
    /\ UNCHANGED vars

SystemInit == Init /\ L!Init

SystemNext ==
    \/ ~exited /\ \E p \in Producers, e \in BOOLEAN : Push(p, e) /\ UNCHANGED logVars
    \/ \E w \in Workers : PoolStep(w) \/ ExecuteAndLog(w)
    \/ MainLog
    \/ \E t \in Workers \cup {Main} : L!Emit(t) /\ UNCHANGED vars
    \/ L!Tick /\ UNCHANGED vars

SystemSpec == SystemInit /\ [][SystemNext]_sysVars

(* SIGHUP delivered to a thread inside LNLog::log (Logger's              *)
(* EmitInterrupted); the handler's message is one of HupTexts.            *)
Hup ==
    /\ Len(SelectSeq(calls, LAMBDA x : x.text \in HupTexts)) < MaxHups
    /\ \E t \in Workers \cup {Main}, h \in [text : HupTexts, type : {"info"}] :
          L!EmitInterrupted(t, h) /\ UNCHANGED vars

(* Workers and the main thread are OS threads: a runnable one is         *)
(* eventually scheduled, inside LNLog::log too.  Producers, spurious      *)
(* wakeups, the clock and signals get no fairness.                         *)
SystemFairness ==
    /\ \A w \in Workers :
          /\ WF_sysVars(PoolAct(w, CheckEmpty(w)))
          /\ WF_sysVars(PoolAct(w, Park(w)))
          /\ WF_sysVars(PoolAct(w, Take(w)))
          /\ WF_sysVars(ExecuteAndLog(w))
    /\ \A t \in Workers \cup {Main} : WF_sysVars(L!Emit(t) /\ UNCHANGED vars)

(* The daemon with its faults: signals, verbose logging and failing log  *)
(* writes, under the threads' fairness.                                    *)
SystemFaultSpec == SystemInit /\ [][SystemNext \/ Hup]_sysVars /\ SystemFairness
-----------------------------------------------------------------------------
(* The log accounts for every message (Logger's LogAccounting) while     *)
(* workers report the same command and the main thread logs in between.  *)
LogAccounting == L!LogAccounting

(* What spec 4.6 and 5 promise of the pool and its log together: every    *)
(* non-empty command pushed is eventually executed, and the log accounts  *)
(* for every message, in every state.                                      *)
ActionLogAsSpec ==
    [](/\ LogAccounting
       /\ \A c \in Cmd : (c \in sent /\ ~c.empty) => <>(c \in done))
=============================================================================
