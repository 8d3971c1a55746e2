---------------------------- MODULE ActionQueue ----------------------------
(***************************************************************************)
(* The action queue and the command-executing workers of logNOT            *)
(* (src/action_queue.cpp).                                                 *)
(*                                                                         *)
(* LNActionQueue keeps a std::queue under its own recursive mutex and      *)
(* wakes workers through an LNCondition, which has a SECOND mutex of its   *)
(* own.  pop() tests for emptiness under the queue mutex, releases it,     *)
(* and only then waits on the condition; push() appends under the queue   *)
(* mutex and signals.  Every critical section of either mutex is one      *)
(* atomic step here; the worker's program counter records where it is     *)
(* between them:                                                           *)
(*   "check"   about to test emptiness            (pop, lines 26-28)       *)
(*   "wait"    saw an empty queue, not yet parked (pop, lines 30-33)       *)
(*   "waiting" parked in pthread_cond_wait        (LNCondition::wait)      *)
(*   "take"    about to take the head or ""       (pop, lines 35-42)       *)
(*   "exec"    running system() on a command      (_executePendingActions)*)
(*                                                                         *)
(* The producers are the controller (up-bound and size actions) and the    *)
(* down-bound sweeper; each pushes at most MaxPush commands.  A command    *)
(* is a record naming its producer and its rank among that producer's      *)
(* pushes; "empty" marks the empty string, which the code enqueues when a  *)
(* rule's action option is empty and the worker then skips.                *)
(***************************************************************************)
EXTENDS Naturals, Sequences, FiniteSets

CONSTANTS
    Workers,    \* the N command-executing threads
    Producers,  \* the threads that call LNActionThreads::enqueue
    MaxPush     \* bound on the pushes of one producer

ASSUME Workers # {} /\ Producers # {} /\ MaxPush \in Nat \ {0}

VARIABLES
    queue,      \* LNActionQueue::m_queue
    pc,         \* where each worker is, see above
    held,       \* the command a worker popped and has not finished with
    sent,       \* history: every command sent so far
    taken,      \* history: the non-empty commands in the order workers took them
    done        \* history: the commands whose system() call has returned

vars == <<queue, pc, held, sent, taken, done>>

Cmd == [src : Producers, seq : 1..MaxPush, empty : BOOLEAN]

NoCmd == [src |-> "none", seq |-> 0, empty |-> TRUE]

PushCount(p) == Cardinality({c \in sent : c.src = p})

TypeOK ==
    /\ queue \in Seq(Cmd)
    /\ pc \in [Workers -> {"check", "wait", "waiting", "take", "exec"}]
    /\ held \in [Workers -> Cmd \cup {NoCmd}]
    /\ sent \subseteq Cmd
    /\ taken \in Seq(Cmd)
    /\ done \subseteq Cmd

Init ==
    /\ queue = <<>>
    /\ pc = [w \in Workers |-> "check"]
    /\ held = [w \in Workers |-> NoCmd]
    /\ sent = {}
    /\ taken = <<>>
    /\ done = {}

(* LNCondition::signal: pthread_cond_signal wakes one parked worker, or   *)
(* nobody when no worker is parked yet.                                   *)
Signal ==
    IF \E w \in Workers : pc[w] = "waiting"
    THEN \E w \in {v \in Workers : pc[v] = "waiting"} :
            pc' = [pc EXCEPT ![w] = "take"]
    ELSE UNCHANGED pc

(* LNActionQueue::push, reached through LNActionThreads::enqueue.         *)
Push(p, isEmpty) ==
    /\ PushCount(p) < MaxPush
    /\ LET c == [src |-> p, seq |-> PushCount(p) + 1, empty |-> isEmpty]
       IN /\ queue' = Append(queue, c)
          /\ sent' = sent \cup {c}
    /\ Signal
    /\ UNCHANGED <<held, taken, done>>

(* pop(), first critical section: test emptiness, then drop the lock.     *)
CheckEmpty(w) ==
    /\ pc[w] = "check"
    /\ pc' = [pc EXCEPT ![w] = IF queue = <<>> THEN "wait" ELSE "take"]
    /\ UNCHANGED <<queue, held, sent, taken, done>>

(* pop() -> LNCondition::wait: lock the condition's mutex and park; the   *)
(* queue is not looked at again before parking.                           *)
Park(w) ==
    /\ pc[w] = "wait"
    /\ pc' = [pc EXCEPT ![w] = "waiting"]
    /\ UNCHANGED <<queue, held, sent, taken, done>>

(* pthread_cond_wait may return without a signal.                         *)
SpuriousWakeup(w) ==
    /\ pc[w] = "waiting"
    /\ pc' = [pc EXCEPT ![w] = "take"]
    /\ UNCHANGED <<queue, held, sent, taken, done>>

(* Mutant of Take: the front is read but m_queue.pop() is missing.        *)
TakeNoPop(w) ==
    /\ pc[w] = "take"
    /\ IF queue # <<>>
       THEN /\ held' = IF Head(queue).empty THEN held
                         ELSE [held EXCEPT ![w] = Head(queue)]
            /\ pc' = [pc EXCEPT ![w] = IF Head(queue).empty THEN "check" ELSE "exec"]
            /\ taken' = IF Head(queue).empty THEN taken ELSE Append(taken, Head(queue))
            /\ done' = IF Head(queue).empty THEN done \cup {Head(queue)} ELSE done
            /\ UNCHANGED queue
       ELSE /\ pc' = [pc EXCEPT ![w] = "check"]
            /\ UNCHANGED <<queue, held, taken, done>>
    /\ UNCHANGED sent

(* Mutant of Take: the container is used as a stack (back, pop_back).    *)
TakeLast(w) ==
    /\ pc[w] = "take"
    /\ IF queue # <<>>
       THEN LET c == queue[Len(queue)] IN
            /\ held' = IF c.empty THEN held ELSE [held EXCEPT ![w] = c]
            /\ queue' = SubSeq(queue, 1, Len(queue) - 1)
            /\ pc' = [pc EXCEPT ![w] = IF c.empty THEN "check" ELSE "exec"]
            /\ taken' = IF c.empty THEN taken ELSE Append(taken, c)
            /\ done' = IF c.empty THEN done \cup {c} ELSE done
       ELSE /\ pc' = [pc EXCEPT ![w] = "check"]
            /\ UNCHANGED <<queue, held, taken, done>>
    /\ UNCHANGED sent

(* pop(), second critical section, and the worker's test of the result:   *)
(* the head is taken when there is one, otherwise "" is returned; an      *)
(* empty result sends the worker back to pop().                           *)
Take(w) ==
    /\ pc[w] = "take"
    /\ IF queue # <<>>
       THEN /\ held' = IF Head(queue).empty THEN held
                         ELSE [held EXCEPT ![w] = Head(queue)]
            /\ queue' = Tail(queue)
            /\ pc' = [pc EXCEPT ![w] = IF Head(queue).empty THEN "check" ELSE "exec"]
            /\ taken' = IF Head(queue).empty THEN taken ELSE Append(taken, Head(queue))
            /\ done' = IF Head(queue).empty THEN done \cup {Head(queue)} ELSE done
       ELSE /\ pc' = [pc EXCEPT ![w] = "check"]
            /\ UNCHANGED <<queue, held, taken, done>>
    /\ UNCHANGED sent

(* _executePendingActions: system(action) returns, the exit code is       *)
(* logged, and the worker loops back to pop().                            *)
Execute(w) ==
    /\ pc[w] = "exec"
    /\ done' = done \cup {held[w]}
    /\ held' = [held EXCEPT ![w] = NoCmd]
    /\ pc' = [pc EXCEPT ![w] = "check"]
    /\ UNCHANGED <<queue, sent, taken>>

Worker(w) == CheckEmpty(w) \/ Park(w) \/ SpuriousWakeup(w) \/ Take(w) \/ Execute(w)

Next ==
    \/ \E p \in Producers, e \in BOOLEAN : Push(p, e)
    \/ \E w \in Workers : Worker(w)

(* Workers are OS threads: a runnable worker is eventually scheduled.     *)
(* Producers are driven by log traffic and timers and get no fairness;    *)
(* neither do spurious wakeups, which the code may never see.             *)
Fairness ==
    \A w \in Workers :
        /\ WF_vars(CheckEmpty(w))
        /\ WF_vars(Park(w))
        /\ WF_vars(Take(w))
        /\ WF_vars(Execute(w))

Spec == Init /\ [][Next]_vars /\ Fairness

-----------------------------------------------------------------------------
(* The places a command occupies: queue slots and workers' hands.        *)
Location(c) ==
    {<<"queue", i>> : i \in {j \in DOMAIN queue : queue[j] = c}}
        \cup {<<"worker", w>> : w \in {v \in Workers : held[v] = c}}

(* Every command the producers pushed is, at every moment, in exactly   *)
(* one place: once in the queue, or held by exactly one worker, or finished,  *)
(* and finished commands are nowhere else.  Two workers popping at once   *)
(* (pop() runs outside any lock between its two critical sections) must   *)
(* never both obtain, nor both drop, the same command.                    *)
CommandConservation ==
    \A c \in sent :
        IF c \in done THEN Location(c) = {} ELSE Cardinality(Location(c)) = 1

(* Commands of one producer are taken from the queue in the order that    *)
(* producer sent them (spec 5: "actions enqueued from a single source   *)
(* preserve relative order"), whatever the interleaving of the workers.   *)
TakeOrderPerProducer ==
    \A i, j \in DOMAIN taken :
        (i < j /\ taken[i].src = taken[j].src) => taken[i].seq < taken[j].seq

(* Every non-empty command that is sent is eventually executed by some  *)
(* worker (the purpose of the pool; spec 4.6).                            *)
EveryActionExecuted ==
    \A c \in Cmd : (c \in sent /\ ~c.empty) ~> (c \in done)
=============================================================================
