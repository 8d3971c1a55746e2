---------------------------- MODULE WatchRegistry ----------------------------
(***************************************************************************)
(* LNInotify's registry of watches (src/monitor.cpp) for several log     *)
(* sources in one directory.  Watcher follows one source with its data;   *)
(* this module drops the data and keeps what several sources share: one *)
(* inotify instance, whose inotify_add_watch returns the wd it already   *)
(* has for a path, and one m_watchMap from wd to LNLogFile*.              *)
(*                                                                         *)
(* Every source's basename is linked to an inode or to none; the kernel  *)
(* keeps watches (wd -> inode, or Dir) and one event queue; logNOT keeps  *)
(* each source's descriptor (the inode it has open, 0 when closed) and   *)
(* m_watchMap, a function from wds to sources.  The main thread reads the *)
(* queue in epoll_wait and handles every event in readEvents; draining  *)
(* the sources does not touch the registry and is left to Watcher.       *)
(***************************************************************************)
EXTENDS Naturals, Sequences, FiniteSets, SequencesExt, Functions

CONSTANTS
    Sources,    \* the sources' basenames, all in one directory
    OtherName,  \* the name a rotated file is moved to
    MaxInodes,  \* inodes the file system may hold
    MaxOps      \* writes, moves, removals and creations

Dir    == 0   \* the directory, as the target of a watch
NoName == "" \* inotify_event.len = 0: the event is on the file itself
Masks  == {"MODIFY", "ATTRIB", "MOVE_SELF", "MOVED_FROM", "DELETE"}
Event  == [wd : Nat, mask : Masks, name : Sources \cup {OtherName, NoName}]

VARIABLES
    link,     \* source -> the inode its name points to, 0 for none
    nInodes,  \* inodes created so far
    kw,       \* the kernel's watches: wd -> inode, or Dir
    nextWd,   \* the next wd the kernel hands out
    queue,    \* the inotify event queue
    fd,       \* source -> LNLogFile::m_fd, as the inode it has open (0: closed)
    wmap,     \* LNInotify::m_watchMap: wd -> source
    pc,       \* the main thread: "wait" or "handle"
    batch,    \* the events readEvents still has to handle
    fremoved, \* readEvents' fremoved
    ops       \* file-system operations done, see MaxOps

vars == <<link, nInodes, kw, nextWd, queue, fd, wmap, pc, batch, fremoved, ops>>

TypeOK ==
    /\ link \in [Sources -> 0..MaxInodes] /\ nInodes \in 0..MaxInodes
    /\ kw \in [DOMAIN kw -> 0..MaxInodes] /\ DOMAIN kw \subseteq 1..(nextWd - 1)
    /\ wmap \in [DOMAIN wmap -> Sources] /\ DOMAIN wmap \subseteq 1..(nextWd - 1)
    /\ queue \in Seq(Event) /\ batch \in Seq(Event)
    /\ fd \in [Sources -> 0..MaxInodes]
    /\ pc \in {"wait", "handle"} /\ fremoved \in BOOLEAN /\ ops \in 0..MaxOps

(* startListening: every source is open and addWatch puts a watch on its *)
(* file, in the order of the list; the wd of the n-th is n, and so is    *)
(* its inode.                                                             *)
Init ==
    /\ link \in {f \in [Sources -> 1..Cardinality(Sources)] : IsInjective(f)}
    /\ nInodes = Cardinality(Sources)
    /\ kw = [w \in 1..nInodes |-> w] /\ nextWd = nInodes + 1
    /\ wmap = [w \in 1..nInodes |-> CHOOSE s \in Sources : link[s] = w]
    /\ fd = link /\ queue = <<>> /\ pc = "wait" /\ batch = <<>>
    /\ fremoved = FALSE /\ ops = 0
-----------------------------------------------------------------------------
(* The kernel: an event for target t goes to the watch on t, if any; an *)
(* event identical to the last one queued is merged into it.             *)
EventsFor(t, m, nm) ==
    LET ws == {w \in DOMAIN kw : kw[w] = t} IN
    IF ws = {} THEN <<>> ELSE <<[wd |-> CHOOSE w \in ws : TRUE, mask |-> m, name |-> nm]>>

Enqueue(es) ==
    LET add(q, e) == IF q # <<>> /\ Last(q) = e THEN q ELSE Append(q, e)
    IN queue' = FoldLeft(add, queue, es)

(* The environment: writers and logrotate, on source s's name.           *)
EnvStep(s, A) == ops < MaxOps /\ A /\ ops' = ops + 1 /\ UNCHANGED <<kw, nextWd, fd, wmap, pc, batch, fremoved>>

Write(s) == EnvStep(s, link[s] # 0 /\ UNCHANGED <<link, nInodes>>
    /\ Enqueue(EventsFor(link[s], "MODIFY", NoName) \o EventsFor(Dir, "MODIFY", s)))

(* mv s s.old: the dir event names the name the file leaves.            *)
MoveAway(s) == EnvStep(s, link[s] # 0 /\ link' = [link EXCEPT ![s] = 0] /\ UNCHANGED nInodes
    /\ Enqueue(EventsFor(link[s], "MOVE_SELF", NoName) \o EventsFor(Dir, "MOVED_FROM", s)))

(* rm s: the link count drops (IN_ATTRIB on the file's own watch).       *)
RemoveFile(s) == EnvStep(s, link[s] # 0 /\ link' = [link EXCEPT ![s] = 0] /\ UNCHANGED nInodes
    /\ Enqueue(EventsFor(link[s], "ATTRIB", NoName) \o EventsFor(Dir, "DELETE", s)))

(* Creating s: IN_CREATE is not in logNOT's mask, so no event.           *)
Create(s) == EnvStep(s, link[s] = 0 /\ nInodes < MaxInodes
    /\ link' = [link EXCEPT ![s] = nInodes + 1] /\ nInodes' = nInodes + 1 /\ UNCHANGED queue)
-----------------------------------------------------------------------------
(* logNOT's side: each helper maps the record l of fd, wmap, kw and      *)
(* nextWd to the record after the call, for the source s it is about.    *)
Reg == [fd |-> fd, wmap |-> wmap, kw |-> kw, nextWd |-> nextWd]

SetReg(l) == fd' = l.fd /\ wmap' = l.wmap /\ kw' = l.kw /\ nextWd' = l.nextWd

(* LNLogFile::close, and reopen: open the file at s's path, if any.      *)
Close(l, s) == [l EXCEPT !.fd[s] = 0]
Reopen(l, s) == [l EXCEPT !.fd[s] = link[s]]

(* LNInotify::addWatch: inotify_add_watch fails on a missing path, and    *)
(* returns the wd it already has for the target; then m_watchMap[wd] =   *)
(* pFile, whatever source that wd was mapped to.                          *)
AddWatch(l, s, t) ==
    LET old == {w \in DOMAIN l.kw : l.kw[w] = t}
        wd  == IF old # {} THEN CHOOSE w \in old : TRUE ELSE l.nextWd
    IN IF t = -1 THEN l
       ELSE [l EXCEPT !.kw = IF old # {} THEN @ ELSE (wd :> t) @@ @,
                      !.nextWd = IF old # {} THEN @ ELSE @ + 1,
                      !.wmap = (wd :> s) @@ @]

(* The path s names now: its inode, or -1 when it does not exist.        *)
PathOf(s) == IF link[s] = 0 THEN -1 ELSE link[s]

(* LNInotify::rmWatch(wd): inotify_rm_watch, and on success erase wd.     *)
RmWatch(l, w) ==
    IF w \in DOMAIN l.kw
    THEN [l EXCEPT !.kw = Restrict(@, DOMAIN @ \ {w}), !.wmap = Restrict(@, DOMAIN @ \ {w})]
    ELSE l

(* m_watchMap.erase(wd): the kernel watch stays.                          *)
Erase(l, w) == [l EXCEPT !.wmap = Restrict(@, DOMAIN @ \ {w})]

(* LNInotify::handleIfFileRemoved(pFile, wd, mask), and its result.       *)
HandleIfFileRemoved(l, s, e) ==
    LET drop(x) == IF e.mask = "MOVE_SELF" THEN RmWatch(x, e.wd) ELSE Erase(x, e.wd) IN
    IF link[s] = 0 /\ l.fd[s] # 0
    THEN [l |-> AddWatch(drop(Close(l, s)), s, Dir), removed |-> TRUE]
    ELSE IF link[s] = 0
    THEN [l |-> l, removed |-> FALSE]
    ELSE [l |-> AddWatch(drop(Reopen(l, s)), s, PathOf(s)), removed |-> FALSE]

(* LNInotify::handleEvent: a closed source and a dir event naming its    *)
(* file reopens it, drops the event's watch and watches the file.         *)
HandleEvent(l, s, e) ==
    IF l.fd[s] = 0 /\ e.name = s
    THEN AddWatch(RmWatch(Reopen(l, s), e.wd), s, PathOf(s))
    ELSE l
-----------------------------------------------------------------------------
(* waitForEvents returns on the inotify fd; readEvents reads the queue.   *)
ReadEvents ==
    /\ pc = "wait" /\ queue # <<>>
    /\ batch' = queue /\ queue' = <<>> /\ fremoved' = FALSE /\ pc' = "handle"
    /\ UNCHANGED <<link, nInodes, kw, nextWd, fd, wmap, ops>>

(* One event of readEvents' loop: the source is m_watchMap[wd] (an       *)
(* unknown wd is skipped); ATTRIB, MOVED_FROM and MOVE_SELF run the      *)
(* removal check; handleEvent runs unless fremoved is set.               *)
HandleStep ==
    /\ pc = "handle" /\ batch # <<>>
    /\ LET e == Head(batch) IN
       IF e.wd \notin DOMAIN wmap
       THEN UNCHANGED <<fd, wmap, kw, nextWd, fremoved>>
       ELSE LET s == wmap[e.wd]
                r == IF e.mask \in {"ATTRIB", "MOVED_FROM", "MOVE_SELF"}
                     THEN HandleIfFileRemoved(Reg, s, e)
                     ELSE [l |-> Reg, removed |-> fremoved]
            IN /\ fremoved' = r.removed
               /\ SetReg(IF r.removed THEN r.l ELSE HandleEvent(r.l, s, e))
    /\ batch' = Tail(batch)
    /\ UNCHANGED <<link, nInodes, queue, pc, ops>>

(* The batch is handled; the sources returned are drained (Watcher).    *)
EndOfEvents ==
    /\ pc = "handle" /\ batch = <<>> /\ pc' = "wait"
    /\ UNCHANGED <<link, nInodes, kw, nextWd, queue, fd, wmap, batch, fremoved, ops>>

Next ==
    \/ \E s \in Sources : Write(s) \/ MoveAway(s) \/ RemoveFile(s) \/ Create(s)
    \/ ReadEvents \/ HandleStep \/ EndOfEvents

Spec == Init /\ [][Next]_vars
-----------------------------------------------------------------------------
(* Spec 3 (Watcher): between batches, each source has exactly one active *)
(* watch of its own in m_watchMap: on its file while it is open, on the   *)
(* directory while it waits for the file to come back.  addWatch's       *)
(* m_watchMap[wd] = pFile for a wd the kernel shares is what is at stake. *)
OwnWatchPerSource ==
    pc = "wait" =>
        \A s \in Sources :
            LET ws == {w \in DOMAIN wmap : wmap[w] = s /\ w \in DOMAIN kw} IN
            /\ Cardinality(ws) = 1
            /\ \A w \in ws : kw[w] = IF fd[s] = 0 THEN Dir ELSE fd[s]
=============================================================================
