------------------------------- MODULE Watcher -------------------------------
(***************************************************************************)
(* Following one log source across file-system changes: LNInotify and     *)
(* LNFilesListener (src/monitor.cpp), the open/reopen/handleIfTruncated   *)
(* of LNLogFile, and the main loop with its reload (src/main.cpp).        *)
(*                                                                         *)
(* The source is the path "a" in one directory.  The file system holds    *)
(* inodes whose contents are sequences of item ids; the name "a" is linked *)
(* to one inode or to none; a writer appends whole items to the inode it  *)
(* has open.  The kernel keeps inotify watches (wd -> inode or the directory) and *)
(* a queue of events [wd, mask, name], merging an event identical to the *)
(* last one queued.  logNOT keeps its descriptor (the inode it has open,  *)
(* 0 when closed), the offset in items, and m_watchMap (the set of wds    *)
(* mapped to the source).  The main thread waits in epoll_wait, reads and *)
(* handles every queued event (readEvents), then drains the source once   *)
(* for every time it was reported ready (processLogFile); reading items   *)
(* within a drain is LogFile's business and is one step per item here.   *)
(***************************************************************************)
EXTENDS Integers, Sequences, FiniteSets, SequencesExt, TLC

CONSTANTS
    MaxWrites,   \* items the writer writes
    MaxInodes,   \* inodes the file system may create
    MaxOps,      \* moves, removals, creations, chmods and truncations
    MaxReloads   \* SIGUSR1 signals

Inodes == 1..MaxInodes
Dir    == -1   \* the directory, as the target of a watch
Ids    == 1..MaxWrites
Masks  == {"MODIFY", "ATTRIB", "MOVE_SELF", "MOVED_FROM", "DELETE"}
Names  == {"a", "other", ""}
Event  == [wd : Nat, mask : Masks, name : Names]

VARIABLES
    content,    \* inode -> the item ids it holds
    link,       \* the inode the name "a" points to, 0 for none
    rotated,    \* inodes moved to another name in the directory
    wfile,      \* the inode the writer appends to, 0 for none
    nInodes,    \* inodes created so far
    kw,         \* the kernel's watches: wd -> inode, or Dir
    nextWd,     \* the next watch descriptor the kernel hands out
    queue,      \* the inotify event queue
    fd,         \* LNLogFile::m_fd, as the inode it refers to (0: closed)
    pos,        \* the descriptor's offset, in items
    wmap,       \* the wds LNInotify::m_watchMap maps to the source
    pc,         \* the main thread: "wait", "handle", "drain", "reload", "rmAll", "exit"
    batch,      \* the events readEvents still has to handle
    fremoved,   \* readEvents' fremoved
    ready,      \* how many times the source is in the returned LNLogEvents
    lineCount,  \* processLogFile's lineCount
    reloadFlag, \* the global reload, set by the SIGUSR1 handler
    ops,        \* file-system operations done, see MaxOps
    reloads,    \* SIGUSR1 signals sent
    got,        \* history: the item ids fetched, in order
    where       \* history: id -> the inode it was written to (0: not yet)

fsVars  == <<content, link, rotated, wfile, nInodes>>
lnVars  == <<fd, pos, wmap, pc, batch, fremoved, ready, lineCount>>
vars    == <<content, link, rotated, wfile, nInodes, kw, nextWd, queue, fd, pos,
             wmap, pc, batch, fremoved, ready, lineCount, reloadFlag, ops,
             reloads, got, where>>

TypeOK ==
    /\ content \in [Inodes -> Seq(Ids)]
    /\ link \in 0..MaxInodes /\ rotated \subseteq Inodes /\ wfile \in 0..MaxInodes
    /\ nInodes \in 1..MaxInodes
    /\ kw \in [DOMAIN kw -> Inodes \cup {Dir}] /\ DOMAIN kw \subseteq 1..(nextWd - 1)
    /\ queue \in Seq(Event) /\ batch \in Seq(Event)
    /\ fd \in 0..MaxInodes /\ pos \in Nat /\ wmap \subseteq Nat
    /\ pc \in {"wait", "handle", "drain", "reload", "rmAll", "exit"}
    /\ fremoved \in BOOLEAN /\ ready \in Nat /\ lineCount \in Nat
    /\ reloadFlag \in BOOLEAN
    /\ got \in Seq(Ids) /\ where \in [Ids -> 0..MaxInodes]

(* The daemon has started: "a" is inode 1, opened at its end (it is      *)
(* empty), and startListening has put watch 1 on it.                     *)
Init ==
    /\ content = [i \in Inodes |-> <<>>]
    /\ link = 1 /\ rotated = {} /\ wfile = 1 /\ nInodes = 1
    /\ kw = (1 :> 1) /\ nextWd = 2 /\ queue = <<>>
    /\ fd = 1 /\ pos = 0 /\ wmap = {1}
    /\ pc = "wait" /\ batch = <<>> /\ fremoved = FALSE /\ ready = 0 /\ lineCount = 0
    /\ reloadFlag = FALSE /\ ops = 0 /\ reloads = 0
    /\ got = <<>> /\ where = [i \in Ids |-> 0]
-----------------------------------------------------------------------------
(* The kernel side.  An event for target t (an inode or Dir) goes to    *)
(* the watch on t, if there is one; an event identical to the last one   *)
(* queued is merged into it.                                              *)
WatchesOn(t) == {w \in DOMAIN kw : kw[w] = t}

EventsFor(t, m, nm) ==
    IF WatchesOn(t) = {} THEN <<>>
    ELSE <<[wd |-> CHOOSE w \in WatchesOn(t) : TRUE, mask |-> m, name |-> nm]>>

Enqueue(q, es) ==
    LET add(s, e) == IF s # <<>> /\ Last(s) = e THEN s ELSE Append(s, e)
    IN FoldLeft(add, q, es)

(* The name a change to inode i is reported under in the directory.      *)
NameOf(i) == IF i = link THEN "a" ELSE IF i \in rotated THEN "other" ELSE ""

(* An operation on inode i: the event on i's own watch, then the one on   *)
(* the directory's (when i has a name there).                             *)
Notify(i, m, dm) ==
    queue' = Enqueue(queue, EventsFor(i, m, "")
                 \o (IF NameOf(i) = "" THEN <<>> ELSE EventsFor(Dir, dm, NameOf(i))))
-----------------------------------------------------------------------------
(* The environment: the writer and logrotate.                             *)

(* The next item id: the ids are written in increasing order.           *)
Unwritten == {j \in Ids : where[j] = 0}

(* The writer appends one item to the inode it has open.                 *)
Write ==
    /\ wfile # 0 /\ Unwritten # {}
    /\ LET j == Min(Unwritten)
       IN /\ content' = [content EXCEPT ![wfile] = Append(@, j)]
          /\ where' = [where EXCEPT ![j] = wfile]
    /\ Notify(wfile, "MODIFY", "MODIFY")
    /\ UNCHANGED <<link, rotated, wfile, nInodes, kw, nextWd, ops>>
    /\ UNCHANGED <<lnVars, reloadFlag, reloads, got>>

(* mv a a.old: the inode keeps its data and the writer keeps writing to  *)
(* it.                                                                     *)
MoveAway ==
    /\ link # 0 /\ ops < MaxOps
    /\ Notify(link, "MOVE_SELF", "MOVED_FROM")
    /\ link' = 0 /\ rotated' = rotated \cup {link} /\ ops' = ops + 1
    /\ UNCHANGED <<content, wfile, nInodes, kw, nextWd, where>>
    /\ UNCHANGED <<lnVars, reloadFlag, reloads, got>>

(* rm a: the link count drops (IN_ATTRIB on the file's own watch).       *)
RemoveFile ==
    /\ link # 0 /\ ops < MaxOps
    /\ queue' = Enqueue(queue, EventsFor(link, "ATTRIB", "")
                                 \o EventsFor(Dir, "DELETE", "a"))
    /\ link' = 0 /\ ops' = ops + 1
    /\ UNCHANGED <<content, rotated, wfile, nInodes, kw, nextWd, where>>
    /\ UNCHANGED <<lnVars, reloadFlag, reloads, got>>

(* The writer (or logrotate's create) opens "a" with O_CREAT: a new,     *)
(* empty inode.  IN_CREATE is not in logNOT's mask: no event.            *)
Create ==
    /\ link = 0 /\ nInodes < MaxInodes /\ ops < MaxOps
    /\ link' = nInodes + 1 /\ wfile' = nInodes + 1 /\ nInodes' = nInodes + 1
    /\ ops' = ops + 1
    /\ UNCHANGED <<content, rotated, kw, nextWd, queue, where>>
    /\ UNCHANGED <<lnVars, reloadFlag, reloads, got>>

(* chmod a (or chown, or logrotate's create mode).                        *)
Chmod ==
    /\ link # 0 /\ ops < MaxOps
    /\ Notify(link, "ATTRIB", "ATTRIB")
    /\ ops' = ops + 1
    /\ UNCHANGED <<fsVars, kw, nextWd, where>>
    /\ UNCHANGED <<lnVars, reloadFlag, reloads, got>>

(* copytruncate: the items of "a" are dropped; the writer goes on at the  *)
(* new end (it writes with O_APPEND).                                      *)
Truncate ==
    /\ link # 0 /\ content[link] # <<>> /\ ops < MaxOps
    /\ Notify(link, "MODIFY", "MODIFY")
    /\ content' = [content EXCEPT ![link] = <<>>]
    /\ ops' = ops + 1
    /\ UNCHANGED <<link, rotated, wfile, nInodes, kw, nextWd, where>>
    /\ UNCHANGED <<lnVars, reloadFlag, reloads, got>>
-----------------------------------------------------------------------------
(* logNOT's side.  The helpers map a record L of the state one call may  *)
(* change (the descriptor, the offset, m_watchMap and the kernel's        *)
(* watches) to the record after the call.                                 *)
Lnk == [fd |-> fd, pos |-> pos, wmap |-> wmap, kw |-> kw, nextWd |-> nextWd]

SetL(l) == fd' = l.fd /\ pos' = l.pos /\ wmap' = l.wmap /\ kw' = l.kw /\ nextWd' = l.nextWd

(* LNLogFile::close: m_fd = 0.                                            *)
Close(l) == [l EXCEPT !.fd = 0, !.pos = 0]

(* Mutant of Reopen: the result of ::open is stored without checking it,  *)
(* so a failed open leaves m_fd = -1.                                     *)
ReopenNoCheck(l, seekEnd) ==
    IF link = 0 THEN [l EXCEPT !.fd = -1, !.pos = 0]
    ELSE [l EXCEPT !.fd = link, !.pos = IF seekEnd THEN Len(content[link]) ELSE 0]

(* Mutant of Reopen: the seek to the end left out.                        *)
ReopenAtStart(l, seekEnd) ==
    IF link = 0 THEN Close(l) ELSE [l EXCEPT !.fd = link, !.pos = 0]

(* LNLogFile::reopen(seekEnd) = open(m_fpath, ...): close the descriptor, *)
(* fail when stat() finds no file, else open "a" and, for seekEnd, seek   *)
(* to its end.                                                            *)
Reopen(l, seekEnd) ==
    IF link = 0 THEN Close(l)
    ELSE [l EXCEPT !.fd = link, !.pos = IF seekEnd THEN Len(content[link]) ELSE 0]

(* LNInotify::addWatch: inotify_add_watch on the file's path (t = link)  *)
(* or its directory (t = Dir); it fails when the path does not exist;  *)
(* the kernel returns the wd it already has for the target, if any; then *)
(* m_watchMap[wd] = pFile.                                                *)
AddWatch(l, t) ==
    LET old == {w \in DOMAIN l.kw : l.kw[w] = t} IN
    IF t = 0 THEN l
    ELSE IF old # {} THEN [l EXCEPT !.wmap = @ \cup old]
    ELSE [l EXCEPT !.kw = (l.nextWd :> t) @@ @, !.nextWd = @ + 1,
                   !.wmap = @ \cup {l.nextWd}]

(* LNInotify::rmWatch(wd): inotify_rm_watch, and on success erase wd.     *)
RmWatch(l, w) ==
    IF w \in DOMAIN l.kw
    THEN [l EXCEPT !.kw = Restrict(@, DOMAIN @ \ {w}), !.wmap = @ \ {w}]
    ELSE l

(* m_watchMap.erase(wd): the kernel watch stays.                          *)
Erase(l, w) == [l EXCEPT !.wmap = @ \ {w}]

(* LNInotify::handleIfFileRemoved: the record after it, and its result.   *)
HandleIfFileRemoved(l, e) ==
    LET drop(x) == IF e.mask = "MOVE_SELF" THEN RmWatch(x, e.wd) ELSE Erase(x, e.wd) IN
    IF link = 0 /\ l.fd # 0
    THEN [l |-> AddWatch(drop(Close(l)), Dir), removed |-> TRUE]
    ELSE IF link = 0
    THEN [l |-> l, removed |-> FALSE]
    ELSE [l |-> AddWatch(drop(Reopen(l, TRUE)), link), removed |-> FALSE]

(* Mutant of HandleEvent: the file is not watched again after reopening.  *)
HandleEventNoWatch(l, e) ==
    IF l.fd = 0 /\ e.name # ""
    THEN IF e.name = "a" THEN [l |-> RmWatch(Reopen(l, FALSE), e.wd), hit |-> TRUE]
         ELSE [l |-> l, hit |-> FALSE]
    ELSE [l |-> l, hit |-> TRUE]

(* LNInotify::handleEvent: a closed source and an event naming its file  *)
(* reopens it from the start, drops the event's watch and watches the    *)
(* file; hit says whether the source is returned for draining.            *)
HandleEvent(l, e) ==
    IF l.fd = 0 /\ e.name # ""
    THEN IF e.name = "a"
         THEN [l |-> AddWatch(RmWatch(Reopen(l, FALSE), e.wd), link), hit |-> TRUE]
         ELSE [l |-> l, hit |-> FALSE]
    ELSE [l |-> l, hit |-> TRUE]
-----------------------------------------------------------------------------
(* The main thread (main_proc, waitForEvents, readEvents, processLogFile).*)
envVars == <<fsVars, queue, ops, reloads, got, where>>

(* epoll_wait returns on the inotify fd and readEvents reads every event *)
(* queued (the buffer holds 1024; the queue here is shorter).            *)
ReadEvents ==
    /\ pc = "wait" /\ queue # <<>>
    /\ batch' = queue /\ queue' = <<>>
    /\ fremoved' = FALSE /\ ready' = 0 /\ pc' = "handle"
    /\ UNCHANGED <<fsVars, kw, nextWd, fd, pos, wmap, lineCount, reloadFlag>>
    /\ UNCHANGED <<ops, reloads, got, where>>

(* The body of readEvents' loop for one event: an unknown wd is skipped; *)
(* ATTRIB, MOVED_FROM and MOVE_SELF run the removal check and set        *)
(* fremoved, which no other event resets; while it is set, handleEvent  *)
(* is not called.                                                         *)
HandleStep ==
    /\ pc = "handle" /\ batch # <<>>
    /\ LET e == Head(batch) IN
       IF e.wd \notin wmap
       THEN UNCHANGED <<fd, pos, wmap, kw, nextWd, fremoved, ready>>
       ELSE LET r == IF e.mask \in {"ATTRIB", "MOVED_FROM", "MOVE_SELF"}
                     THEN HandleIfFileRemoved(Lnk, e)
                     ELSE [l |-> Lnk, removed |-> fremoved]
                h == HandleEvent(r.l, e)
            IN /\ fremoved' = r.removed
               /\ IF r.removed
                  THEN SetL(r.l) /\ UNCHANGED ready
                  ELSE SetL(h.l) /\ ready' = ready + (IF h.hit THEN 1 ELSE 0)
    /\ batch' = Tail(batch)
    /\ UNCHANGED <<fsVars, queue, pc, lineCount, reloadFlag, ops, reloads, got, where>>

(* waitForEvents has returned: the reload flag is tested first, and a     *)
(* reload drops the events just read; otherwise every source returned is *)
(* drained in turn.                                                       *)
EndOfEvents ==
    /\ pc = "handle" /\ batch = <<>>
    /\ pc' = IF reloadFlag THEN "reload" ELSE IF ready > 0 THEN "drain" ELSE "wait"
    /\ ready' = IF reloadFlag THEN 0 ELSE ready
    /\ UNCHANGED <<fsVars, kw, nextWd, queue, fd, pos, wmap, batch, fremoved>>
    /\ UNCHANGED <<lineCount, reloadFlag, ops, reloads, got, where>>

(* There is an item after the offset.  A closed source reads nothing.    *)
Unread == fd # 0 /\ pos < Len(content[fd])

(* fetchNextLog returns the next item after the offset.                   *)
FetchItem ==
    /\ pc = "drain" /\ Unread
    /\ got' = Append(got, content[fd][pos + 1])
    /\ pos' = pos + 1 /\ lineCount' = lineCount + 1
    /\ UNCHANGED <<fsVars, kw, nextWd, queue, fd, wmap, pc, batch, fremoved, ready>>
    /\ UNCHANGED <<reloadFlag, ops, reloads, where>>

(* handleIfTruncated: with an open descriptor past the file's size, seek *)
(* to the end.                                                            *)
HandleIfTruncated(p) ==
    IF fd # 0 /\ p > Len(content[fd]) THEN Len(content[fd]) ELSE p

(* fetchNextLog returned false: processLogFile calls handleIfTruncated   *)
(* when it read no line, and the next source in the list is drained.     *)
EndOfFile ==
    /\ pc = "drain" /\ ~Unread
    /\ pos' = IF lineCount = 0 THEN HandleIfTruncated(pos) ELSE pos
    /\ lineCount' = 0 /\ ready' = ready - 1
    /\ pc' = IF ready > 1 THEN "drain" ELSE "wait"
    /\ UNCHANGED <<fsVars, kw, nextWd, queue, fd, wmap, batch, fremoved>>
    /\ UNCHANGED <<reloadFlag, ops, reloads, got, where>>
-----------------------------------------------------------------------------
(* Reload.                                                                *)

(* SIGUSR1: the handler sets reload.  When the main thread is blocked in *)
(* epoll_wait and the signal is delivered to it, the wait fails with     *)
(* EINTR and returns an empty list; otherwise the flag is seen only when *)
(* waitForEvents next returns.                                            *)
SignalReload ==
    /\ reloads < MaxReloads /\ pc # "exit"
    /\ reloadFlag' = TRUE /\ reloads' = reloads + 1
    /\ pc' \in IF pc = "wait" THEN {"wait", "reload"} ELSE {pc}
    /\ UNCHANGED <<fsVars, kw, nextWd, queue, fd, pos, wmap, batch, fremoved>>
    /\ UNCHANGED <<ready, lineCount, ops, got, where>>

(* loadConfiguration(true): testConfiguration loads a second LNConfig,   *)
(* which fails when the file cannot be opened (or the configuration is  *)
(* invalid); then reload is aborted and the flag cleared.  Otherwise     *)
(* stopListening closes the epoll fd and calls rmAll.                     *)
Reload ==
    /\ pc = "reload"
    /\ \E valid \in BOOLEAN :
          IF valid /\ link # 0
          THEN pc' = "rmAll" /\ UNCHANGED reloadFlag
          ELSE pc' = "wait" /\ reloadFlag' = FALSE
    /\ UNCHANGED <<fsVars, kw, nextWd, queue, fd, pos, wmap, batch, fremoved>>
    /\ UNCHANGED <<ready, lineCount, ops, reloads, got, where>>

(* One pass of rmAll's loop: rmWatch(i->second) asks inotify_add_watch  *)
(* for the wd with mask 0, which the kernel rejects (EINVAL; or ENOENT   *)
(* and then inotify_rm_watch(-1) fails), so nothing is erased and the   *)
(* loop starts again from m_watchMap.begin().                             *)
RmAllStep ==
    /\ pc = "rmAll" /\ wmap # {}
    /\ UNCHANGED vars

(* rmAll finds m_watchMap empty; config.load unloads (closing the        *)
(* source) and opens "a" again at its end, and startListening watches    *)
(* it.  A missing file makes config.load fail, and logFatal exits.       *)
RmAllDone ==
    /\ pc = "rmAll" /\ wmap = {}
    /\ IF link = 0
       THEN pc' = "exit" /\ SetL(Close(Lnk)) /\ UNCHANGED reloadFlag
       ELSE /\ SetL(AddWatch(Reopen(Close(Lnk), TRUE), link))
            /\ pc' = "wait" /\ reloadFlag' = FALSE
    /\ UNCHANGED <<fsVars, queue, batch, fremoved, ready, lineCount>>
    /\ UNCHANGED <<ops, reloads, got, where>>
-----------------------------------------------------------------------------
Next ==
    \/ Write \/ MoveAway \/ RemoveFile \/ Create \/ Chmod \/ Truncate
    \/ ReadEvents \/ HandleStep \/ EndOfEvents \/ FetchItem \/ EndOfFile
    \/ SignalReload \/ Reload \/ RmAllStep \/ RmAllDone

(* The main thread is an OS thread: each of its steps, once enabled, is *)
(* taken.  The writer, logrotate and the operator are the environment.   *)
Fairness ==
    /\ WF_vars(ReadEvents) /\ WF_vars(HandleStep) /\ WF_vars(EndOfEvents)
    /\ WF_vars(FetchItem) /\ WF_vars(EndOfFile)
    /\ WF_vars(Reload) /\ WF_vars(RmAllStep) /\ WF_vars(RmAllDone)

Spec == Init /\ [][Next]_vars /\ Fairness
-----------------------------------------------------------------------------
(* No item is counted twice (spec 1: no double-counting across rotation *)
(* and truncation): the items fetched from one inode are fetched in the *)
(* order they were written, each once, through every reopen (the seek   *)
(* of reopen(true), the start of reopen(false) and the reload).          *)
NoReplay ==
    \A i, j \in DOMAIN got :
        (i < j /\ where[got[i]] = where[got[j]]) => got[i] < got[j]

(* While logNOT reads the file that is at "a", one of the wds in         *)
(* m_watchMap is the kernel's watch on that inode: handleEvent and       *)
(* handleIfFileRemoved re-add the watch after every reopen, whatever the *)
(* order of the events in the batch.                                      *)
FollowedFileWatched ==
    (fd # 0 /\ fd = link) => \E w \in wmap : w \in DOMAIN kw /\ kw[w] = fd

(* Spec 3 (Watcher): each source has exactly one active watch, on the    *)
(* file while it is open and on the directory while it waits for the     *)
(* file to be created again.                                              *)
SingleWatch ==
    pc # "exit" =>
        \E w \in wmap : wmap = {w} /\ w \in DOMAIN kw
                        /\ kw[w] = IF fd = 0 THEN Dir ELSE fd

(* Spec 4.8: a reload runs to its end (or, when a file is missing, the   *)
(* daemon exits) and the main loop waits for events again; rmAll returns.*)
ReloadCompletes == (pc = "reload") ~> (pc \in {"wait", "exit"})

(* What spec 3 and 4.8 promise of the watcher together: one active watch  *)
(* per source in every state, and every reload run to its end.            *)
WatchAsSpec == [](SingleWatch /\ (pc = "reload" => <>(pc \in {"wait", "exit"})))
=============================================================================
