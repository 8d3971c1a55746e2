------------------------------- MODULE LogFile -------------------------------
(***************************************************************************)
(* Reading items from one log source: LNLogFile::fetchNextLog              *)
(* (src/monitor.cpp) and the controller loop that drains a source by       *)
(* calling it until it returns false (processLogFile, src/main.cpp).       *)
(*                                                                         *)
(* Bytes are model values: ordinary data, the separator's bytes and NUL.   *)
(* The C string semantics the code relies on are kept: m_read_buf is      *)
(* zeroed and read as a C string (strstr, "+" of a char pointer), while *)
(* carry m_trash_hold is a std::string whose separator bytes are          *)
(* overwritten with NUL in place.  A writer appends items, each followed  *)
(* by the separator, one byte at a time, so every chunking of the stream  *)
(* into read() calls is possible.  read() returns at most ReadSize bytes   *)
(* (sizeof(m_read_buf) - 1); MaxItem stands for MAX_LOG_ITEM_SIZE.        *)
(***************************************************************************)
EXTENDS Integers, Sequences, SequencesExt

CONSTANTS
    Byte,       \* the bytes that may appear in the stream
    NUL,        \* the zero byte, in Byte
    Sep,        \* the separator m_sep, a sequence of bytes
    ItemSet,    \* the items the writer may write
    ReadSize,   \* bytes one read() returns at most
    MaxItem,    \* MAX_LOG_ITEM_SIZE
    Kind,       \* "FILE" or "FIFO"; a FIFO's writer keeps it open
    MaxWrites   \* bound on the items written

ASSUME
    /\ NUL \in Byte /\ Sep \in Seq(Byte \ {NUL}) /\ Sep # <<>>
    /\ ItemSet \subseteq Seq(Byte)
    /\ ReadSize \in Nat \ {0} /\ Kind \in {"FILE", "FIFO"}

VARIABLES
    file,       \* the bytes written to the file so far
    pending,    \* bytes the writer has produced and not yet written
    pos,        \* the descriptor's offset
    carry,      \* m_trash_hold
    errno,      \* the main thread's errno, as the read loop sees it
    rpc,        \* where the controller is in draining the source
    lineCount,  \* processLogFile's lineCount
    dirty,      \* history: bytes were written since the drain began
    written,    \* history: the items the writer wrote, in order
    got         \* history: the items fetchNextLog returned, in order

vars == <<file, pending, pos, carry, errno, rpc, lineCount, dirty, written, got>>

(* The C string a char pointer denotes: everything before the first NUL. *)
CStr(s) ==
    LET k == SelectInSeq(s, LAMBDA c : c = NUL)
    IN IF k = 0 THEN s ELSE SubSeq(s, 1, k - 1)

(* strstr(h, Sep) on the C string h: the index of the first occurrence,  *)
(* 0 when there is none.                                                  *)
StrStr(h) ==
    IF Sep \in SubSeqs(h) THEN IndexFirstSubSeq(Sep, h) ELSE 0

(* memset(trash, 0, m_sep.size()): the separator at i overwritten.       *)
ZeroSep(s, i) ==
    [j \in DOMAIN s |-> IF j \in i..(i + Len(Sep) - 1) THEN NUL ELSE s[j]]

(* Mutant of Remainder: the text after the separator is not kept.        *)
RemainderLost(s, i) == <<>>

(* m_trash_hold = trash: the C string that starts after the separator    *)
(* found at i.                                                            *)
Remainder(s, i) == CStr(SubSeq(s, i + Len(Sep), Len(s)))

TypeOK ==
    /\ file \in Seq(Byte) /\ pending \in Seq(Byte)
    /\ pos \in 0..Len(file)
    /\ carry \in Seq(Byte)
    /\ errno \in {"OTHER", "EAGAIN"}
    /\ rpc \in {"idle", "fetch", "loop", "read"}
    /\ lineCount \in Nat /\ dirty \in BOOLEAN
    /\ written \in Seq(ItemSet) /\ got \in Seq(Seq(Byte))

Init ==
    /\ file = <<>> /\ pending = <<>> /\ pos = 0 /\ carry = <<>>
    /\ errno = "OTHER" /\ rpc = "idle" /\ lineCount = 0 /\ dirty = FALSE
    /\ written = <<>> /\ got = <<>>
-----------------------------------------------------------------------------
(* The writer starts an item: the item and the separator are to be       *)
(* written.                                                               *)
Write(it) ==
    /\ pending = <<>> /\ Len(written) < MaxWrites
    /\ pending' = it \o Sep
    /\ written' = Append(written, it)
    /\ UNCHANGED <<file, pos, carry, errno, rpc, lineCount, dirty, got>>

(* One byte reaches the file.                                             *)
WriteByte ==
    /\ pending # <<>>
    /\ file' = Append(file, Head(pending))
    /\ pending' = Tail(pending)
    /\ dirty' = TRUE
    /\ UNCHANGED <<pos, carry, errno, rpc, lineCount, written, got>>
-----------------------------------------------------------------------------
(* The listener reports the source ready and processLogFile starts.      *)
StartDrain ==
    /\ rpc = "idle"
    /\ rpc' = "fetch" /\ lineCount' = 0 /\ dirty' = FALSE
    /\ UNCHANGED <<file, pending, pos, carry, errno, written, got>>

(* fetchNextLog returned false: processLogFile stops the loop (the       *)
(* handleIfTruncated it then calls for lineCount = 0 belongs to the      *)
(* watcher model; the file never shrinks here).                           *)
Return == rpc' = "idle"

(* fetchNextLog returned the item it: processLogFile counts the line and *)
(* calls fetchNextLog again.                                              *)
Yield(it) ==
    /\ got' = Append(got, it)
    /\ lineCount' = lineCount + 1
    /\ rpc' = "fetch"

(* fetchNextLog entry: an item still in m_trash_hold is returned first.  *)
(* item = m_trash_hold copies the whole std::string, the zeroed          *)
(* separator and everything after it included.                           *)
CarryItem(i) == ZeroSep(carry, i)

(* Mutant of CarrySep: m_trash_hold is not looked at before reading.      *)
CarrySepNone == 0

(* strstr(m_trash_hold.c_str(), m_sep.c_str()) when the carry is not      *)
(* empty.                                                                  *)
CarrySep == IF carry # <<>> THEN StrStr(CStr(carry)) ELSE 0

Fetch ==
    /\ rpc = "fetch"
    /\ LET i == CarrySep IN
       IF i > 0
       THEN /\ Yield(CarryItem(i))
            /\ carry' = Remainder(ZeroSep(carry, i), i)
       ELSE /\ rpc' = "loop"
            /\ UNCHANGED <<carry, got, lineCount>>
    /\ UNCHANGED <<file, pending, pos, errno, dirty, written>>

(* The top of the read loop: a carry over the limit is dropped and       *)
(* fetchNextLog returns false.                                            *)
CarryTooLong(c) == Len(c) > MaxItem

LoopTop ==
    /\ rpc = "loop"
    /\ IF CarryTooLong(carry)
       THEN carry' = <<>> /\ Return
       ELSE rpc' = "read" /\ UNCHANGED carry
    /\ UNCHANGED <<file, pending, pos, errno, lineCount, dirty, written, got>>

(* read(m_fd, m_read_buf, ReadSize) returns this many bytes.              *)
ReadCount(avail) == IF avail < ReadSize THEN avail ELSE ReadSize

(* m_read_buf after memset(0) and a read of n bytes at pos.               *)
ReadBuf(n) == [j \in 1..ReadSize |-> IF j <= n /\ pos + j <= Len(file)
                                     THEN file[pos + j] ELSE NUL]

(* Mutant of ReadRepeats: the errno test left out.                        *)
ReadRepeatsNoErrno(bytes, e) == bytes <= 0

(* The condition of the inner do-while around read().                     *)
ReadRepeats(bytes, e) == e = "EAGAIN" /\ bytes <= 0

(* One read() and what the loop body does with its result.  With no data *)
(* a regular file returns 0 and leaves errno alone; a FIFO whose writer  *)
(* is open returns -1 with EAGAIN.  While errno is EAGAIN and nothing    *)
(* was read the read is repeated; otherwise nothing read ends the call.  *)
(* Data read is a C string: the first separator in it ends an item      *)
(* (carry + the bytes before it) and what follows, up to a NUL, becomes  *)
(* the carry; a buffer starting with NUL returns the carry as an item;   *)
(* anything else is appended to the carry and the loop goes on.          *)
ReadStep ==
    /\ rpc = "read"
    /\ LET n     == ReadCount(Len(file) - pos)
           bytes == IF n > 0 THEN n ELSE IF Kind = "FIFO" THEN -1 ELSE 0
           e     == IF n = 0 /\ Kind = "FIFO" THEN "EAGAIN" ELSE errno
           cb    == CStr(ReadBuf(n))
           i     == StrStr(cb)
       IN /\ errno' = e
          /\ pos' = pos + n
          /\ IF ReadRepeats(bytes, e)
             THEN UNCHANGED <<carry, rpc, lineCount, got>>
             ELSE IF bytes <= 0
             THEN Return /\ UNCHANGED <<carry, lineCount, got>>
             ELSE IF i > 0
             THEN Yield(carry \o SubSeq(cb, 1, i - 1))
                  /\ carry' = Remainder(ReadBuf(n), i)
             ELSE IF cb = <<>>
             THEN Yield(carry) /\ carry' = <<>>
             ELSE carry' = carry \o cb /\ rpc' = "loop"
                  /\ UNCHANGED <<lineCount, got>>
    /\ UNCHANGED <<file, pending, dirty, written>>

Next ==
    \/ \E it \in ItemSet : Write(it)
    \/ WriteByte
    \/ StartDrain
    \/ Fetch
    \/ LoopTop
    \/ ReadStep

(* The controller is a thread: once draining, it keeps taking steps.     *)
(* The writer and the arrival of events are the environment.              *)
Fairness == WF_vars(Fetch) /\ WF_vars(LoopTop) /\ WF_vars(ReadStep)

Spec == Init /\ [][Next]_vars /\ Fairness
-----------------------------------------------------------------------------
(* The items written completely, separator included.                     *)
Complete == Len(written) - (IF pending # <<>> THEN 1 ELSE 0)

(* The abstract source: the items completed so far, and the items        *)
(* fetchNextLog returned, read as the C strings processLogFile passes on.  *)
IS == INSTANCE ItemStream WITH
        Item <- ItemSet,
        Limit <- MaxItem,
        sent <- SubSeq(written, 1, Complete),
        delivered <- [i \in DOMAIN got |-> CStr(got[i])]

(* fetchNextLog implements the item stream: read as C strings, the items  *)
(* it returns are the items the writer wrote, in order, each once, and    *)
(* none before its separator is in the file, however the stream was cut   *)
(* into reads (the carry, the separator search in the buffer and in the   *)
(* carry, and the hand-over of the remainder must fit together).          *)
ItemStreamSpec == IS!Spec

(* A drain that began after the last byte was written returns every      *)
(* complete item before it stops: nothing complete is left behind in the *)
(* carry until the next event for the source.                            *)
DrainComplete ==
    (rpc = "idle" /\ ~dirty) => Len(got) = Complete

(* Every call of fetchNextLog returns to processLogFile, so the main     *)
(* loop goes back to waiting for events.                                  *)
FetchReturns == (rpc = "read") ~> (rpc = "idle")

(* The abstract source again, with the items as processLogFile matches   *)
(* them: LNLogItem::Match passes the std::string's length to pcre_exec,   *)
(* so every byte of the item counts, NULs included.                       *)
ISB == INSTANCE ItemStream WITH
        Item <- ItemSet,
        Limit <- MaxItem,
        sent <- SubSeq(written, 1, Complete),
        delivered <- got

(* The rules see exactly the items written: an item returned from the    *)
(* carry must not bring the zeroed separator, or the text after it, into *)
(* the bytes the regular expressions are run on.                          *)
ItemBytesSpec == ISB!Spec

(* fetch_next as spec 4.3 describes it: the controller gets the items of *)
(* the stream, each once and in order, an item over the limit dropped    *)
(* (ItemStreamSpec), and every call returns to the main loop once the    *)
(* data ends (FetchReturns), for any separator and any kind of source;    *)
(* the rules match the bytes of the item and no others (ItemBytesSpec).   *)
FetchNextAsSpec == ItemStreamSpec /\ ItemBytesSpec /\ FetchReturns
====
