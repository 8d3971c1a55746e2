------------------------------ MODULE ItemStream ------------------------------
(***************************************************************************)
(* What a log source promises the controller (spec: "Log sources"): the    *)
(* items a writer completes, each ended by the separator, are handed to    *)
(* the rule engine one at a time, in the order they were written, each     *)
(* once, and never before the writer has completed it; an item longer     *)
(* than the per-item limit is discarded (spec: "Watched input formats").   *)
(*                                                                         *)
(* LogFile implements this specification (LogFile!ItemStreamSpec).        *)
(***************************************************************************)
EXTENDS Naturals, Sequences

CONSTANTS
    Item,           \* the items a writer may write
    Limit           \* the per-item hard limit, in bytes

VARIABLES
    sent,           \* the items completed by the writer, in order
    delivered       \* the items handed to the controller, in order

vars == <<sent, delivered>>

Init == sent = <<>> /\ delivered = <<>>

(* The writer completes an item.                                          *)
Send(it) ==
    /\ sent' = Append(sent, it)
    /\ UNCHANGED delivered

(* The completed items that are not discarded.                            *)
Kept == SelectSeq(sent, LAMBDA it : Len(it) <= Limit)

(* The oldest kept item not yet handed over is handed over.               *)
Deliver ==
    /\ Len(delivered) < Len(Kept)
    /\ delivered' = Append(delivered, Kept[Len(delivered) + 1])
    /\ UNCHANGED sent

Next == (\E it \in Item : Send(it)) \/ Deliver

Spec == Init /\ [][Next]_vars
====
