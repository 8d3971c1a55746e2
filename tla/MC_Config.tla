------------------------------ MODULE MC_Config ------------------------------
(***************************************************************************)
(* Instances of Config for TLC: two rule sections a and b besides         *)
(* [general], two paths, and every configuration file of up to MaxLines   *)
(* lines drawn from ConfLines.                                             *)
(***************************************************************************)
EXTENDS Config

CONSTANT MaxLines

Sec(n) == [kind |-> "section", name |-> n]
Item(k, v) == [kind |-> "item", key |-> k, val |-> v]

(* std::map orders the section names lexicographically.                  *)
MCMapOrder == <<"a", "b", "general">>

MCPaths == {"p1", "p2"}

(* Section headers, an up action and an empty one, the paths, a FIFO, a  *)
(* valid and an invalid frequency, a size with a unit, usecrc, the        *)
(* process ids and an unknown option.                                     *)
ConfLines ==
    {Sec("a"), Sec("b"), Sec("general"),
     Item("upbound_action", "echo"), Item("upbound_action", ""),
     Item("path", "p1"), Item("path", "p2"), Item("file_type", "fifo"),
     Item("upbound_freq", "2/6"), Item("upbound_freq", "5"), Item("size", "1K"),
     Item("usecrc", "yes"), Item("uid", "7"), Item("gid", "7"),
     Item("bogus", "1")}

MCConfFiles == BoundedSeq(ConfLines, MaxLines)
=============================================================================
