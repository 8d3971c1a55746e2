--------------------------- MODULE MC_RuleEngine ---------------------------
(***************************************************************************)
(* Instances of RuleEngine for TLC: two rules over the line classes a, b  *)
(* and the empty line.  r1 counts every match in one bucket; r2 shards     *)
(* its up window by CRC.  r2's regex matches the empty string at the start *)
(* of a line b, and crci("") is 0: b's events share bucket 0, which        *)
(* getMessuringCount(0) reads as the sum of every bucket.                  *)
(***************************************************************************)
EXTENDS RuleEngine

CONSTANTS r1, r2, a, b, blank

MCRules == {r1, r2}
MCContents == {a, b, blank}
MCPattern == (r1 :> {a}) @@ (r2 :> {a, b})
MCCrc == (a :> 11) @@ (b :> 0) @@ (blank :> 33)
MCUseCrc == (r1 :> FALSE) @@ (r2 :> TRUE)

(* The configuration checked by the passing run: both rules have an up   *)
(* action; r1 has a size option of 2.                                     *)
MCHasUpAction == [r \in MCRules |-> TRUE]
MCUpFreq == (r1 :> [count |-> 1, time |-> 2]) @@ (r2 :> [count |-> 1, time |-> 1])
MCDownFreq == (r1 :> [count |-> 1, time |-> 3]) @@ (r2 :> [count |-> 2, time |-> 6])
MCSizeLimit == (r1 :> 2) @@ (r2 :> 0)

(* The down bounds of the run against spec 4.6: r1's down period equals  *)
(* the sweep interval, as spec E3's 1/10 is a multiple of it.             *)
MCDownFreqSweep == (r1 :> [count |-> 1, time |-> 5]) @@ (r2 :> [count |-> 2, time |-> 6])

=============================================================================
