---------------------------- MODULE Preprocessor ----------------------------
(***************************************************************************)
(* LNActionPreprocessor::run (src/monitor.cpp, lines 308-365) and          *)
(* LNUtility::replaceString (src/utility.cpp, lines 75-85): the up-bound   *)
(* action template is expanded with the matched line and the captures.    *)
(*                                                                         *)
(* A string is a sequence of one-character strings.  The pcre pattern    *)
(* [^\\](\$[0-9@]+) is modelled by what it matches: the leftmost "$" that *)
(* has a character before it other than a backslash and is followed by a *)
(* digit or "@", with the greedy run of digits and "@" after it.          *)
(*                                                                         *)
(* Both loops of the code run until nothing is left to replace, and       *)
(* neither has a bound; the operators here carry a budget of Fuel         *)
(* iterations, and a call that exhausts it is reported as not returning.  *)
(* Each pass of either loop spends one unit.                               *)
(***************************************************************************)
EXTENDS Integers, Sequences, SequencesExt

CONSTANTS
    Fuel,       \* loop iterations after which run() is taken not to return
    Templates,  \* the up-bound action templates
    Lines,      \* the matched lines
    Captures    \* the capture vectors Match returns (matches[0] the whole match)

VARIABLES
    input,      \* the arguments of one call of run()
    output      \* its result, or NoOutput before the call

vars == <<input, output>>

Digits  == {"0", "1", "2", "3", "4", "5", "6", "7", "8", "9"}
DigitAt == Digits \cup {"@"}
Dollar  == <<"$">>
Escaped == <<"\\", "$">>

DigitValue == [d \in Digits |-> CHOOSE v \in 0..9 :
                  <<"0", "1", "2", "3", "4", "5", "6", "7", "8", "9">>[v + 1] = d]

(* atoi: the value of the leading decimal digits, 0 when there are none.  *)
RECURSIVE Atoi(_, _)
Atoi(s, acc) ==
    IF s # <<>> /\ Head(s) \in Digits
    THEN Atoi(Tail(s), 10 * acc + DigitValue[Head(s)])
    ELSE acc

(* The result of a loop: the string, and the iterations left (negative   *)
(* when the loop would not have stopped within Fuel).                    *)
Res(s, f) == [str |-> s, fuel |-> f]

(* replaceString: while find(search, 0) succeeds, replace that occurrence *)
(* by rep; the search restarts at 0, so it also finds text that earlier   *)
(* replacements produced.                                                 *)
RECURSIVE ReplaceLoop(_, _, _, _)
ReplaceLoop(search, rep, s, fuel) ==
    IF search \notin SubSeqs(s) THEN Res(s, fuel)
    ELSE IF fuel <= 0 THEN Res(s, -1)
    ELSE ReplaceLoop(search, rep, ReplaceFirstSubSeq(rep, search, s), fuel - 1)

(* pcre_exec of [^\\](\$[0-9@]+): the index of the "$" of group 1 in the  *)
(* leftmost match, 0 when pcre_result is not greater than 1.              *)
FirstRef(s) ==
    LET K == {k \in 2..(Len(s) - 1) :
                 s[k - 1] # "\\" /\ s[k] = "$" /\ s[k + 1] \in DigitAt}
    IN IF K = {} THEN 0 ELSE Min(K)

(* The last index of the greedy run [0-9@]+ that starts at j.            *)
RECURSIVE RunEnd(_, _)
RunEnd(s, j) == IF j < Len(s) /\ s[j + 1] \in DigitAt THEN RunEnd(s, j + 1) ELSE j

(* What mstr is replaced by: the line for smi = "@", otherwise            *)
(* matches[atoi(smi)] when that exists and a single space when not.      *)
Value(smi, line, caps) ==
    IF smi = <<"@">> THEN line
    ELSE IF Atoi(smi, 0) < Len(caps) THEN caps[Atoi(smi, 0) + 1] ELSE <<" ">>

(* Mutant of Expand: the match is not searched again after a replacement *)
(* (the pcre_exec at the end of the loop body left out).                  *)
RECURSIVE ExpandStale(_, _, _, _)
ExpandStale(s, line, caps, fuel) ==
    LET k == FirstRef(s) IN
    IF k = 0 THEN Res(s, fuel)
    ELSE IF fuel <= 0 THEN Res(s, -1)
    ELSE ExpandStale(s, line, caps, fuel - 1)

(* The while (pcre_result > 1) loop of run(): replace every occurrence of *)
(* the leftmost reference mstr = "$" smi by its value, then match again   *)
(* on the whole result.                                                   *)
RECURSIVE Expand(_, _, _, _)
Expand(s, line, caps, fuel) ==
    LET k == FirstRef(s) IN
    IF k = 0 THEN Res(s, fuel)
    ELSE IF fuel <= 0 THEN Res(s, -1)
    ELSE LET e    == RunEnd(s, k + 1)
             mstr == SubSeq(s, k, e)
             smi  == SubSeq(s, k + 1, e)
             r    == ReplaceLoop(mstr, Value(smi, line, caps), s, fuel - 1)
         IN IF r.fuel < 0 THEN r ELSE Expand(r.str, line, caps, r.fuel)

(* run(action, line, matches): the expansion, then replaceString("\\$",   *)
(* "$") on the result.  The record says whether run() returns, and what. *)
Run(action, line, caps) ==
    LET x == Expand(action, line, caps, Fuel)
        y == ReplaceLoop(Escaped, Dollar, x.str, x.fuel)
    IN [returns |-> x.fuel >= 0 /\ y.fuel >= 0, out |-> y.str]
-----------------------------------------------------------------------------
(* The substitution of spec 4.7, as a reference: one left-to-right scan   *)
(* that writes "\$" as "$", $@ as the line, $N (N decimal) as captures[N] *)
(* or a space, and copies everything else; substituted text is never     *)
(* scanned again.                                                          *)
RECURSIVE DigitEnd(_, _)
DigitEnd(t, j) == IF j < Len(t) /\ t[j + 1] \in Digits THEN DigitEnd(t, j + 1) ELSE j

RECURSIVE SpecScan(_, _, _)
SpecScan(t, line, caps) ==
    IF t = <<>> THEN <<>>
    ELSE IF Len(t) >= 2 /\ SubSeq(t, 1, 2) = Escaped
    THEN Dollar \o SpecScan(SubSeq(t, 3, Len(t)), line, caps)
    ELSE IF Len(t) >= 2 /\ t[1] = "$" /\ t[2] = "@"
    THEN line \o SpecScan(SubSeq(t, 3, Len(t)), line, caps)
    ELSE IF Len(t) >= 2 /\ t[1] = "$" /\ t[2] \in Digits
    THEN LET e == DigitEnd(t, 2)
             n == Atoi(SubSeq(t, 2, e), 0)
         IN (IF n < Len(caps) THEN caps[n + 1] ELSE <<" ">>)
            \o SpecScan(SubSeq(t, e + 1, Len(t)), line, caps)
    ELSE <<Head(t)>> \o SpecScan(Tail(t), line, caps)

NoOutput == [returns |-> FALSE, out |-> <<"none">>]

Input == [action : Templates, line : Lines, caps : Captures]

TypeOK ==
    /\ input \in Input
    /\ output \in [returns : BOOLEAN, out : Seq(STRING)]

Init == input \in Input /\ output = NoOutput

(* processLogFile calls run() for an up-bound firing.                     *)
Preprocess ==
    /\ output = NoOutput
    /\ output' = Run(input.action, input.line, input.caps)
    /\ UNCHANGED input

Spec == Init /\ [][Preprocess]_vars
-----------------------------------------------------------------------------
(* The values substituted into the template hold no "$" and no backslash. *)
CleanValues(in) ==
    \A v \in {in.line} \cup ToSet(in.caps) : ToSet(v) \cap {"$", "\\"} = {}

(* The positions k where t has "$" followed by a digit or "@", and those  *)
(* of them escaped by a backslash.                                         *)
Refs(t)    == {k \in 1..(Len(t) - 1) : t[k] = "$" /\ t[k + 1] \in DigitAt}
EscRefs(t) == {k \in Refs(t) : k > 1 /\ t[k - 1] = "\\"}

(* The templates for which the code is meant to agree with spec 4.7: no   *)
(* reference at the very start, every reference "$@" or "$" digits with   *)
(* no "@" run on, escaped and unescaped references not mixed, and no     *)
(* backslash before an escaped "$".                                       *)
Plain(t) ==
    /\ \A k \in 1..(Len(t) - 2) : SubSeq(t, k, k + 2) # <<"\\", "\\", "$">>
    /\ 1 \notin Refs(t)
    /\ \A k \in Refs(t) : SubSeq(t, k + 1, RunEnd(t, k + 1)) \in {<<"@">>} \cup Seq(Digits)
    /\ EscRefs(t) = {} \/ EscRefs(t) = Refs(t)

(* Spec 4.7, for plain templates and clean values: run() returns the    *)
(* reference substitution.  The re-matching loop, the replace-all of     *)
(* replaceString, the escape test of the pattern and the final unescape  *)
(* must together give the one-pass result.                                *)
SpecSubstitution ==
    (output # NoOutput /\ CleanValues(input) /\ Plain(input.action))
        => output = [returns |-> TRUE,
                     out |-> SpecScan(input.action, input.line, input.caps)]

(* run() returns for every template: the controller thread that calls it *)
(* from processLogFile does not hang, whatever the line holds.            *)
Terminates == output # NoOutput => output.returns

(* Spec 4.7 as a whole: run() returns for every template and line, and  *)
(* for plain templates and clean values its result is the one-pass       *)
(* substitution.  replaceString(mstr, ...) in run() and its restart at 0 *)
(* are what is at stake: they rewrite text a replacement produced, or   *)
(* the prefix of a longer reference.                                      *)
PreprocAsSpec == output # NoOutput => (output.returns /\ SpecSubstitution)
=============================================================================
