---------------------------- MODULE MC_ActionLog ----------------------------
(* Model-checking instance of ActionLog: the two workers main() starts,  *)
(* the controller and the sweeper as producers with two pushes each,     *)
(* system() returning 0, and a main thread that logs up to MaxMainLogs   *)
(* messages. MC_ActionLog.cfg: one text, the daemon's default mode, no   *)
(* SIGHUP. MC_ActionLog_spec.cfg: two texts, -v, failing writes and one  *)
(* SIGHUP, under SystemFaultSpec.                                        *)
EXTENDS ActionLog

CONSTANTS w1, w2, controller, sweeper, main, mainText, otherText, noText, hupText

MCWorkers == {w1, w2}
MCProducers == {controller, sweeper}
MCMainTexts == {mainText}
MCHupTexts == {hupText}

(* Two texts for the main thread, so that a debug line can differ from   *)
(* the message it follows.                                                *)
MCMainTexts2 == {mainText, otherText}
=============================================================================
