----------------------------- MODULE MC_LogFile -----------------------------
(***************************************************************************)
(* Instances of LogFile for TLC: data byte x, separator byte n (a "\n"),  *)
(* a second separator byte r for "\r\n", and NUL.                          *)
(***************************************************************************)
EXTENDS LogFile

CONSTANTS x, n, r, nul

MCByte == {x, n, r, nul}

(* The separators "\n" and "\r\n". *)
LF == <<n>>
CRLF == <<r, n>>

(* Items of up to two data bytes, the empty item included.               *)
MCItemSet == {<<>>, <<x>>, <<x, x>>}
=============================================================================
