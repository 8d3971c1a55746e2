--------------------------- MODULE MC_Watcher ---------------------------
(* Model-checking instance of Watcher: one source "a" in one directory.   *)
(* Three inodes let "a" be recreated twice; three file-system operations *)
(* cover a rotation followed by a recreation and a removal, or a chmod   *)
(* or truncation between writes; two items are enough to have one read  *)
(* and one still unread when the file changes; one SIGUSR1.               *)
EXTENDS Watcher
=============================================================================
