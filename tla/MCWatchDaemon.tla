---------------------------- MODULE MCWatchDaemon ----------------------------
(***************************************************************************)
(* Small instances of WatchDaemon: a note that is not formatted yet, the   *)
(* same formatted, and copies of both, which have the same id.             *)
(***************************************************************************)
EXTENDS WatchDaemon

CONSTANTS raw, tidy, c1, c2

Sizes == [t \in Text |-> IF t = raw THEN 1 ELSE 2]

Formatted == [p \in Path |-> [t \in Text |-> tidy]]

SameId == [p \in Path |-> [t \in Text |-> 1]]
=============================================================================
