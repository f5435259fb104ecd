------------------------------- MODULE Cells --------------------------------
(***************************************************************************)
(* The cells of the table and the two ways to change one                   *)
(* (src/backend/kvs.cc: kvs_put, kvs_delete), for the modules that model   *)
(* commands: KvStore and FileTree.                                         *)
(*                                                                         *)
(* The code keeps the value of a cell and, in a second column              *)
(* "..._LAST_MODIFY", the timestamp of the write that set it; here both    *)
(* are one entry.  A cell that does not exist is NoEntry: its time 0 is    *)
(* not above any timestamp, so "no LAST_MODIFY column yet" and "an older   *)
(* LAST_MODIFY" are the same test.                                         *)
(***************************************************************************)
EXTENDS Integers

CONSTANT Null   \* the value of a cell that does not exist

NoEntry == [val |-> Null, time |-> 0]

Present(tab, c) == tab[c].val # Null

(* Mutations of Put: no comparison of times; a write that sets the value    *)
(* and forgets the time.                                                    *)
PutBlind(tab, c, v, m) == [tab EXCEPT ![c] = [val |-> v, time |-> m]]

PutUnstamped(tab, c, v, m) ==
    IF tab[c].time <= m THEN [tab EXCEPT ![c] = [val |-> v, time |-> @.time]] ELSE tab

(* kvs_put: last writer wins; a write older than the cell is refused.       *)
Put(tab, c, v, m) ==
    IF tab[c].time <= m
    THEN [tab EXCEPT ![c] = [val |-> v, time |-> m]]
    ELSE tab

(* kvs_delete: both columns are erased, no tombstone is left.               *)
Erase(tab, c, m) ==
    IF Present(tab, c) /\ tab[c].time <= m
    THEN [tab EXCEPT ![c] = NoEntry]
    ELSE tab
=============================================================================
