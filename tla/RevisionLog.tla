---------------------------- MODULE RevisionLog ----------------------------
(***************************************************************************)
(* What the version history of content items promises (event_revisions):   *)
(* each item has a log of its earlier states, and the only thing that ever *)
(* happens to a log is that one more state is put at its end.              *)
(***************************************************************************)
EXTENDS Sequences

CONSTANTS Items, Statuses

VARIABLE log   \* for each item, the snapshots in version order

Init == log = [i \in Items |-> <<>>]

Add(i, status) == log' = [log EXCEPT ![i] = Append(@, status)]

Next == \E i \in Items, status \in Statuses : Add(i, status)

Spec == Init /\ [][Next]_log
=============================================================================
