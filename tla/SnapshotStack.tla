---------------------------- MODULE SnapshotStack ----------------------------
(***************************************************************************)
(* What the undo log promises its clients, without saying how: a database  *)
(* and a stack of complete copies of it.  Opening a session saves a copy,  *)
(* rolling back restores the newest copy exactly, keeping (a merge) drops  *)
(* the copy and nothing else, and a committed copy can be returned to      *)
(* while no session is open.  Old copies may be forgotten when a session   *)
(* is opened, never a copy that an open session still needs.               *)
(*                                                                         *)
(* UndoDatabase stores differences instead of copies; UndoRefinement       *)
(* shows that it implements this specification.                            *)
(***************************************************************************)
EXTENDS Integers, Sequences

CONSTANT Database    \* the values the whole database can have

VARIABLES
    db,         \* the database
    snapshots,  \* saved copies, oldest first
    open        \* the number of open sessions; theirs are the newest copies

vars == <<db, snapshots, open>>

Last(s) == s[Len(s)]
Front(s) == SubSeq(s, 1, Len(s) - 1)

Init == db \in Database /\ snapshots = <<>> /\ open = 0

(* A change is made inside a session, or with a copy to return to, or      *)
(* with no copy kept at all.                                               *)
Change ==
    /\ db' \in Database
    /\ snapshots' \in {snapshots, IF snapshots = <<>> THEN <<db>> ELSE snapshots}
    /\ UNCHANGED open

Open ==
    /\ \E k \in 0 .. (Len(snapshots) - open) :
          snapshots' = Append(SubSeq(snapshots, k + 1, Len(snapshots)), db)
    /\ open' = open + 1
    /\ UNCHANGED db

Rollback ==
    /\ open > 0
    /\ db' = Last(snapshots)
    /\ snapshots' = Front(snapshots)
    /\ open' = open - 1

Keep ==
    /\ open > 0
    /\ snapshots' = Front(snapshots)
    /\ open' = open - 1
    /\ UNCHANGED db

Commit ==
    /\ open = 1
    /\ open' = 0
    /\ UNCHANGED <<db, snapshots>>

RollbackCommitted ==
    /\ open = 0
    /\ snapshots # <<>>
    /\ db' = Last(snapshots)
    /\ snapshots' = Front(snapshots)
    /\ UNCHANGED open

Next == Change \/ Open \/ Rollback \/ Keep \/ Commit \/ RollbackCommitted

Spec == Init /\ [][Next]_vars
=============================================================================
