--------------------------- MODULE UndoRefinement ---------------------------
(***************************************************************************)
(* UndoDatabase with a history variable: saved[k] is the database as it    *)
(* was when stack[k] was pushed.  The variable only observes; no guard     *)
(* reads it.  With it, the log of differences is shown to implement the    *)
(* stack of copies of SnapshotStack.                                       *)
(***************************************************************************)
EXTENDS UndoDatabase

VARIABLE saved

hvars == <<vars, saved>>

Db == [objects |-> objects, next_id |-> next_id]

Database == [objects : [ObjectId -> MaybeValue], next_id : [Index -> NextId]]

HInit == Init /\ saved = <<>>

ObjectStep ==
    \/ \E i \in Index, v \in Value : create(i, v)
    \/ \E id \in ObjectId, v \in Value : modify(id, v)
    \/ \E id \in ObjectId : remove(id)
    \/ \E i \in Index : use_next_id(i)

HObjects ==
    ObjectStep /\ saved' = IF stack = <<>> /\ stack' # <<>> THEN <<Db>> ELSE saved

HStart ==
    /\ \E force \in BOOLEAN : start_undo_session(force)
    /\ saved' = Append(Trim(saved, max_size), Db)

HRestore ==
    (undo \/ pop_commit) /\ saved' = IF failed' THEN saved ELSE Front(saved)

HMerge == merge /\ saved' = Front(saved)

HControl ==
    /\ commit \/ (\E n \in MaxSizes : set_max_size(n)) \/ enable \/ disable
    /\ UNCHANGED saved

HNext == HObjects \/ HStart \/ HRestore \/ HMerge \/ HControl

HSpec == HInit /\ [][HNext]_hvars

Abstract == INSTANCE SnapshotStack
    WITH db <- Db, snapshots <- saved, open <- active_sessions

(* The log of differences behaves like a stack of full copies: undo        *)
(* restores the newest copy, merge drops it and keeps the database, and    *)
(* pop_commit restores a committed one.                                    *)
ImplementsSnapshots == Abstract!Spec

-----------------------------------------------------------------------------
(* Type invariant of the object database and its undo log.                 *)
TypeOK ==
    /\ objects \in [ObjectId -> MaybeValue]
    /\ next_id \in [Index -> NextId]
    /\ stack \in Seq(undo_state)
    /\ active_sessions \in 0 .. MaxSessions
    /\ disabled \in BOOLEAN
    /\ max_size \in MaxSizes
    /\ disable_on_exit \in BOOLEAN
    /\ failed \in BOOLEAN
    /\ saved \in Seq(Database)

(* Undoing never throws: every object an undo_state wants to change back   *)
(* or remove exists, and every id it wants to insert is free.  A throw     *)
(* inside ~session ends the process with std::terminate.                   *)
UndoNeverFails == ~failed

(* The database right after the session of st[k], when d is the current    *)
(* one and sv the saved ones.                                              *)
After(st, sv, d, k) == IF k = Len(st) THEN d ELSE sv[k + 1]

(* Each undo_state leads exactly from the database after its session back  *)
(* to the one before it: contents and next ids, through any nesting of     *)
(* sessions, merges, commits and undos.                                    *)
UndoIsExact ==
    /\ Len(saved) = Len(stack)
    /\ \A k \in 1 .. Len(stack) :
          LET later == After(stack, saved, Db, k)
          IN  /\ RestoreObjects(stack[k], later.objects) = saved[k].objects
              /\ RestoreNextIds(stack[k], later.next_id) = saved[k].next_id

(* The cells of the merge matrix that the comment in merge() marks N/A (it *)
(* says they violate causal timing, and lines 185 and 229 assert two of    *)
(* them) never occur between neighbouring states.                          *)
MergeCellsAreCausal ==
    \A k \in 1 .. (Len(stack) - 1) : \A id \in ObjectId :
        LET A == stack[k]
            B == stack[k + 1]
        IN  /\ id \in B.new_ids => /\ id \notin A.new_ids
                                   /\ A.old_values[id] = Absent
                                   /\ A.removed[id] = Absent
            /\ A.removed[id] # Absent => /\ B.old_values[id] = Absent
                                         /\ B.removed[id] = Absent

(* Every open session still has its own state in the log, although         *)
(* start_undo_session drops old states without looking whose they are;     *)
(* undo() takes _stack.back() without testing that there is one.           *)
SessionsHaveStates == active_sessions <= Len(stack)

(* While the log is disabled it is empty: nothing was changed unrecorded   *)
(* on top of a state that could be undone later.                           *)
DisabledLogIsEmpty == disabled => stack = <<>> /\ active_sessions = 0
-----------------------------------------------------------------------------
(* The inductive invariant.  UndoIsExact is not inductive: that merge      *)
(* composes two differences depends on which objects a state may mention,  *)
(* and that depends on ids never being reused.                             *)

(* Ids at or above the next id of their index are unused.                  *)
Sane(d) ==
    \A id \in ObjectId : d.objects[id] # Absent => id[2] < d.next_id[id[1]]

(* State u leads from t back to s, and its three containers are disjoint   *)
(* and agree with what exists in s and in t.                               *)
Level(u, s, t) ==
    /\ \A id \in ObjectId :
          /\ s.objects[id] = RestoredObject(u, t.objects, id)
          /\ id \in u.new_ids => /\ t.objects[id] # Absent
                                 /\ u.old_values[id] = Absent
                                 /\ u.removed[id] = Absent
                                 /\ id[2] >= s.next_id[id[1]]
          /\ u.old_values[id] # Absent => /\ t.objects[id] # Absent
                                          /\ u.removed[id] = Absent
          /\ u.removed[id] # Absent => t.objects[id] = Absent
    /\ \A i \in Index :
          /\ s.next_id[i] = IF u.old_index_next_ids[i] # Absent
                            THEN u.old_index_next_ids[i] ELSE t.next_id[i]
          /\ s.next_id[i] <= t.next_id[i]

Levels(st, sv, d) ==
    /\ Len(sv) = Len(st)
    /\ \A k \in 1 .. Len(st) :
          /\ Sane(sv[k])
          /\ Level(st[k], sv[k], After(st, sv, d, k))

(* A forced session found the log empty, and only sessions inside it       *)
(* added to the log.                                                       *)
ForcedSession ==
    disable_on_exit => active_sessions > 0 /\ Len(stack) = active_sessions

(* Everything the proof that undo restores carries along: each undo_state  *)
(* is a faithful difference between the databases before and after its     *)
(* session, ids are not reused, and every open session has its state.      *)
UndoInv ==
    /\ TypeOK
    /\ UndoNeverFails
    /\ Sane(Db)
    /\ Levels(stack, saved, Db)
    /\ SessionsHaveStates
    /\ DisabledLogIsEmpty
    /\ ForcedSession
=============================================================================
