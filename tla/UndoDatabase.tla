---------------------------- MODULE UndoDatabase ----------------------------
(***************************************************************************)
(* The object database with its undo log: libraries/db/undo_database.cpp,  *)
(* undo_database.hpp, object_database.cpp, index.cpp, index.hpp and        *)
(* generic_index.hpp.                                                      *)
(*                                                                         *)
(* An object id is a pair of an index (space.type) and an instance number. *)
(* An object's fields are one abstract value.  A map of the C++ code is a  *)
(* total function whose value is Absent where the map has no entry.        *)
(*                                                                         *)
(* An undo_state records what one session changed, as a difference:        *)
(*   old_values          objects it modified, with the value they had      *)
(*   old_index_next_ids  indexes it created in, with the next id they had  *)
(*   new_ids             objects it created                                *)
(*   removed             objects it removed, with the value they had       *)
(*                                                                         *)
(* The clients of this class are the block and transaction code of         *)
(* libraries/chain.  The conditions they obey and the class does not test  *)
(* are the operators whose name begins with Client.                        *)
(***************************************************************************)
EXTENDS Integers, Sequences

CONSTANTS
    Index,          \* the object types (space.type) that have an index
    Value,          \* contents of an object
    Absent,         \* no entry in a map, no object in an index
    MaxInstances,   \* bound: instance numbers per index
    MaxSizes,       \* the values max_size is set to
    MaxSessions     \* bound: sessions active at once

ASSUME ValueAssumption == Absent \notin Value
ASSUME BoundAssumption == MaxInstances \in Nat /\ MaxSessions \in Nat
ASSUME NextIdAssumption == Absent \notin Nat
ASSUME MaxSizesAssumption == MaxSizes \subseteq Nat

VARIABLES
    objects,          \* the contents of every index, by object id
    next_id,          \* _next_id of every index
    stack,            \* _stack, oldest undo_state first
    active_sessions,  \* _active_sessions
    disabled,         \* _disabled
    max_size,         \* _max_size
    disable_on_exit,  \* the outermost session disables the log when it ends
    failed            \* restoring an undo_state threw

vars == <<objects, next_id, stack, active_sessions, disabled, max_size,
          disable_on_exit, failed>>

Instance == 0 .. (MaxInstances - 1)
ObjectId == Index \X Instance
MaybeValue == Value \cup {Absent}
NextId == 0 .. MaxInstances

undo_state == [old_values : [ObjectId -> MaybeValue],
               old_index_next_ids : [Index -> NextId \cup {Absent}],
               new_ids : SUBSET ObjectId,
               removed : [ObjectId -> MaybeValue]]

EmptyState == [old_values |-> [id \in ObjectId |-> Absent],
               old_index_next_ids |-> [i \in Index |-> Absent],
               new_ids |-> {},
               removed |-> [id \in ObjectId |-> Absent]]

Init ==
    /\ objects = [id \in ObjectId |-> Absent]
    /\ next_id = [i \in Index |-> 0]
    /\ stack = <<>>
    /\ active_sessions = 0
    /\ disabled = TRUE
    /\ max_size \in MaxSizes
    /\ disable_on_exit = FALSE
    /\ failed = FALSE

-----------------------------------------------------------------------------
(* Recording a change: on_create, on_modify and on_remove.  Each works on  *)
(* the newest undo_state and makes one when the log is empty.              *)

Last(s) == s[Len(s)]
Front(s) == SubSeq(s, 1, Len(s) - 1)

Recorded == IF stack = <<>> THEN <<EmptyState>> ELSE stack

(* Wrong: on_create records the last id it saw.  (The definitions marked   *)
(* wrong are plausible bugs the properties are tested against.)            *)
on_create_last_id(state, id) ==
    [state EXCEPT !.old_index_next_ids[id[1]] = id[2], !.new_ids = @ \cup {id}]

on_create(state, id) ==
    [state EXCEPT
        !.old_index_next_ids[id[1]] = IF @ = Absent THEN id[2] ELSE @,
        !.new_ids = @ \cup {id}]

on_modify(state, id, obj) ==
    IF id \in state.new_ids \/ state.old_values[id] # Absent
    THEN state
    ELSE [state EXCEPT !.old_values[id] = obj]

(* Wrong: an object created by the session is treated as an old one.       *)
on_remove_ignores_new(state, id, obj) ==
    IF state.old_values[id] # Absent
    THEN [state EXCEPT !.removed[id] = state.old_values[id],
                       !.old_values[id] = Absent]
    ELSE [state EXCEPT !.removed[id] = obj]

on_remove(state, id, obj) ==
    IF id \in state.new_ids
    THEN [state EXCEPT !.new_ids = @ \ {id}]
    ELSE IF state.old_values[id] # Absent
    THEN [state EXCEPT !.removed[id] = state.old_values[id],
                       !.old_values[id] = Absent]
    ELSE IF state.removed[id] # Absent
    THEN state
    ELSE [state EXCEPT !.removed[id] = obj]

(* The log after recording that the newest state becomes state.            *)
Record(state) ==
    stack' = IF disabled THEN stack ELSE [Recorded EXCEPT ![Len(Recorded)] = state]

unchangedByObjects ==
    UNCHANGED <<active_sessions, disabled, max_size, disable_on_exit, failed>>

(* generic_index::create, called by primary_index::create.                 *)
create(i, v) ==
    /\ ~failed
    /\ next_id[i] < MaxInstances
    /\ LET id == <<i, next_id[i]>>
       IN  /\ objects' = [objects EXCEPT ![id] = v]
           /\ Record(on_create(Last(Recorded), id))
    /\ next_id' = [next_id EXCEPT ![i] = @ + 1]
    /\ unchangedByObjects

(* primary_index::modify.  A modifier that throws leaves the object with   *)
(* some value too, after the old one was recorded.                         *)
modify(id, v) ==
    /\ ~failed
    /\ objects[id] # Absent
    /\ objects' = [objects EXCEPT ![id] = v]
    /\ Record(on_modify(Last(Recorded), id, objects[id]))
    /\ UNCHANGED next_id
    /\ unchangedByObjects

(* primary_index::remove.                                                  *)
remove(id) ==
    /\ ~failed
    /\ objects[id] # Absent
    /\ objects' = [objects EXCEPT ![id] = Absent]
    /\ Record(on_remove(Last(Recorded), id, objects[id]))
    /\ UNCHANGED next_id
    /\ unchangedByObjects

(* The account history plugin skips ids without creating an object, but    *)
(* only once the newest state records the id to go back to.                *)
ClientSkipsId(i) ==
    disabled \/ (stack # <<>> /\ Last(stack).old_index_next_ids[i] # Absent)

use_next_id(i) ==
    /\ ~failed
    /\ next_id[i] < MaxInstances
    /\ ClientSkipsId(i)
    /\ next_id' = [next_id EXCEPT ![i] = @ + 1]
    /\ UNCHANGED <<objects, stack>>
    /\ unchangedByObjects

-----------------------------------------------------------------------------
(* Sessions.                                                               *)

(* start_undo_session forgets the oldest states until max_size are left,   *)
(* whether or not a session still needs them.                              *)
Trim(s, n) == IF Len(s) > n THEN SubSeq(s, Len(s) - n + 1, Len(s)) ELSE s

(* No client starts a session that is not forced while the log is disabled *)
(* (reindex applies blocks without one then), and clients keep max_size at *)
(* least as large as the number of sessions they have open: the block,     *)
(* pending and temporary sessions by set_max_size(head - irreversible + 1),*)
(* proposals and virtual operations by raising max_size themselves.        *)
ClientStarts(force) ==
    /\ force \/ ~disabled
    /\ active_sessions <= max_size
    /\ active_sessions < MaxSessions

start_undo_session(force) ==
    /\ ~failed
    /\ ClientStarts(force)
    /\ stack' = Append(Trim(stack, max_size), EmptyState)
    /\ active_sessions' = active_sessions + 1
    /\ disabled' = FALSE
    /\ disable_on_exit' = (disable_on_exit \/ disabled)
    /\ UNCHANGED <<objects, next_id, max_size, failed>>

(* The destructor of the outermost session, after undo, merge or commit.   *)
EndSession ==
    /\ active_sessions' = active_sessions - 1
    /\ IF active_sessions = 1
       THEN disabled' = disable_on_exit /\ disable_on_exit' = FALSE
       ELSE UNCHANGED <<disabled, disable_on_exit>>

(* What undo and pop_commit do with the newest state: give modified        *)
(* objects their old value, remove the created ones, set the next ids      *)
(* back and insert the removed ones, in this order.                        *)
RestoredObject(state, objs, id) ==
    IF state.removed[id] # Absent THEN state.removed[id]
    ELSE IF id \in state.new_ids THEN Absent
    ELSE IF state.old_values[id] # Absent THEN state.old_values[id]
    ELSE objs[id]

RestoreObjects(state, objs) ==
    [id \in ObjectId |-> RestoredObject(state, objs, id)]

RestoreNextIds(state, ids) ==
    [i \in Index |-> IF state.old_index_next_ids[i] # Absent
                     THEN state.old_index_next_ids[i] ELSE ids[i]]

(* get_object throws for a modified or created object that is missing, and *)
(* insert throws for a removed object whose id is taken.                   *)
Restorable(state, objs) ==
    \A id \in ObjectId :
        /\ (state.old_values[id] # Absent \/ id \in state.new_ids)
              => objs[id] # Absent
        /\ (state.removed[id] # Absent /\ objs[id] # Absent)
              => id \in state.new_ids

RestoreTop ==
    /\ objects' = RestoreObjects(Last(stack), objects)
    /\ next_id' = RestoreNextIds(Last(stack), next_id)
    /\ stack' = Front(stack)

undo ==
    /\ ~failed
    /\ ~disabled
    /\ active_sessions > 0
    /\ IF stack # <<>> /\ Restorable(Last(stack), objects)
       THEN /\ RestoreTop
            /\ EndSession
            /\ UNCHANGED <<failed, max_size>>
       ELSE /\ failed' = TRUE
            /\ UNCHANGED <<objects, next_id, stack, active_sessions, disabled,
                           max_size, disable_on_exit>>

(* Wrong: upd + upd keeps the later of the two old values.                 *)
MergeStates_later(prev, state) ==
    [old_values |-> [id \in ObjectId |->
                        IF state.old_values[id] # Absent
                        THEN state.old_values[id] ELSE prev.old_values[id]],
     old_index_next_ids |-> [i \in Index |->
                                IF prev.old_index_next_ids[i] # Absent
                                THEN prev.old_index_next_ids[i]
                                ELSE state.old_index_next_ids[i]],
     new_ids |-> prev.new_ids \cup state.new_ids,
     removed |-> [id \in ObjectId |->
                     IF prev.removed[id] # Absent
                     THEN prev.removed[id] ELSE state.removed[id]]]

(* merge: the effect of state is added to that of prev, the state before.  *)
MergeStates(prev, state) ==
    LET old == [id \in ObjectId |->
                   IF id \in prev.new_ids \/ prev.old_values[id] # Absent
                   THEN prev.old_values[id] ELSE state.old_values[id]]
        new == prev.new_ids \cup state.new_ids
        del == {id \in ObjectId : state.removed[id] # Absent}
    IN  [old_values |-> [id \in ObjectId |->
                            IF id \in del \ new THEN Absent ELSE old[id]],
         old_index_next_ids |-> [i \in Index |->
                                    IF prev.old_index_next_ids[i] # Absent
                                    THEN prev.old_index_next_ids[i]
                                    ELSE state.old_index_next_ids[i]],
         new_ids |-> new \ del,
         removed |-> [id \in ObjectId |->
                         IF id \notin del \ new THEN prev.removed[id]
                         ELSE IF old[id] # Absent THEN old[id]
                         ELSE state.removed[id]]]

merge ==
    /\ ~failed
    /\ active_sessions > 0
    /\ IF active_sessions = 1 /\ Len(stack) = 1
       THEN stack' = <<>>
       ELSE /\ Len(stack) >= 2
            /\ stack' = Append(Front(Front(stack)),
                               MergeStates(Last(Front(stack)), Last(stack)))
    /\ EndSession
    /\ UNCHANGED <<objects, next_id, max_size, failed>>

(* Only the session of a block is committed, and it is never forced.       *)
ClientCommits == active_sessions = 1 /\ ~disable_on_exit

commit ==
    /\ ~failed
    /\ active_sessions > 0
    /\ ClientCommits
    /\ EndSession
    /\ UNCHANGED <<objects, next_id, stack, max_size, failed>>

pop_commit ==
    /\ ~failed
    /\ active_sessions = 0
    /\ stack # <<>>
    /\ disabled' = FALSE
    /\ IF Restorable(Last(stack), objects)
       THEN RestoreTop /\ UNCHANGED failed
       ELSE failed' = TRUE /\ UNCHANGED <<objects, next_id, stack>>
    /\ UNCHANGED <<active_sessions, max_size, disable_on_exit>>

set_max_size(n) ==
    /\ ~failed
    /\ max_size' = n
    /\ UNCHANGED <<objects, next_id, stack, active_sessions, disabled,
                   disable_on_exit, failed>>

enable ==
    /\ ~failed
    /\ active_sessions = 0
    /\ disabled' = FALSE
    /\ UNCHANGED <<objects, next_id, stack, active_sessions, max_size,
                   disable_on_exit, failed>>

(* Genesis and replay disable the log before anything is recorded.         *)
ClientDisables == active_sessions = 0 /\ stack = <<>>

disable ==
    /\ ~failed
    /\ ClientDisables
    /\ disabled' = TRUE
    /\ UNCHANGED <<objects, next_id, stack, active_sessions, max_size,
                   disable_on_exit, failed>>

Next ==
    \/ \E i \in Index, v \in Value : create(i, v)
    \/ \E id \in ObjectId, v \in Value : modify(id, v)
    \/ \E id \in ObjectId : remove(id)
    \/ \E i \in Index : use_next_id(i)
    \/ \E force \in BOOLEAN : start_undo_session(force)
    \/ undo
    \/ merge
    \/ commit
    \/ pop_commit
    \/ \E n \in MaxSizes : set_max_size(n)
    \/ enable
    \/ disable

Spec == Init /\ [][Next]_vars
=============================================================================
