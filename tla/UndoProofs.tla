----------------------------- MODULE UndoProofs -----------------------------
(***************************************************************************)
(* Proofs about UndoRefinement: the inductive invariant UndoInv, its       *)
(* consequences, and that the log of differences implements SnapshotStack. *)
(***************************************************************************)
EXTENDS UndoRefinement, SequenceTheorems, TLAPS

(* A step that names no prover is tried with the SMT solver, with Zenon,   *)
(* and with the SMT solver once more.                                      *)
USE SMTT(20), Zenon, SMTT(30)

(* Field access of the records the lemmas are about.                       *)
LEMMA StateFields ==
    ASSUME NEW u \in undo_state
    PROVE  /\ u.old_values \in [ObjectId -> MaybeValue]
           /\ u.old_index_next_ids \in [Index -> NextId \cup {Absent}]
           /\ u.new_ids \subseteq ObjectId
           /\ u.removed \in [ObjectId -> MaybeValue]
    BY DEF undo_state

(* Field access of a database: its objects and its next ids.               *)
LEMMA DatabaseFields ==
    ASSUME NEW d \in Database
    PROVE  /\ d.objects \in [ObjectId -> MaybeValue]
           /\ d.next_id \in [Index -> NextId]
    BY DEF Database

(* The state a new session starts with records no change.                  *)
LEMMA EmptyStateType == EmptyState \in undo_state
    BY DEF EmptyState, undo_state, MaybeValue

(* A session that changed nothing leads from a database back to itself.    *)
LEMMA EmptyLevel ==
    ASSUME NEW d \in Database
    PROVE  Level(EmptyState, d, d)
    BY DatabaseFields, BoundAssumption
    DEF EmptyState, Level, RestoredObject, NextId

(* on_create, on_modify and on_remove return undo_states.                  *)
LEMMA RecordTypes ==
    ASSUME NEW u \in undo_state, NEW id \in ObjectId, NEW obj \in Value
    PROVE  /\ on_create(u, id) \in undo_state
           /\ on_modify(u, id, obj) \in undo_state
           /\ on_remove(u, id, obj) \in undo_state
    <1>0. id[1] \in Index /\ id[2] \in NextId
        BY BoundAssumption DEF ObjectId, Instance, NextId
    <1>1. on_create(u, id) \in undo_state
        BY <1>0, Zenon DEF on_create, undo_state
    <1>2. on_modify(u, id, obj) \in undo_state
        BY DEF on_modify, undo_state, MaybeValue
    <1>3. on_remove(u, id, obj) \in undo_state
        BY Zenon DEF on_remove, undo_state, MaybeValue
    <1> QED BY <1>1, <1>2, <1>3

(* on_create keeps the newest state a faithful difference.                 *)
LEMMA CreateLevel ==
    ASSUME NEW u \in undo_state, NEW s \in Database, NEW t \in Database,
           NEW i \in Index, NEW v \in Value, NEW t2 \in Database,
           Level(u, s, t), Sane(s), Sane(t),
           t.next_id[i] < MaxInstances,
           t2.objects = [t.objects EXCEPT ![<<i, t.next_id[i]>>] = v],
           t2.next_id = [t.next_id EXCEPT ![i] = @ + 1]
    PROVE  Level(on_create(u, <<i, t.next_id[i]>>), s, t2) /\ Sane(t2)
    <1> DEFINE n == t.next_id[i]
               id == <<i, n>>
               w == on_create(u, id)
    <1>0. n \in Nat /\ id \in ObjectId /\ v # Absent
        BY DatabaseFields, BoundAssumption, ValueAssumption
        DEF ObjectId, Instance, NextId
    <1>1. /\ w.old_values = u.old_values
          /\ w.removed = u.removed
          /\ w.new_ids = u.new_ids \cup {id}
          /\ w.old_index_next_ids =
                [u.old_index_next_ids EXCEPT ![i] = IF @ = Absent THEN n ELSE @]
        BY StateFields, <1>0 DEF on_create, undo_state
    <1>2. t.objects[id] = Absent
        BY <1>0, DatabaseFields DEF Sane, NextId
    <1>3. s.next_id[i] <= n
        BY DEF Level
    <1>4. s.objects[id] = Absent
        BY <1>0, <1>3, DatabaseFields, BoundAssumption DEF Sane, NextId
    <1>5. u.old_values[id] = Absent /\ u.removed[id] = Absent /\ id \notin u.new_ids
        BY <1>0, <1>2, <1>4 DEF Level, RestoredObject
    <1>6. ASSUME NEW x \in ObjectId
          PROVE  /\ s.objects[x] = RestoredObject(w, t2.objects, x)
                 /\ x \in w.new_ids => /\ t2.objects[x] # Absent
                                       /\ w.old_values[x] = Absent
                                       /\ w.removed[x] = Absent
                                       /\ x[2] >= s.next_id[x[1]]
                 /\ w.old_values[x] # Absent => /\ t2.objects[x] # Absent
                                                /\ w.removed[x] = Absent
                 /\ w.removed[x] # Absent => t2.objects[x] = Absent
        <2>1. CASE x = id
            BY <2>1, <1>0, <1>1, <1>3, <1>4, <1>5, DatabaseFields, BoundAssumption
            DEF RestoredObject, NextId
        <2>2. CASE x # id
            BY <2>2, <1>1, DatabaseFields DEF Level, RestoredObject
        <2> QED BY <2>1, <2>2
    <1>7. ASSUME NEW j \in Index
          PROVE  /\ s.next_id[j] = IF w.old_index_next_ids[j] # Absent
                                   THEN w.old_index_next_ids[j] ELSE t2.next_id[j]
                 /\ s.next_id[j] <= t2.next_id[j]
        <2>1. s.next_id[j] \in Nat /\ t.next_id[j] \in Nat
            BY DatabaseFields, BoundAssumption DEF NextId
        <2>2. CASE j = i
            BY <2>1, <2>2, <1>0, <1>1, NextIdAssumption, DatabaseFields, StateFields DEF Level
        <2>3. CASE j # i
            BY <2>1, <2>3, <1>1, DatabaseFields, StateFields DEF Level
        <2> QED BY <2>2, <2>3
    <1>8. Sane(t2)
        BY <1>0, DatabaseFields, BoundAssumption DEF Sane, NextId, ObjectId, Instance
    <1> QED BY <1>6, <1>7, <1>8 DEF Level

(* on_modify keeps the newest state a faithful difference.                 *)
LEMMA ModifyLevel ==
    ASSUME NEW u \in undo_state, NEW s \in Database, NEW t \in Database,
           NEW id \in ObjectId, NEW v \in Value, NEW t2 \in Database,
           Level(u, s, t), Sane(t), t.objects[id] # Absent,
           t2.objects = [t.objects EXCEPT ![id] = v],
           t2.next_id = t.next_id
    PROVE  Level(on_modify(u, id, t.objects[id]), s, t2) /\ Sane(t2)
    <1> DEFINE w == on_modify(u, id, t.objects[id])
    <1>1. /\ w.removed = u.removed
          /\ w.new_ids = u.new_ids
          /\ w.old_index_next_ids = u.old_index_next_ids
          /\ w.old_values = IF id \in u.new_ids \/ u.old_values[id] # Absent
                            THEN u.old_values
                            ELSE [u.old_values EXCEPT ![id] = t.objects[id]]
        BY StateFields DEF on_modify, undo_state
    <1>2. ASSUME NEW x \in ObjectId
          PROVE  /\ s.objects[x] = RestoredObject(w, t2.objects, x)
                 /\ x \in w.new_ids => /\ t2.objects[x] # Absent
                                       /\ w.old_values[x] = Absent
                                       /\ w.removed[x] = Absent
                                       /\ x[2] >= s.next_id[x[1]]
                 /\ w.old_values[x] # Absent => /\ t2.objects[x] # Absent
                                                /\ w.removed[x] = Absent
                 /\ w.removed[x] # Absent => t2.objects[x] = Absent
        <2>1. CASE x = id
            BY <2>1, <1>1, StateFields, DatabaseFields, ValueAssumption
            DEF Level, RestoredObject
        <2>2. CASE x # id
            BY <2>2, <1>1, StateFields, DatabaseFields DEF Level, RestoredObject
        <2> QED BY <2>1, <2>2
    <1>3. Sane(t2)
        BY DatabaseFields DEF Sane
    <1> QED BY <1>1, <1>2, <1>3 DEF Level

(* on_remove keeps the newest state a faithful difference.                 *)
LEMMA RemoveLevel ==
    ASSUME NEW u \in undo_state, NEW s \in Database, NEW t \in Database,
           NEW id \in ObjectId, NEW t2 \in Database,
           Level(u, s, t), Sane(t), t.objects[id] # Absent,
           t2.objects = [t.objects EXCEPT ![id] = Absent],
           t2.next_id = t.next_id
    PROVE  Level(on_remove(u, id, t.objects[id]), s, t2) /\ Sane(t2)
    <1> DEFINE w == on_remove(u, id, t.objects[id])
    <1>0. u.removed[id] = Absent
        BY DEF Level
    <1>1. /\ w.old_index_next_ids = u.old_index_next_ids
          /\ w.new_ids = u.new_ids \ {id}
          /\ w.old_values = IF id \in u.new_ids THEN u.old_values
                            ELSE [u.old_values EXCEPT ![id] = Absent]
          /\ w.removed = IF id \in u.new_ids THEN u.removed
                         ELSE [u.removed EXCEPT ![id] =
                                  IF u.old_values[id] # Absent THEN u.old_values[id]
                                  ELSE t.objects[id]]
        <2>1. CASE id \in u.new_ids
            BY <2>1, StateFields DEF on_remove, undo_state
        <2>2. CASE id \notin u.new_ids /\ u.old_values[id] # Absent
            BY <2>2, StateFields DEF on_remove, undo_state
        <2>3. CASE id \notin u.new_ids /\ u.old_values[id] = Absent
            BY <2>3, <1>0, StateFields DEF on_remove, undo_state
        <2> QED BY <2>1, <2>2, <2>3
    <1>2. ASSUME NEW x \in ObjectId
          PROVE  /\ s.objects[x] = RestoredObject(w, t2.objects, x)
                 /\ x \in w.new_ids => /\ t2.objects[x] # Absent
                                       /\ w.old_values[x] = Absent
                                       /\ w.removed[x] = Absent
                                       /\ x[2] >= s.next_id[x[1]]
                 /\ w.old_values[x] # Absent => /\ t2.objects[x] # Absent
                                                /\ w.removed[x] = Absent
                 /\ w.removed[x] # Absent => t2.objects[x] = Absent
        <2>1. CASE x = id
            BY <2>1, <1>1, <1>0, StateFields, DatabaseFields DEF Level, RestoredObject
        <2>2. CASE x # id
            BY <2>2, <1>1, StateFields, DatabaseFields DEF Level, RestoredObject
        <2> QED BY <2>1, <2>2
    <1>3. Sane(t2)
        BY DatabaseFields DEF Sane
    <1> QED BY <1>1, <1>2, <1>3 DEF Level

(* The matrix in merge(): the cells marked N/A do not occur.               *)
LEMMA CausalCells ==
    ASSUME NEW A \in undo_state, NEW B \in undo_state,
           NEW s \in Database, NEW m \in Database, NEW t \in Database,
           Level(A, s, m), Level(B, m, t), Sane(s), Sane(m),
           NEW id \in ObjectId
    PROVE  /\ id \in B.new_ids => /\ id \notin A.new_ids
                                  /\ A.old_values[id] = Absent
                                  /\ A.removed[id] = Absent
           /\ A.removed[id] # Absent => /\ B.old_values[id] = Absent
                                        /\ B.removed[id] = Absent
    <1>1. id[1] \in Index /\ id[2] \in Nat
        BY BoundAssumption DEF ObjectId, Instance
    <1>2. /\ s.next_id[id[1]] \in Nat /\ m.next_id[id[1]] \in Nat
          /\ s.next_id[id[1]] <= m.next_id[id[1]]
        BY <1>1, DatabaseFields, BoundAssumption DEF NextId, Level
    <1>3. ASSUME id \in B.new_ids
          PROVE  id \notin A.new_ids /\ A.old_values[id] = Absent /\ A.removed[id] = Absent
        <2>1. m.objects[id] = Absent /\ id[2] >= m.next_id[id[1]]
            BY <1>3 DEF Level, RestoredObject
        <2>2. id \notin A.new_ids /\ A.old_values[id] = Absent
            BY <2>1 DEF Level
        <2>3. s.objects[id] = Absent
            BY <2>1, <1>1, <1>2 DEF Sane
        <2> QED BY <2>2, <2>3 DEF Level, RestoredObject
    <1>4. ASSUME A.removed[id] # Absent
          PROVE  B.old_values[id] = Absent /\ B.removed[id] = Absent
        BY <1>4, <1>3 DEF Level, RestoredObject
    <1> QED BY <1>3, <1>4

(* merge composes differences: if A leads back from m to s and B from t to *)
(* m, then their merge leads back from t to s.                             *)
LEMMA MergeLevel ==
    ASSUME NEW A \in undo_state, NEW B \in undo_state,
           NEW s \in Database, NEW m \in Database, NEW t \in Database,
           Level(A, s, m), Level(B, m, t), Sane(s), Sane(m)
    PROVE  MergeStates(A, B) \in undo_state /\ Level(MergeStates(A, B), s, t)
    <1> DEFINE w == MergeStates(A, B)
    <1>1. w \in undo_state
        <2> DEFINE old == [id \in ObjectId |->
                              IF id \in A.new_ids \/ A.old_values[id] # Absent
                              THEN A.old_values[id] ELSE B.old_values[id]]
                   new == A.new_ids \cup B.new_ids
                   del == {id \in ObjectId : B.removed[id] # Absent}
                   values == [id \in ObjectId |->
                                 IF id \in del \ new THEN Absent ELSE old[id]]
                   ids == [i \in Index |-> IF A.old_index_next_ids[i] # Absent
                                           THEN A.old_index_next_ids[i]
                                           ELSE B.old_index_next_ids[i]]
                   gone == [id \in ObjectId |->
                               IF id \notin del \ new THEN A.removed[id]
                               ELSE IF old[id] # Absent THEN old[id]
                               ELSE B.removed[id]]
        <2>1. w = [old_values |-> values, old_index_next_ids |-> ids,
                   new_ids |-> new \ del, removed |-> gone]
            BY DEF MergeStates
        <2>2. old \in [ObjectId -> MaybeValue]
            BY StateFields
        <2> HIDE DEF old
        <2>3. values \in [ObjectId -> MaybeValue]
            BY <2>2 DEF MaybeValue
        <2>4. ids \in [Index -> NextId \cup {Absent}]
            BY StateFields
        <2>5. new \ del \in SUBSET ObjectId
            BY StateFields
        <2>6. gone \in [ObjectId -> MaybeValue]
            BY <2>2, StateFields
        <2> HIDE DEF values, ids, new, del, gone
        <2> QED BY <2>1, <2>3, <2>4, <2>5, <2>6 DEF undo_state
    <1>2. ASSUME NEW x \in ObjectId
          PROVE  /\ s.objects[x] = RestoredObject(w, t.objects, x)
                 /\ x \in w.new_ids => /\ t.objects[x] # Absent
                                       /\ w.old_values[x] = Absent
                                       /\ w.removed[x] = Absent
                                       /\ x[2] >= s.next_id[x[1]]
                 /\ w.old_values[x] # Absent => /\ t.objects[x] # Absent
                                                /\ w.removed[x] = Absent
                 /\ w.removed[x] # Absent => t.objects[x] = Absent
        <2>0. x[1] \in Index /\ x[2] \in Nat
            BY BoundAssumption DEF ObjectId, Instance
        <2>1. /\ s.next_id[x[1]] \in Nat /\ m.next_id[x[1]] \in Nat
              /\ s.next_id[x[1]] <= m.next_id[x[1]]
            BY <2>0, DatabaseFields, BoundAssumption DEF NextId, Level
        <2>2. /\ x \in B.new_ids => /\ x \notin A.new_ids
                                    /\ A.old_values[x] = Absent
                                    /\ A.removed[x] = Absent
              /\ A.removed[x] # Absent => /\ B.old_values[x] = Absent
                                          /\ B.removed[x] = Absent
            BY CausalCells
        <2>3. /\ x \in w.new_ids <=> (x \in A.new_ids \/ x \in B.new_ids) /\ B.removed[x] = Absent
              /\ w.old_values[x] =
                    IF B.removed[x] # Absent /\ x \notin A.new_ids /\ x \notin B.new_ids
                    THEN Absent
                    ELSE IF x \in A.new_ids \/ A.old_values[x] # Absent
                    THEN A.old_values[x] ELSE B.old_values[x]
              /\ w.removed[x] =
                    IF B.removed[x] # Absent /\ x \notin A.new_ids /\ x \notin B.new_ids
                    THEN IF x \in A.new_ids \/ A.old_values[x] # Absent
                         THEN A.old_values[x]
                         ELSE IF B.old_values[x] # Absent THEN B.old_values[x]
                         ELSE B.removed[x]
                    ELSE A.removed[x]
            BY DEF MergeStates
        <2>4. /\ s.objects[x] = RestoredObject(A, m.objects, x)
              /\ m.objects[x] = RestoredObject(B, t.objects, x)
              /\ x \in A.new_ids => /\ m.objects[x] # Absent
                                    /\ A.old_values[x] = Absent
                                    /\ A.removed[x] = Absent
                                    /\ x[2] >= s.next_id[x[1]]
              /\ A.old_values[x] # Absent => m.objects[x] # Absent /\ A.removed[x] = Absent
              /\ A.removed[x] # Absent => m.objects[x] = Absent
              /\ x \in B.new_ids => /\ t.objects[x] # Absent
                                    /\ B.old_values[x] = Absent
                                    /\ B.removed[x] = Absent
                                    /\ x[2] >= m.next_id[x[1]]
              /\ B.old_values[x] # Absent => t.objects[x] # Absent /\ B.removed[x] = Absent
              /\ B.removed[x] # Absent => t.objects[x] = Absent
            BY DEF Level
        <2> HIDE DEF w
        <2> QED BY <2>0, <2>1, <2>2, <2>3, <2>4 DEF RestoredObject
    <1>3. ASSUME NEW i \in Index
          PROVE  /\ s.next_id[i] = IF w.old_index_next_ids[i] # Absent
                                   THEN w.old_index_next_ids[i] ELSE t.next_id[i]
                 /\ s.next_id[i] <= t.next_id[i]
        <2>1. s.next_id[i] \in Nat /\ m.next_id[i] \in Nat /\ t.next_id[i] \in Nat
            BY DatabaseFields, BoundAssumption DEF NextId
        <2>2. w.old_index_next_ids[i] = IF A.old_index_next_ids[i] # Absent
                                        THEN A.old_index_next_ids[i]
                                        ELSE B.old_index_next_ids[i]
            BY DEF MergeStates
        <2> HIDE DEF w
        <2> QED BY <2>1, <2>2 DEF Level
    <1> QED BY <1>1, <1>2, <1>3 DEF Level

-----------------------------------------------------------------------------
(* Sequences: what popping, trimming and replacing do to a log.            *)
LEMMA FrontFacts ==
    ASSUME NEW S, NEW s \in Seq(S), s # <<>>
    PROVE  /\ Front(s) \in Seq(S)
           /\ Len(s) \in Nat \ {0}
           /\ Len(Front(s)) = Len(s) - 1
           /\ \A k \in 1 .. (Len(s) - 1) : Front(s)[k] = s[k]
           /\ Last(s) = s[Len(s)]
           /\ Last(s) \in S
    <1>1. Len(s) \in Nat \ {0}
        OBVIOUS
    <1>2. Last(s) = s[Len(s)] /\ Last(s) \in S
        BY <1>1 DEF Last
    <1>3. Front(s) = [k \in 1 .. (Len(s) - 1) |-> s[k]]
        BY <1>1 DEF Front
    <1> QED BY <1>1, <1>2, <1>3

(* Replacing the last state of a log leaves the others alone.              *)
LEMMA ReplaceLast ==
    ASSUME NEW S, NEW s \in Seq(S), s # <<>>, NEW x \in S
    PROVE  Append(Front(s), x) = [s EXCEPT ![Len(s)] = x]
    <1> DEFINE f == [s EXCEPT ![Len(s)] = x]
    <1>1. /\ Front(s) \in Seq(S) /\ Len(Front(s)) = Len(s) - 1
          /\ \A k \in 1 .. (Len(s) - 1) : Front(s)[k] = s[k]
          /\ Len(s) \in Nat \ {0}
        BY FrontFacts
    <1>2. f \in Seq(S) /\ Len(f) = Len(s)
          /\ \A k \in 1 .. Len(s) : f[k] = IF k = Len(s) THEN x ELSE s[k]
        BY <1>1, ExceptSeq
    <1>3. Append(Front(s), x) \in Seq(S) /\ Len(Append(Front(s), x)) = Len(s)
        BY <1>1
    <1>4. \A k \in 1 .. Len(s) : Append(Front(s), x)[k] = f[k]
        BY <1>1, <1>2
    <1> HIDE DEF f
    <1> QED BY <1>2, <1>3, <1>4, SeqEqual, Zenon DEF f

(* Trimming keeps the newest states of a log, in order.                    *)
LEMMA TrimFacts ==
    ASSUME NEW S, NEW s \in Seq(S), NEW n \in Nat
    PROVE  /\ Trim(s, n) \in Seq(S)
           /\ Len(Trim(s, n)) = IF Len(s) > n THEN n ELSE Len(s)
           /\ \A k \in 1 .. Len(Trim(s, n)) :
                 Trim(s, n)[k] = s[k + (Len(s) - Len(Trim(s, n)))]
    <1>1. CASE Len(s) > n
        <2>1. Trim(s, n) = SubSeq(s, Len(s) - n + 1, Len(s))
            BY <1>1 DEF Trim
        <2>2. Len(Trim(s, n)) = n
            BY <1>1, <2>1
        <2>3. Trim(s, n) \in Seq(S)
            BY <1>1, <2>1
        <2>4. ASSUME NEW k \in 1 .. n
              PROVE  Trim(s, n)[k] = s[k + (Len(s) - n)]
            BY <1>1, <2>1, <2>4
        <2> QED BY <1>1, <2>2, <2>3, <2>4
    <1>2. CASE ~(Len(s) > n)
        BY <1>2 DEF Trim
    <1> QED BY <1>1, <1>2

(* Starting a session adds a level, trimming removes the oldest ones.      *)
LEMMA LevelsStart ==
    ASSUME NEW st \in Seq(undo_state), NEW sv \in Seq(Database), NEW d \in Database,
           NEW n \in Nat, Levels(st, sv, d), Sane(d)
    PROVE  Levels(Append(Trim(st, n), EmptyState), Append(Trim(sv, n), d), d)
    <1> DEFINE st2 == Trim(st, n)
               sv2 == Trim(sv, n)
               c == Len(st) - Len(st2)
    <1>1. /\ st2 \in Seq(undo_state) /\ sv2 \in Seq(Database)
          /\ Len(sv2) = Len(st2) /\ Len(sv) = Len(st)
          /\ Len(st2) <= Len(st)
          /\ Len(st2) \in Nat /\ c \in Nat /\ Len(st) = Len(st2) + c
          /\ \A k \in 1 .. Len(st2) : st2[k] = st[k + c] /\ sv2[k] = sv[k + c]
        BY TrimFacts DEF Levels
    <1> HIDE DEF st2, sv2, c
    <1> DEFINE st3 == Append(st2, EmptyState)
               sv3 == Append(sv2, d)
    <1>2. Len(st3) = Len(st2) + 1 /\ Len(sv3) = Len(st3)
        BY <1>1, EmptyStateType
    <1>3. ASSUME NEW k \in 1 .. Len(st3)
          PROVE  Sane(sv3[k]) /\ Level(st3[k], sv3[k], After(st3, sv3, d, k))
        <2>1. CASE k = Len(st3)
            <3>1. st3[k] = EmptyState /\ sv3[k] = d /\ After(st3, sv3, d, k) = d
                BY <2>1, <1>1, <1>2, EmptyStateType DEF After
            <3> QED BY <3>1, EmptyLevel
        <2>2. CASE k # Len(st3)
            <3>1. k \in 1 .. Len(st2) /\ k + c \in 1 .. Len(st)
                BY <2>2, <1>1, <1>2
            <3>2. st3[k] = st[k + c] /\ sv3[k] = sv[k + c]
                BY <3>1, <1>1, <1>2, EmptyStateType
            <3>3. After(st3, sv3, d, k) = After(st, sv, d, k + c)
                <4>1. CASE k = Len(st2)
                    BY <4>1, <3>1, <1>1, <1>2 DEF After
                <4>2. CASE k # Len(st2)
                    <5>1. k + 1 \in 1 .. Len(st2) /\ k + c # Len(st)
                        BY <4>2, <3>1, <1>1
                    <5>2. sv3[k + 1] = sv2[k + 1] /\ sv2[k + 1] = sv[k + c + 1]
                        BY <5>1, <1>1
                    <5> QED BY <5>1, <5>2, <2>2 DEF After
                <4> QED BY <4>1, <4>2
            <3> QED BY <3>1, <3>2, <3>3 DEF Levels
        <2> QED BY <2>1, <2>2, Zenon
    <1> QED BY <1>2, <1>3 DEF Levels, st2, sv2

(* Removing the newest level makes the database saved with it current.     *)
LEMMA LevelsPop ==
    ASSUME NEW st \in Seq(undo_state), NEW sv \in Seq(Database), NEW d \in Database,
           Levels(st, sv, d), st # <<>>
    PROVE  /\ Levels(Front(st), Front(sv), Last(sv))
           /\ sv # <<>> /\ Last(sv) \in Database /\ Sane(Last(sv))
           /\ Level(Last(st), Last(sv), d)
    <1>1. Len(sv) = Len(st) /\ sv # <<>>
        BY DEF Levels
    <1>2. /\ Front(st) \in Seq(undo_state) /\ Front(sv) \in Seq(Database)
          /\ Len(st) \in Nat \ {0}
          /\ Len(Front(st)) = Len(st) - 1 /\ Len(Front(sv)) = Len(st) - 1
          /\ \A k \in 1 .. (Len(st) - 1) : Front(st)[k] = st[k] /\ Front(sv)[k] = sv[k]
          /\ Last(st) = st[Len(st)] /\ Last(sv) = sv[Len(st)] /\ Last(sv) \in Database
        BY <1>1, FrontFacts, Zenon
    <1>3. Sane(Last(sv)) /\ Level(Last(st), Last(sv), d)
        BY <1>2 DEF Levels, After
    <1>4. ASSUME NEW k \in 1 .. Len(Front(st))
          PROVE  /\ Sane(Front(sv)[k])
                 /\ Level(Front(st)[k], Front(sv)[k], After(Front(st), Front(sv), Last(sv), k))
        <2>1. k \in 1 .. Len(st) /\ k # Len(st) /\ Front(st)[k] = st[k] /\ Front(sv)[k] = sv[k]
            BY <1>2
        <2>2. After(Front(st), Front(sv), Last(sv), k) = After(st, sv, d, k)
            BY <2>1, <1>2 DEF After
        <2> QED BY <2>1, <2>2 DEF Levels
    <1> QED BY <1>1, <1>2, <1>3, <1>4 DEF Levels

(* Replacing the newest state and the database together.                   *)
LEMMA LevelsReplace ==
    ASSUME NEW st \in Seq(undo_state), NEW sv \in Seq(Database),
           NEW d \in Database, NEW d2 \in Database, NEW u \in undo_state,
           Levels(st, sv, d), st # <<>>, Level(u, Last(sv), d2)
    PROVE  Levels([st EXCEPT ![Len(st)] = u], sv, d2)
    <1> DEFINE st2 == [st EXCEPT ![Len(st)] = u]
    <1>1. /\ Len(sv) = Len(st) /\ Len(st) \in Nat \ {0} /\ Last(sv) = sv[Len(st)]
          /\ st2 \in Seq(undo_state) /\ Len(st2) = Len(st)
        BY DEF Levels, Last
    <1>2. ASSUME NEW k \in 1 .. Len(st2)
          PROVE  Sane(sv[k]) /\ Level(st2[k], sv[k], After(st2, sv, d2, k))
        <2>1. CASE k = Len(st)
            BY <2>1, <1>1 DEF Levels, After
        <2>2. CASE k # Len(st)
            BY <2>2, <1>1 DEF Levels, After
        <2> QED BY <2>1, <2>2
    <1> QED BY <1>1, <1>2, Zenon DEF Levels

(* A one-level log.                                                        *)
LEMMA LevelsOne ==
    ASSUME NEW d \in Database, NEW d2 \in Database, NEW u \in undo_state,
           Sane(d), Level(u, d, d2)
    PROVE  Levels(<<u>>, <<d>>, d2)
    BY DEF Levels, After

-----------------------------------------------------------------------------
(* UndoInv is an invariant.                                                *)
LEMMA InitInv == HInit => UndoInv
    <1> SUFFICES ASSUME HInit PROVE UndoInv
        OBVIOUS
    <1>1. TypeOK
        <2>1. objects \in [ObjectId -> MaybeValue]
            BY DEF HInit, Init, MaybeValue
        <2>2. next_id \in [Index -> NextId]
            BY BoundAssumption DEF HInit, Init, NextId
        <2>3. stack \in Seq(undo_state) /\ saved \in Seq(Database)
            BY DEF HInit, Init
        <2>4. active_sessions \in 0 .. MaxSessions
            BY BoundAssumption DEF HInit, Init
        <2> QED BY <2>1, <2>2, <2>3, <2>4, Zenon DEF HInit, Init, TypeOK
    <1>2. Sane(Db)
        BY DEF HInit, Init, Sane, Db
    <1>3. Levels(stack, saved, Db)
        BY DEF HInit, Init, Levels
    <1> QED BY <1>1, <1>2, <1>3
        DEF HInit, Init, UndoInv, UndoNeverFails, SessionsHaveStates,
            DisabledLogIsEmpty, ForcedSession

(* The pair of objects and next ids is a database.                         *)
LEMMA DbType == TypeOK => Db \in Database
    BY DEF TypeOK, Db, Database

(* A step that changes objects and records the change as state u.          *)
LEMMA RecordStep ==
    ASSUME UndoInv, NEW u \in undo_state, Db' \in Database, Sane(Db'),
           ~disabled => \A s \in Database :
                           Sane(s) /\ Level(Last(Recorded), s, Db) => Level(u, s, Db'),
           Record(u), unchangedByObjects,
           saved' = IF stack = <<>> /\ stack' # <<>> THEN <<Db>> ELSE saved
    PROVE  UndoInv'
    <1> USE DEF UndoInv, TypeOK
    <1>0. Db \in Database /\ Sane(Db)
        BY DbType
    <1>1. objects' \in [ObjectId -> MaybeValue] /\ next_id' \in [Index -> NextId]
        BY DEF Db, Database
    <1>2. CASE disabled
        <2>0. stack = <<>> /\ stack' = stack
            BY <1>2 DEF Record, DisabledLogIsEmpty
        <2>1. saved' = saved /\ Len(saved) = 0 /\ Len(stack) = 0
            BY <2>0 DEF Levels
        <2>2. Levels(stack', saved', Db')
            BY <2>0, <2>1 DEF Levels
        <2> QED BY <1>1, <2>0, <2>1, <2>2
            DEF unchangedByObjects, UndoNeverFails, SessionsHaveStates,
                DisabledLogIsEmpty, ForcedSession
    <1>3. CASE ~disabled /\ stack = <<>>
        <2>1. stack' = <<u>> /\ saved' = <<Db>>
            BY <1>3 DEF Record, Recorded
        <2>2. Level(EmptyState, Db, Db) /\ Last(Recorded) = EmptyState
            BY <1>0, <1>3, EmptyLevel DEF Recorded, Last
        <2>3. Levels(stack', saved', Db')
            BY <1>0, <1>3, <2>1, <2>2, LevelsOne
        <2>4. Len(stack) = 0 /\ Len(stack') = 1
            BY <1>3, <2>1
        <2>5. stack' \in Seq(undo_state) /\ saved' \in Seq(Database)
            BY <2>1, <1>0
        <2> QED BY <1>1, <1>3, <2>3, <2>4, <2>5
            DEF unchangedByObjects, UndoNeverFails, SessionsHaveStates,
                DisabledLogIsEmpty, ForcedSession
    <1>4. CASE ~disabled /\ stack # <<>>
        <2>1. /\ Recorded = stack /\ saved' = saved
              /\ stack' = [stack EXCEPT ![Len(stack)] = u]
            BY <1>4 DEF Record, Recorded
        <2>2. Sane(Last(saved)) /\ Level(Last(stack), Last(saved), Db) /\ Last(saved) \in Database
            BY <1>0, <1>4, LevelsPop
        <2>3. Level(u, Last(saved), Db')
            BY <1>4, <2>1, <2>2
        <2>4. Levels(stack', saved', Db')
            BY <1>0, <1>4, <2>1, <2>3, LevelsReplace, Zenon
        <2>5. stack' \in Seq(undo_state) /\ Len(stack') = Len(stack) /\ stack' # <<>>
            BY <1>4, <2>1
        <2> QED BY <1>1, <1>4, <2>1, <2>4, <2>5
           , Zenon DEF unchangedByObjects, UndoNeverFails, SessionsHaveStates,
                DisabledLogIsEmpty, ForcedSession
    <1> QED BY <1>2, <1>3, <1>4

(* The log a change is recorded in is a log, and has a newest state.       *)
LEMMA RecordedType == TypeOK => Recorded \in Seq(undo_state) /\ Last(Recorded) \in undo_state
    BY EmptyStateType, FrontFacts DEF TypeOK, Recorded, Last

(* create, modify, remove and use_next_id preserve UndoInv.                *)
LEMMA ObjectsInv == UndoInv /\ HObjects => UndoInv'
    <1> SUFFICES ASSUME UndoInv, HObjects PROVE UndoInv'
        OBVIOUS
    <1>0. /\ TypeOK /\ Db \in Database /\ Sane(Db) /\ Last(Recorded) \in undo_state
          /\ saved' = IF stack = <<>> /\ stack' # <<>> THEN <<Db>> ELSE saved
        BY DbType, RecordedType DEF UndoInv, HObjects
    <1>1. ASSUME NEW i \in Index, NEW v \in Value, create(i, v) PROVE UndoInv'
        <2> DEFINE id == <<i, next_id[i]>>
                   u == on_create(Last(Recorded), id)
        <2>1. id \in ObjectId /\ next_id[i] \in Nat /\ next_id[i] < MaxInstances
            BY <1>0, <1>1, BoundAssumption DEF create, TypeOK, NextId, ObjectId, Instance
        <2>2. u \in undo_state
            BY <2>1, <1>0, RecordTypes
        <2>3. /\ Db'.objects = [Db.objects EXCEPT ![id] = v]
              /\ Db'.next_id = [Db.next_id EXCEPT ![i] = @ + 1]
              /\ Db.next_id[i] = next_id[i]
            BY <1>1 DEF create, Db
        <2>4. Db' \in Database
            BY <1>0, <1>1, <2>1, BoundAssumption
            DEF create, Db, Database, TypeOK, MaybeValue, NextId
        <2>5. Sane(Db')
            BY <1>0, <2>1, <2>3, <2>4, EmptyLevel, EmptyStateType, CreateLevel
        <2>6. ASSUME NEW s \in Database, Sane(s), Level(Last(Recorded), s, Db)
              PROVE  Level(u, s, Db')
            BY <1>0, <2>1, <2>3, <2>4, <2>6, CreateLevel
        <2>7. Record(u) /\ unchangedByObjects
            BY <1>1 DEF create
        <2> QED BY <1>0, <2>2, <2>4, <2>5, <2>6, <2>7, RecordStep
    <1>2. ASSUME NEW id \in ObjectId, NEW v \in Value, modify(id, v) PROVE UndoInv'
        <2> DEFINE u == on_modify(Last(Recorded), id, objects[id])
        <2>1. objects[id] \in Value /\ Db.objects = objects /\ Db.objects[id] # Absent
            BY <1>0, <1>2 DEF modify, TypeOK, MaybeValue, Db
        <2>2. u \in undo_state
            BY <2>1, <1>0, RecordTypes
        <2>3. Db'.objects = [Db.objects EXCEPT ![id] = v] /\ Db'.next_id = Db.next_id
            BY <1>2 DEF modify, Db
        <2>4. Db' \in Database
            BY <1>0, <1>2 DEF modify, Db, Database, TypeOK, MaybeValue
        <2>5. Sane(Db')
            BY <1>0, <2>1, <2>3, <2>4, EmptyLevel, EmptyStateType, ModifyLevel
        <2>6. ASSUME NEW s \in Database, Sane(s), Level(Last(Recorded), s, Db)
              PROVE  Level(u, s, Db')
            BY <1>0, <2>1, <2>3, <2>4, <2>6, ModifyLevel
        <2>7. Record(u) /\ unchangedByObjects
            BY <1>2 DEF modify
        <2> QED BY <1>0, <2>2, <2>4, <2>5, <2>6, <2>7, RecordStep
    <1>3. ASSUME NEW id \in ObjectId, remove(id) PROVE UndoInv'
        <2> DEFINE u == on_remove(Last(Recorded), id, objects[id])
        <2>1. objects[id] \in Value /\ Db.objects = objects /\ Db.objects[id] # Absent
            BY <1>0, <1>3 DEF remove, TypeOK, MaybeValue, Db
        <2>2. u \in undo_state
            BY <2>1, <1>0, RecordTypes
        <2>3. Db'.objects = [Db.objects EXCEPT ![id] = Absent] /\ Db'.next_id = Db.next_id
            BY <1>3 DEF remove, Db
        <2>4. Db' \in Database
            BY <1>0, <1>3 DEF remove, Db, Database, TypeOK, MaybeValue
        <2>5. Sane(Db')
            BY <1>0, <2>1, <2>3, <2>4, EmptyLevel, EmptyStateType, RemoveLevel
        <2>6. ASSUME NEW s \in Database, Sane(s), Level(Last(Recorded), s, Db)
              PROVE  Level(u, s, Db')
            BY <1>0, <2>1, <2>3, <2>4, <2>6, RemoveLevel
        <2>7. Record(u) /\ unchangedByObjects
            BY <1>3 DEF remove
        <2> QED BY <1>0, <2>2, <2>4, <2>5, <2>6, <2>7, RecordStep
    <1>4. ASSUME NEW i \in Index, use_next_id(i) PROVE UndoInv'
        <2>1. /\ stack' = stack /\ saved' = saved /\ objects' = objects
              /\ next_id' = [next_id EXCEPT ![i] = @ + 1]
              /\ next_id[i] \in Nat /\ next_id[i] < MaxInstances
            BY <1>0, <1>4, BoundAssumption DEF use_next_id, TypeOK, NextId
        <2>2. TypeOK'
            BY <1>0, <1>4, <2>1, BoundAssumption
            DEF use_next_id, unchangedByObjects, TypeOK, NextId
        <2>3. Db' \in Database /\ Db'.objects = Db.objects
              /\ Db'.next_id = [Db.next_id EXCEPT ![i] = @ + 1]
            BY <2>1, <2>2 DEF Db, Database, TypeOK
        <2>4. Sane(Db')
            BY <1>0, <2>1, <2>3, DatabaseFields, BoundAssumption
            DEF Sane, Db, NextId, ObjectId, Instance
        <2>5. Levels(stack', saved', Db')
            <3>1. CASE stack = <<>>
                BY <3>1, <2>1 DEF UndoInv, Levels
            <3>2. CASE stack # <<>>
                <4>1. Last(stack).old_index_next_ids[i] # Absent
                    BY <1>4, <3>2 DEF use_next_id, ClientSkipsId, UndoInv, DisabledLogIsEmpty
                <4>2. /\ Level(Last(stack), Last(saved), Db) /\ Last(saved) \in Database
                      /\ Last(stack) \in undo_state
                    BY <1>0, <3>2, LevelsPop, FrontFacts DEF UndoInv, TypeOK
                <4>3. Level(Last(stack), Last(saved), Db')
                    <5>1. ASSUME NEW j \in Index
                          PROVE /\ Last(saved).next_id[j] \in Nat
                                /\ Db.next_id[j] \in Nat
                                /\ Db'.next_id[j] \in Nat
                                /\ Db'.next_id[j] = IF j = i THEN Db.next_id[j] + 1 ELSE Db.next_id[j]
                        BY <2>3, <4>2, <1>0, DatabaseFields, BoundAssumption DEF NextId
                    <5> QED BY <4>1, <4>2, <2>3, <5>1 DEF Level, RestoredObject
                <4>4. stack' = [stack EXCEPT ![Len(stack)] = Last(stack)]
                    BY <2>1, <1>0, <3>2 DEF Last, TypeOK
                <4> QED BY <4>2, <4>3, <4>4, <2>1, <2>3, <3>2, <1>0, LevelsReplace
                        DEF UndoInv, TypeOK
            <3> QED BY <3>1, <3>2
        <2> QED BY <1>4, <2>1, <2>2, <2>4, <2>5
            DEF UndoInv, use_next_id, unchangedByObjects, UndoNeverFails,
                SessionsHaveStates, DisabledLogIsEmpty, ForcedSession
    <1> QED BY <1>1, <1>2, <1>3, <1>4 DEF HObjects, ObjectStep

(* start_undo_session preserves UndoInv.                                   *)
LEMMA StartInv == UndoInv /\ HStart => UndoInv'
    <1> SUFFICES ASSUME UndoInv, NEW force \in BOOLEAN, start_undo_session(force),
                        saved' = Append(Trim(saved, max_size), Db)
                 PROVE  UndoInv'
        BY DEF HStart
    <1> USE DEF UndoInv, TypeOK
    <1>0. /\ Db \in Database /\ Db' = Db /\ max_size \in Nat /\ active_sessions \in Nat
          /\ max_size' = max_size /\ active_sessions' = active_sessions + 1
          /\ active_sessions <= max_size /\ active_sessions < MaxSessions
          /\ stack' = Append(Trim(stack, max_size), EmptyState)
          /\ disabled' = FALSE
        BY DbType, MaxSizesAssumption, BoundAssumption
        DEF start_undo_session, ClientStarts, Db
    <1>1. Levels(stack', saved', Db')
        BY <1>0, LevelsStart
    <1>2. /\ Trim(stack, max_size) \in Seq(undo_state)
          /\ Trim(saved, max_size) \in Seq(Database)
          /\ Len(Trim(stack, max_size)) = IF Len(stack) > max_size THEN max_size ELSE Len(stack)
        BY <1>0, TrimFacts
    <1>3. /\ stack' \in Seq(undo_state) /\ saved' \in Seq(Database)
          /\ Len(stack') = Len(Trim(stack, max_size)) + 1
        BY <1>0, <1>2, EmptyStateType
    <1>4. TypeOK'
        <2>1. active_sessions' \in 0 .. MaxSessions
            BY <1>0, BoundAssumption
        <2>2. disable_on_exit' \in BOOLEAN
            BY DEF start_undo_session
        <2>3. UNCHANGED <<objects, next_id, max_size, failed>>
            BY DEF start_undo_session
        <2> QED BY <1>0, <1>3, <2>1, <2>2, <2>3, Zenon
    <1>5. SessionsHaveStates'
        BY <1>0, <1>2, <1>3 DEF SessionsHaveStates
    <1>6. ForcedSession'
        <2>1. CASE disabled
            <3>1. Len(stack) = 0 /\ active_sessions = 0
                BY <2>1 DEF DisabledLogIsEmpty
            <3> QED BY <3>1, <1>0, <1>2, <1>3 DEF ForcedSession
        <2>2. CASE ~disabled
            <3>1. disable_on_exit' = disable_on_exit
                BY <2>2 DEF start_undo_session
            <3> QED BY <3>1, <1>0, <1>2, <1>3 DEF ForcedSession
        <2> QED BY <2>1, <2>2
    <1>7. Sane(Db)' /\ UndoNeverFails' /\ DisabledLogIsEmpty'
        BY <1>0 DEF start_undo_session, UndoNeverFails, DisabledLogIsEmpty
    <1> QED BY <1>1, <1>4, <1>5, <1>6, <1>7

(* A faithful state can be restored, and restoring it gives the saved      *)
(* database.                                                               *)
LEMMA RestoreLevel ==
    ASSUME NEW u \in undo_state, NEW s \in Database, NEW t \in Database, Level(u, s, t)
    PROVE  /\ Restorable(u, t.objects)
           /\ RestoreObjects(u, t.objects) = s.objects
           /\ RestoreNextIds(u, t.next_id) = s.next_id
    <1>1. Restorable(u, t.objects)
        BY DEF Level, Restorable
    <1>2. RestoreObjects(u, t.objects) = s.objects
        BY DatabaseFields DEF Level, RestoreObjects
    <1>3. RestoreNextIds(u, t.next_id) = s.next_id
        BY DatabaseFields DEF Level, RestoreNextIds
    <1> QED BY <1>1, <1>2, <1>3

(* What undo and pop_commit have in common.                                *)
LEMMA RestoreTopFacts ==
    ASSUME UndoInv, stack # <<>>
    PROVE  /\ Restorable(Last(stack), objects)
           /\ RestoreTop /\ saved' = Front(saved) =>
                /\ Db' = Last(saved) /\ Db' \in Database /\ Sane(Db')
                /\ Levels(stack', saved', Db')
                /\ stack' \in Seq(undo_state) /\ saved' \in Seq(Database)
                /\ Len(stack') = Len(stack) - 1
    <1>1. /\ TypeOK /\ Db \in Database /\ Db.objects = objects /\ Db.next_id = next_id
          /\ Levels(stack, saved, Db) /\ Last(stack) \in undo_state
        BY DbType, FrontFacts DEF UndoInv, TypeOK, Db
    <1>2. /\ Level(Last(stack), Last(saved), Db) /\ Last(saved) \in Database
          /\ Sane(Last(saved)) /\ saved # <<>>
          /\ Levels(Front(stack), Front(saved), Last(saved))
        BY <1>1, LevelsPop DEF TypeOK
    <1>3. /\ Restorable(Last(stack), objects)
          /\ RestoreObjects(Last(stack), objects) = Last(saved).objects
          /\ RestoreNextIds(Last(stack), next_id) = Last(saved).next_id
        BY <1>1, <1>2, RestoreLevel
    <1>4. ASSUME RestoreTop PROVE Db' = Last(saved)
        BY <1>2, <1>3, <1>4 DEF RestoreTop, Db, Database
    <1>5. /\ Front(stack) \in Seq(undo_state) /\ Len(Front(stack)) = Len(stack) - 1
          /\ Front(saved) \in Seq(Database)
        BY <1>1, <1>2, FrontFacts DEF TypeOK
    <1> QED BY <1>2, <1>3, <1>4, <1>5 DEF RestoreTop

(* The end of a session whose state has left the log.                      *)
LEMMA EndSessionInv ==
    ASSUME UndoInv, active_sessions > 0, EndSession, Len(stack') = Len(stack) - 1,
           stack' \in Seq(undo_state)
    PROVE  /\ active_sessions' \in 0 .. MaxSessions
           /\ disabled' \in BOOLEAN /\ disable_on_exit' \in BOOLEAN
           /\ SessionsHaveStates' /\ DisabledLogIsEmpty' /\ ForcedSession'
    <1> USE DEF UndoInv, TypeOK, EndSession
    <1>0. active_sessions \in Nat /\ MaxSessions \in Nat /\ Len(stack) \in Nat /\ ~disabled
        BY BoundAssumption DEF DisabledLogIsEmpty
    <1>1. active_sessions' \in 0 .. MaxSessions
        BY <1>0
    <1>2. SessionsHaveStates'
        BY <1>0 DEF SessionsHaveStates
    <1>3. disabled' \in BOOLEAN /\ disable_on_exit' \in BOOLEAN
        <2>1. CASE active_sessions = 1
            BY <2>1, Zenon
        <2>2. CASE active_sessions # 1
            BY <2>2
        <2> QED BY <2>1, <2>2
    <1>4. DisabledLogIsEmpty'
        <2> SUFFICES ASSUME disabled' PROVE stack' = <<>> /\ active_sessions' = 0
            BY DEF DisabledLogIsEmpty
        <2>1. active_sessions = 1 /\ disable_on_exit
            BY <1>0, Zenon
        <2>2. Len(stack') = 0
            BY <2>1 DEF ForcedSession
        <2> QED BY <2>1, <2>2
    <1>5. ForcedSession'
        <2>1. CASE active_sessions = 1
            BY <2>1 DEF ForcedSession
        <2>2. CASE active_sessions # 1
            <3> SUFFICES ASSUME disable_on_exit'
                         PROVE  active_sessions' > 0 /\ Len(stack') = active_sessions'
                BY DEF ForcedSession
            <3>1. disable_on_exit
                BY <2>2, Zenon
            <3>2. Len(stack) = active_sessions /\ active_sessions > 1
                BY <2>2, <3>1, <1>0 DEF ForcedSession
            <3> QED BY <3>2, <1>0
        <2> QED BY <2>1, <2>2
    <1> QED BY <1>1, <1>2, <1>3, <1>4, <1>5

(* undo and pop_commit preserve UndoInv, and do not throw.                 *)
LEMMA RestoreInv == UndoInv /\ HRestore => UndoInv'
    <1> USE DEF UndoInv, TypeOK
    <1>1. ASSUME UndoInv, undo, saved' = IF failed' THEN saved ELSE Front(saved)
          PROVE  UndoInv'
        <2>1. stack # <<>>
            BY <1>1 DEF undo, SessionsHaveStates
        <2>2. RestoreTop /\ EndSession /\ UNCHANGED <<failed, max_size>> /\ active_sessions > 0
            BY <1>1, <2>1, RestoreTopFacts DEF undo
        <2>3. saved' = Front(saved)
            BY <1>1, <2>2 DEF UndoNeverFails
        <2>4. /\ Db' \in Database /\ Sane(Db') /\ Levels(stack', saved', Db')
              /\ stack' \in Seq(undo_state) /\ saved' \in Seq(Database)
              /\ Len(stack') = Len(stack) - 1
            BY <1>1, <2>1, <2>2, <2>3, RestoreTopFacts
        <2>5. objects' \in [ObjectId -> MaybeValue] /\ next_id' \in [Index -> NextId]
            BY <2>4 DEF Db, Database
        <2>6. /\ active_sessions' \in 0 .. MaxSessions
              /\ disabled' \in BOOLEAN /\ disable_on_exit' \in BOOLEAN
              /\ SessionsHaveStates' /\ DisabledLogIsEmpty' /\ ForcedSession'
            BY <1>1, <2>2, <2>4, EndSessionInv
        <2> QED BY <1>1, <2>2, <2>4, <2>5, <2>6 DEF UndoNeverFails
    <1>2. ASSUME UndoInv, pop_commit, saved' = IF failed' THEN saved ELSE Front(saved)
          PROVE  UndoInv'
        <2>1. RestoreTop /\ stack # <<>> /\ ~failed'
            BY <1>2, RestoreTopFacts DEF pop_commit, UndoNeverFails
        <2>2. saved' = Front(saved)
            BY <1>2, <2>1
        <2>3. /\ Db' \in Database /\ Sane(Db') /\ Levels(stack', saved', Db')
              /\ stack' \in Seq(undo_state) /\ saved' \in Seq(Database)
              /\ Len(stack') = Len(stack) - 1
            BY <1>2, <2>1, <2>2, RestoreTopFacts
        <2>4. objects' \in [ObjectId -> MaybeValue] /\ next_id' \in [Index -> NextId]
            BY <2>3 DEF Db, Database
        <2>5. /\ disabled' = FALSE /\ failed' = failed /\ active_sessions = 0
              /\ UNCHANGED <<active_sessions, max_size, disable_on_exit>>
            BY <1>2, <2>1 DEF pop_commit, UndoNeverFails
        <2>6. SessionsHaveStates' /\ DisabledLogIsEmpty' /\ ForcedSession'
            BY <1>2, <2>3, <2>5 DEF SessionsHaveStates, DisabledLogIsEmpty, ForcedSession
        <2> QED BY <1>2, <2>3, <2>4, <2>5, <2>6, Zenon DEF UndoNeverFails
    <1> QED BY <1>1, <1>2 DEF HRestore

(* merge preserves UndoInv.                                                *)
LEMMA MergeInv == UndoInv /\ HMerge => UndoInv'
    <1> SUFFICES ASSUME UndoInv, merge, saved' = Front(saved)
                 PROVE  UndoInv'
        BY DEF HMerge
    <1> USE DEF UndoInv, TypeOK
    <1>0. /\ active_sessions > 0 /\ EndSession /\ Db' = Db /\ Db \in Database
          /\ UNCHANGED <<objects, next_id, max_size, failed>> /\ stack # <<>>
        BY DbType, BoundAssumption DEF merge, Db, SessionsHaveStates
    <1>1. /\ saved # <<>> /\ Level(Last(stack), Last(saved), Db)
          /\ Levels(Front(stack), Front(saved), Last(saved))
          /\ Last(saved) \in Database /\ Sane(Last(saved))
        BY <1>0, LevelsPop
    <1>2. /\ Front(stack) \in Seq(undo_state) /\ Len(Front(stack)) = Len(stack) - 1
          /\ Front(saved) \in Seq(Database) /\ Last(stack) \in undo_state
          /\ Len(stack) \in Nat \ {0}
        BY <1>0, <1>1, FrontFacts
    <1>3. /\ stack' \in Seq(undo_state) /\ Len(stack') = Len(stack) - 1
          /\ Levels(stack', saved', Db')
        <2>1. CASE active_sessions = 1 /\ Len(stack) = 1
            <3>1. stack' = <<>> /\ Len(stack') = 0
                BY <2>1 DEF merge
            <3>2. Len(saved') = 0
                BY <2>1, <1>1, <1>2 DEF Levels
            <3> QED BY <2>1, <3>1, <3>2 DEF Levels
        <2>2. CASE ~(active_sessions = 1 /\ Len(stack) = 1)
            <3> DEFINE below == Front(stack)
                       w == MergeStates(Last(below), Last(stack))
            <3>1. stack' = Append(Front(below), w) /\ Len(stack) >= 2
                BY <2>2 DEF merge
            <3>2. below # <<>> /\ Len(below) \in Nat \ {0}
                BY <3>1, <1>2
            <3>3. /\ Level(Last(below), Last(Front(saved)), Last(saved))
                  /\ Last(Front(saved)) \in Database /\ Sane(Last(Front(saved)))
                BY <3>2, <1>1, <1>2, LevelsPop
            <3>4. /\ Last(below) \in undo_state /\ Front(below) \in Seq(undo_state)
                  /\ Len(Front(below)) = Len(below) - 1
                  /\ \A k \in 1 .. (Len(below) - 1) : Front(below)[k] = below[k]
                BY <3>2, <1>2, FrontFacts, Zenon
            <3>5. w \in undo_state /\ Level(w, Last(Front(saved)), Db)
                BY <3>3, <3>4, <1>0, <1>1, <1>2, MergeLevel
            <3> HIDE DEF w
            <3>6. stack' = [below EXCEPT ![Len(below)] = w]
                BY <3>1, <3>2, <3>5, <1>2, ReplaceLast
            <3>7. Levels(stack', Front(saved), Db)
                BY <3>2, <3>5, <3>6, <1>0, <1>1, <1>2, LevelsReplace, Zenon
            <3>8. stack' \in Seq(undo_state) /\ Len(stack') = Len(below)
                BY <3>2, <3>5, <3>6, <1>2
            <3> QED BY <3>7, <3>8, <1>0, <1>2
        <2> QED BY <2>1, <2>2
    <1>4. /\ active_sessions' \in 0 .. MaxSessions
          /\ disabled' \in BOOLEAN /\ disable_on_exit' \in BOOLEAN
          /\ SessionsHaveStates' /\ DisabledLogIsEmpty' /\ ForcedSession'
        BY <1>0, <1>3, EndSessionInv
    <1>5. TypeOK'
        BY <1>0, <1>2, <1>3, <1>4
    <1> QED BY <1>0, <1>3, <1>4, <1>5 DEF UndoNeverFails

(* commit, set_max_size, enable and disable preserve UndoInv.              *)
LEMMA ControlInv == UndoInv /\ HControl => UndoInv'
    <1> SUFFICES ASSUME UndoInv, HControl PROVE UndoInv'
        OBVIOUS
    <1> USE DEF UndoInv, TypeOK
    <1>0. UNCHANGED <<objects, next_id, stack, failed, saved>> /\ Db' = Db
        BY DEF HControl, commit, set_max_size, enable, disable, Db
    <1>1. Levels(stack, saved, Db)' /\ Sane(Db)' /\ UndoNeverFails'
        BY <1>0 DEF UndoNeverFails
    <1>2. CASE commit
        <2>1. /\ active_sessions' = 0 /\ disable_on_exit' = FALSE /\ disabled' = FALSE
              /\ max_size' = max_size
            BY <1>2 DEF commit, ClientCommits, EndSession
        <2>2. SessionsHaveStates' /\ DisabledLogIsEmpty' /\ ForcedSession'
            BY <1>0, <2>1 DEF SessionsHaveStates, DisabledLogIsEmpty, ForcedSession
        <2>3. active_sessions' \in 0 .. MaxSessions
            BY <2>1, BoundAssumption
        <2>4. disabled' \in BOOLEAN /\ disable_on_exit' \in BOOLEAN
            BY <2>1, Zenon
        <2> QED BY <1>0, <1>1, <2>1, <2>2, <2>3, <2>4
    <1>3. ASSUME NEW n \in MaxSizes, set_max_size(n) PROVE UndoInv'
        BY <1>0, <1>1, <1>3
        DEF set_max_size, SessionsHaveStates, DisabledLogIsEmpty, ForcedSession
    <1>4. CASE enable
        BY <1>0, <1>1, <1>4
       , Zenon DEF enable, SessionsHaveStates, DisabledLogIsEmpty, ForcedSession
    <1>5. CASE disable
        BY <1>0, <1>1, <1>5
        DEF disable, ClientDisables, SessionsHaveStates, DisabledLogIsEmpty, ForcedSession
    <1> QED BY <1>2, <1>3, <1>4, <1>5 DEF HControl

(* UndoInv holds in every reachable state of the undo log.                 *)
THEOREM UndoInvariant == HSpec => []UndoInv
    <1>1. ASSUME UndoInv, UNCHANGED hvars PROVE UndoInv'
        <2>0. /\ UNCHANGED <<objects, next_id, stack, active_sessions, disabled,
                             max_size, disable_on_exit, failed, saved>>
              /\ Db' = Db
            BY <1>1 DEF hvars, vars, Db
        <2>1. TypeOK'
            BY <1>1, <2>0 DEF UndoInv, TypeOK
        <2>2. Sane(Db)' /\ Levels(stack, saved, Db)'
            BY <1>1, <2>0 DEF UndoInv
        <2>3. /\ UndoNeverFails' /\ SessionsHaveStates'
              /\ DisabledLogIsEmpty' /\ ForcedSession'
            BY <1>1, <2>0 DEF UndoInv, UndoNeverFails, SessionsHaveStates,
                              DisabledLogIsEmpty, ForcedSession
        <2> QED BY <2>1, <2>2, <2>3 DEF UndoInv
    <1>2. UndoInv /\ [HNext]_hvars => UndoInv'
        BY <1>1, ObjectsInv, StartInv, RestoreInv, MergeInv, ControlInv DEF HNext
    <1> QED BY InitInv, <1>2, PTL DEF HSpec

(* ~session never reaches std::terminate: undo and pop_commit find every   *)
(* object they need and every id they insert is free.                      *)
THEOREM UndoSafe == HSpec => []UndoNeverFails
    BY UndoInvariant, PTL DEF UndoInv

(* Every open session still finds its state in the log.                    *)
THEOREM SessionStatesKept == HSpec => []SessionsHaveStates
    BY UndoInvariant, PTL DEF UndoInv

(* Each undo_state leads back exactly to the database saved before it.     *)
THEOREM UndoExact == HSpec => []UndoIsExact
    <1>1. UndoInv => UndoIsExact
        <2> SUFFICES ASSUME UndoInv PROVE UndoIsExact
            OBVIOUS
        <2>1. /\ TypeOK /\ Db \in Database /\ Levels(stack, saved, Db)
            BY DbType DEF UndoInv
        <2>2. ASSUME NEW k \in 1 .. Len(stack)
              PROVE  LET later == After(stack, saved, Db, k)
                     IN  /\ RestoreObjects(stack[k], later.objects) = saved[k].objects
                         /\ RestoreNextIds(stack[k], later.next_id) = saved[k].next_id
            <3>1. stack[k] \in undo_state /\ saved[k] \in Database
                BY <2>1 DEF TypeOK, Levels
            <3>2. After(stack, saved, Db, k) \in Database
                BY <2>1 DEF TypeOK, Levels, After
            <3>3. Level(stack[k], saved[k], After(stack, saved, Db, k))
                BY <2>1 DEF Levels
            <3> QED BY <3>1, <3>2, <3>3, RestoreLevel
        <2> QED BY <2>1, <2>2 DEF UndoIsExact, Levels
    <1> QED BY <1>1, UndoInvariant, PTL

(* The N/A cells of the merge matrix do not occur.                         *)
THEOREM MergeCausal == HSpec => []MergeCellsAreCausal
    <1>1. UndoInv => MergeCellsAreCausal
        <2> SUFFICES ASSUME UndoInv, NEW k \in 1 .. (Len(stack) - 1), NEW id \in ObjectId
                     PROVE  /\ id \in stack[k + 1].new_ids =>
                                 /\ id \notin stack[k].new_ids
                                 /\ stack[k].old_values[id] = Absent
                                 /\ stack[k].removed[id] = Absent
                            /\ stack[k].removed[id] # Absent =>
                                 /\ stack[k + 1].old_values[id] = Absent
                                 /\ stack[k + 1].removed[id] = Absent
            BY DEF MergeCellsAreCausal
        <2>1. /\ TypeOK /\ Db \in Database /\ Levels(stack, saved, Db)
            BY DbType DEF UndoInv
        <2>a. /\ k \in 1 .. Len(stack) /\ k + 1 \in 1 .. Len(stack) /\ k # Len(stack)
              /\ Len(saved) = Len(stack)
            BY <2>1 DEF TypeOK, Levels
        <2>2. /\ stack[k] \in undo_state /\ stack[k + 1] \in undo_state
              /\ saved[k] \in Database /\ saved[k + 1] \in Database
              /\ After(stack, saved, Db, k + 1) \in Database
            BY <2>1, <2>a DEF TypeOK, After
        <2>3. /\ Level(stack[k], saved[k], saved[k + 1])
              /\ Level(stack[k + 1], saved[k + 1], After(stack, saved, Db, k + 1))
              /\ Sane(saved[k]) /\ Sane(saved[k + 1])
            BY <2>1, <2>a DEF Levels, After
        <2> QED BY <2>2, <2>3, CausalCells
    <1> QED BY <1>1, UndoInvariant, PTL

(* The undo log implements the stack of copies.                            *)
THEOREM UndoImplementsSnapshots == HSpec => ImplementsSnapshots
    <1>1. HInit => Abstract!Init
        BY InitInv, DbType DEF HInit, Init, UndoInv, Abstract!Init
    <1>2. UndoInv /\ UndoInv' /\ [HNext]_hvars => [Abstract!Next]_(Abstract!vars)
        <2> SUFFICES ASSUME UndoInv, UndoInv', [HNext]_hvars
                     PROVE  Abstract!Next \/ UNCHANGED <<Db, saved, active_sessions>>
            BY DEF Abstract!vars
        <2>a. TypeOK /\ TypeOK' /\ Len(saved) = Len(stack)
            BY DEF UndoInv, Levels
        <2>0. TypeOK /\ TypeOK' /\ Db' \in Database /\ Len(saved) = Len(stack)
            BY <2>a DEF TypeOK, Db, Database
        <2>1. CASE HObjects
            <3>1. active_sessions' = active_sessions
                BY <2>1, Zenon DEF HObjects, ObjectStep, create, modify, remove, use_next_id,
                            unchangedByObjects
            <3>2. saved' \in {saved, IF saved = <<>> THEN <<Db>> ELSE saved}
                BY <2>0, <2>1 DEF HObjects, TypeOK
            <3>3. Abstract!Change
                BY <2>0, <3>1, <3>2 DEF Abstract!Change
            <3> QED BY <3>3 DEF Abstract!Next
        <2>2. CASE HStart
            <3>1. /\ saved' = Append(Trim(saved, max_size), Db) /\ Db' = Db
                  /\ active_sessions' = active_sessions + 1
                  /\ active_sessions <= max_size
                BY <2>2 DEF HStart, start_undo_session, ClientStarts, Db
            <3>2. /\ max_size \in Nat /\ Len(saved) \in Nat /\ active_sessions \in Nat
                  /\ active_sessions <= Len(saved)
                BY <2>0, MaxSizesAssumption, BoundAssumption DEF TypeOK, UndoInv, SessionsHaveStates
            <3> DEFINE n == IF Len(saved) > max_size THEN Len(saved) - max_size ELSE 0
            <3>3. n \in 0 .. (Len(saved) - active_sessions)
                BY <3>1, <3>2
            <3>4. Trim(saved, max_size) = SubSeq(saved, n + 1, Len(saved))
                <4>1. CASE Len(saved) > max_size
                    BY <4>1, <3>2 DEF Trim
                <4>2. CASE ~(Len(saved) > max_size)
                    BY <4>2, <2>0, SubSeqFull DEF Trim, TypeOK
                <4> QED BY <4>1, <4>2
            <3> HIDE DEF n
            <3>5. Abstract!Open
                BY <3>1, <3>3, <3>4, Zenon DEF Abstract!Open
            <3> QED BY <3>5 DEF Abstract!Next
        <2>3. CASE HRestore
            <3>1. stack # <<>> /\ ~failed /\ ~failed'
                BY <2>3 DEF HRestore, undo, pop_commit, UndoInv, UndoNeverFails,
                            SessionsHaveStates, TypeOK
            <3>2. RestoreTop /\ saved' = Front(saved)
                BY <2>3, <3>1 DEF HRestore, undo, pop_commit
            <3>3. Db' = Last(saved)
                BY <3>1, <3>2, RestoreTopFacts
            <3>4. CASE undo
                <4>1. active_sessions' = active_sessions - 1 /\ active_sessions > 0
                    BY <3>1, <3>4 DEF undo, EndSession
                <4>2. Abstract!Rollback
                    BY <3>2, <3>3, <4>1 DEF Abstract!Rollback, Abstract!Last, Abstract!Front, Last, Front
                <4> QED BY <4>2 DEF Abstract!Next
            <3>5. CASE pop_commit
                <4>1. active_sessions' = active_sessions /\ active_sessions = 0 /\ saved # <<>>
                    BY <2>0, <3>1, <3>5 DEF pop_commit, TypeOK
                <4>2. Abstract!RollbackCommitted
                    BY <3>2, <3>3, <4>1
                    DEF Abstract!RollbackCommitted, Abstract!Last, Abstract!Front, Last, Front
                <4> QED BY <4>2 DEF Abstract!Next
            <3> QED BY <2>3, <3>4, <3>5 DEF HRestore
        <2>4. CASE HMerge
            <3>1. /\ active_sessions > 0 /\ active_sessions' = active_sessions - 1
                  /\ Db' = Db /\ saved' = Front(saved)
                BY <2>4 DEF HMerge, merge, EndSession, Db
            <3>2. Abstract!Keep
                BY <3>1 DEF Abstract!Keep, Abstract!Front, Front
            <3> QED BY <3>2 DEF Abstract!Next
        <2>5. CASE HControl
            <3>1. Db' = Db /\ saved' = saved
                BY <2>5 DEF HControl, commit, set_max_size, enable, disable, Db
            <3>2. CASE commit
                <4>1. active_sessions = 1 /\ active_sessions' = 0
                    BY <3>2 DEF commit, ClientCommits, EndSession
                <4>2. Abstract!Commit
                    BY <3>1, <4>1 DEF Abstract!Commit
                <4> QED BY <4>2 DEF Abstract!Next
            <3>3. CASE ~commit
                BY <2>5, <3>1, <3>3 DEF HControl, set_max_size, enable, disable
            <3> QED BY <3>2, <3>3
        <2>6. CASE UNCHANGED hvars
            BY <2>6 DEF hvars, vars, Db
        <2> QED BY <2>1, <2>2, <2>3, <2>4, <2>5, <2>6 DEF HNext
    <1> QED BY <1>1, <1>2, UndoInvariant, PTL DEF HSpec, ImplementsSnapshots, Abstract!Spec
=============================================================================
