----------------------------- MODULE ChainDatabase -----------------------------
(***************************************************************************)
(* graphene::chain::database seen as the keeper of one chain: blocks are   *)
(* pushed, applied, popped and re-applied when another fork gets longer;   *)
(* transactions wait in a pending session between blocks; the process      *)
(* stops, cleanly or not, and starts again from what is on disk.           *)
(*                                                                         *)
(* The object database is abstract here.  Its contents are determined by   *)
(* the blocks applied since genesis and the pending transactions applied   *)
(* on top, so a state of it is a record `object_database'; the undo log is *)
(* the stack of such states that SnapshotStack specifies and UndoDatabase  *)
(* is proved to implement.  Evaluation of a transaction is abstracted to   *)
(* what decides whether it applies: the transactions that must, and must   *)
(* not, have been applied before it.                                       *)
(*                                                                         *)
(* Everything runs in one thread, so a handler is not interrupted by       *)
(* another; it can be cut short by an exception or by the death of the     *)
(* process.  push_block is split at the points where a death leaves        *)
(* different files behind; `pc' says where the handler is.                 *)
(***************************************************************************)
EXTENDS BlockDatabase, FiniteSets

CONSTANTS
    Witness,            \* the active witnesses
    witness,            \* witness[b]: the witness that signed block b
    Tx,                 \* transactions
    transactions,       \* transactions[b]: the transactions of b, in order
    Requires,           \* Requires[t]: applied before t or t fails
    Excludes,           \* Excludes[t]: t fails once one of these is applied
    Invalid,            \* blocks whose header or evaluation fails
    FailsLate,          \* blocks that fail after update_global_dynamic_data
    Missigned,          \* blocks not signed by the scheduled witness
    Own,                \* blocks this node's witness may produce
    OutOfOrder,         \* TRUE: an empty fork database may be given any block
    Recent,             \* TRUE: block timestamps are less than a day old
    MinUndoHistory,     \* GRAPHENE_MIN_UNDO_HISTORY
    MaxUndoHistory,     \* GRAPHENE_MAX_UNDO_HISTORY
    MaxForkSize,        \* fork_database::_max_size before the first block
    MaxBlockTxs,        \* maximum_block_size, counted in transactions
    ReadAhead,          \* blocks reindex reads ahead of the one it applies
    Faults,             \* which of "crash", "damage" and "wipe" may happen
    MaxFaults           \* bound on how many of them happen

ASSUME ChainAssumption ==
    /\ Witness # {} /\ IsFiniteSet(Witness)
    /\ witness \in [Block -> Witness]
    /\ transactions \in [Block -> Seq(Tx)]
    /\ Requires \in [Tx -> SUBSET Tx] /\ Excludes \in [Tx -> SUBSET Tx]
    /\ Invalid \subseteq Block /\ FailsLate \subseteq Block
    /\ Missigned \subseteq Invalid /\ Own \subseteq Block
    /\ Recent \in BOOLEAN /\ OutOfOrder \in BOOLEAN
    /\ {MinUndoHistory, MaxUndoHistory, MaxForkSize, MaxBlockTxs,
        ReadAhead, MaxFaults} \subseteq Nat
    /\ MinUndoHistory > 1 /\ ReadAhead > 0
    /\ Faults \subseteq {"crash", "damage", "wipe"}

VARIABLES
    db,                 \* the state of the object database
    undo,               \* the states the undo log can return to, oldest first
    undo_max,           \* undo_database::_max_size
    fork,               \* _fork_db
    blocks,             \* _block_id_to_block
    pending_tx,         \* _pending_tx
    pending_session,    \* _pending_tx_session.valid()
    popped_tx,          \* _popped_tx
    saved_tx,           \* pending transactions kept by the restorer
    pc,                 \* what the process is doing
    caller,             \* who called push_block: "idle" or "reindex"
    threw,              \* push_block is being left by an exception
    new_branch,         \* branches.first of a fork switch, oldest first
    old_branch,         \* branches.second of a fork switch, oldest first
    queue,              \* blocks reindex has read and not yet applied
    next_block_num,     \* the next block reindex will read
    last_block_num,     \* the last block reindex will read
    cutoff,             \* where close stops rewinding
    object_files,       \* the object database on disk
    faults,             \* deaths, damages and wipes so far
    wrong_key           \* generate_block met a wrong key since the last push

switching == <<new_branch, old_branch>>
vars == <<db, undo, undo_max, fork, blocks, pending_tx, pending_session,
          popped_tx, saved_tx, pc, caller, threw, new_branch, old_branch, queue,
          next_block_num, last_block_num, cutoff, object_files, faults, wrong_key>>

-----------------------------------------------------------------------------
(* The object database: the blocks applied, last_irreversible_block_num,   *)
(* and the transactions of the pending session.                            *)
object_database ==
    [chain : Seq(Block), irreversible : Nat, applied : Seq(Tx)]

GenesisState == [chain |-> <<>>, irreversible |-> 0, applied |-> <<>>]

(* object_files holds one saved state, or none.                            *)
NoFiles == <<>>

Last(s) == s[Len(s)]
Front(s) == SubSeq(s, 1, Len(s) - 1)
Elements(s) == {s[i] : i \in 1..Len(s)}

(* Operators whose comment begins with "Wrong" are faulty versions of the  *)
(* one that follows; the properties are tested against them.               *)

(* Wrong: the newest states are dropped.                                   *)
Trim_newest(s, n) == IF Len(s) > n THEN SubSeq(s, 1, n) ELSE s

(* What start_undo_session leaves of the undo log.                         *)
Trim(s, n) == IF Len(s) > n THEN SubSeq(s, Len(s) - n + 1, Len(s)) ELSE s

head_block_num(d) == Len(d.chain)
head_block_id(d) == IF d.chain = <<>> THEN Null ELSE Last(d.chain)

(* The transactions is_known_transaction answers TRUE for.                 *)
Known(d) ==
    (UNION {Elements(transactions[d.chain[n]]) : n \in 1..Len(d.chain)})
        \cup Elements(d.applied)

TxApplies(t, known) ==
    t \notin known /\ Requires[t] \subseteq known /\ Excludes[t] \cap known = {}

AllApply(txs, known) ==
    \A i \in 1..Len(txs) :
        TxApplies(txs[i], known \cup {txs[j] : j \in 1..(i - 1)})

(* last_confirmed_block_num of a witness, as update_signing_witness keeps it. *)
last_confirmed_block_num(chain, w) ==
    LET signed == {n \in 1..Len(chain) : witness[chain[n]] = w}
    IN  IF signed = {} THEN 0 ELSE CHOOSE n \in signed : \A m \in signed : m <= n

(* Wrong: 70% of the witnesses are skipped, not 30%.                       *)
NewIrreversible_highest(chain) ==
    LET confirmed(w) == last_confirmed_block_num(chain, w)
        offset == (7000 * Cardinality(Witness)) \div 10000
        Enough(n) == Cardinality({w \in Witness : confirmed(w) <= n}) > offset
    IN  CHOOSE n \in {confirmed(w) : w \in Witness} :
            Enough(n) /\ \A w \in Witness : Enough(confirmed(w)) => n <= confirmed(w)

(* update_last_irreversible_block: the element that nth_element puts at    *)
(* offset 30% of the active witnesses, ordered by last confirmed block.    *)
NewIrreversible(chain) ==
    LET confirmed(w) == last_confirmed_block_num(chain, w)
        offset == ((10000 - 7000) * Cardinality(Witness)) \div 10000
        Enough(n) == Cardinality({w \in Witness : confirmed(w) <= n}) > offset
    IN  CHOOSE n \in {confirmed(w) : w \in Witness} :
            Enough(n) /\ \A w \in Witness : Enough(confirmed(w)) => n <= confirmed(w)

(* _apply_block.  `Rejects' is a throw before the sizes of the undo log and *)
(* of the fork database are set, FailsLate one after that.                 *)
Rejects(d, b) ==
    \/ b \in Invalid
    \/ previous[b] # head_block_id(d)
    \/ ~ AllApply(transactions[b], Known(d))
    \/ head_block_num(d) + 1 - d.irreversible >= MaxUndoHistory

ApplyThrows(d, b) == Rejects(d, b) \/ b \in FailsLate

apply_block(d, b) ==
    LET chain == Append(d.chain, b)
        irreversible == NewIrreversible(chain)
    IN  [chain |-> chain, applied |-> <<>>,
         irreversible |-> IF irreversible > d.irreversible THEN irreversible
                          ELSE d.irreversible]

(* update_global_dynamic_data: head - last irreversible + 1, where the last *)
(* irreversible block is the one before b is taken into account.           *)
HistorySize(d) == head_block_num(d) + 1 - d.irreversible + 1

(* Wrong: the undo log is one state shorter than its pending session needs. *)
undo_max_after_short(d, b) == IF Rejects(d, b) THEN undo_max ELSE HistorySize(d) - 1

undo_max_after(d, b) == IF Rejects(d, b) THEN undo_max ELSE HistorySize(d)

fork_after(d, b, f) == IF Rejects(d, b) THEN f ELSE fork_set_max_size(f, HistorySize(d))

(* update_witnesses gives the fork item of an applied block its schedule.  *)
update_witnesses(f, b) == [f EXCEPT !.scheduled = @ \cup ({b} \cap f.index)]

-----------------------------------------------------------------------------
(* _push_block, entered with the pending session already thrown away: d and *)
(* u are the object database and the undo log then.                        *)

(* Lines 118-125 and the exceptions of fork_database::_push_block.         *)
Refuses(b) ==
    \/ /\ Recent /\ fork.head # Null
       /\ \/ previous[b] \notin fork.index
          \/ previous[b] \in fork.scheduled /\ b \in Missigned
    \/ CannotPush(fork, b)

(* The handler ends here: the restorer's destructor runs next.             *)
Leave(exception) == pc' = "finish" /\ threw' = exception

RefuseBlock(b, d, u) ==
    /\ Refuses(b)
    /\ Leave(TRUE)
    /\ db' = d /\ undo' = u
    /\ UNCHANGED <<undo_max, fork, blocks, new_branch, old_branch>>

(* The longest branch does not build on the head, and is not longer.       *)
KeepFork(b, d, u) ==
    LET f == fork_push_block(fork, b)
    IN  /\ ~ Refuses(b)
        /\ previous[f.head] # head_block_id(d)
        /\ num[f.head] <= head_block_num(d)
        /\ Leave(FALSE)
        /\ fork' = f /\ db' = d /\ undo' = u
        /\ UNCHANGED <<undo_max, blocks, new_branch, old_branch>>

(* It is longer: switch, unless fetch_branch_from throws.                  *)
BeginSwitch(b, d, u) ==
    LET f == fork_push_block(fork, b)
        head == head_block_id(d)
    IN  /\ ~ Refuses(b)
        /\ previous[f.head] # head
        /\ num[f.head] > head_block_num(d)
        /\ fork' = f /\ db' = d /\ undo' = u
        /\ \/ /\ CannotFetchBranches(f, f.head, head)
              /\ Leave(TRUE)
              /\ UNCHANGED switching
           \/ /\ ~ CannotFetchBranches(f, f.head, head)
              /\ LET meet == Meet(f.head, head)
                 IN  /\ new_branch' = fetch_branch_from(f.head, meet)
                     /\ old_branch' = fetch_branch_from(head, meet)
              /\ pc' = "popping" /\ threw' = FALSE
        /\ UNCHANGED <<undo_max, blocks>>

(* It builds on the head: the pushed block is applied in a session that is *)
(* committed, or undone by its destructor.                                 *)
ExtendChain(b, d, u) ==
    LET f == fork_push_block(fork, b)
        sized == fork_after(d, b, f)
        log == Trim(u, undo_max)
    IN  /\ ~ Refuses(b)
        /\ previous[f.head] = head_block_id(d)
        /\ undo_max' = undo_max_after(d, b)
        /\ \/ /\ ~ ApplyThrows(d, b)
              /\ Leave(FALSE)
              /\ db' = apply_block(d, b)
              /\ undo' = Append(log, d)
              /\ fork' = IF Recent THEN update_witnesses(sized, f.head) ELSE sized
              /\ blocks' = store(blocks, b)
           \/ /\ ApplyThrows(d, b)
              /\ Leave(TRUE)
              /\ db' = d /\ undo' = log
              /\ fork' = fork_remove(sized, b)
              /\ UNCHANGED blocks
        /\ UNCHANGED switching

_push_block(b, d, u) ==
    \/ RefuseBlock(b, d, u)
    \/ KeepFork(b, d, u)
    \/ BeginSwitch(b, d, u)
    \/ ExtendChain(b, d, u)

(* _pending_tx_session.reset(): the session's destructor undoes it.        *)
ResetDb == IF pending_session THEN Last(undo) ELSE db
ResetUndo == IF pending_session THEN Front(undo) ELSE undo

(* push_block: the restorer takes _pending_tx, clear_pending drops the     *)
(* session, and _push_block runs.                                          *)
TakePending ==
    /\ saved_tx' = pending_tx
    /\ pending_tx' = <<>> /\ pending_session' = FALSE
    /\ caller' = pc
    /\ UNCHANGED <<popped_tx, cutoff, faults, wrong_key>>

(* The peers of a node that has no block yet, or none in its fork database, *)
(* send it the blocks in order (net/node.cpp synchronises that way).       *)
Delivers(b) == fork.head # Null \/ OutOfOrder \/ previous[b] = head_block_id(ResetDb)

push_block(b) ==
    /\ pc = "idle" /\ Delivers(b)
    /\ _push_block(b, ResetDb, ResetUndo)
    /\ TakePending
    /\ UNCHANGED <<queue, next_block_num, last_block_num, object_files>>

-----------------------------------------------------------------------------
(* pop_block: the head must be the head of the fork database, or be in it, *)
(* and pop_undo needs a state to return to.                                *)
ForkPopThrows(d, f) ==
    \/ f.head = Null
    \/ f.head = head_block_id(d) /\ CannotPop(f)
    \/ f.head # head_block_id(d) /\ head_block_id(d) \notin f.index

PopThrows == ForkPopThrows(db, fork) \/ undo = <<>>

ForkPopped == IF fork.head = head_block_id(db) THEN fork_pop_block(fork) ELSE fork

(* Wrong: the deduplication entries of a popped block's transactions stay. *)
pop_block_keeps_dedupe ==
    IF PopThrows
    THEN /\ fork' = IF ForkPopThrows(db, fork) THEN fork ELSE ForkPopped
         /\ UNCHANGED <<db, undo, popped_tx>>
    ELSE /\ fork' = ForkPopped
         /\ db' = [Last(undo) EXCEPT !.applied = transactions[head_block_id(db)]]
         /\ undo' = Front(undo)
         /\ popped_tx' = transactions[head_block_id(db)] \o popped_tx

pop_block ==
    IF PopThrows
    THEN /\ fork' = IF ForkPopThrows(db, fork) THEN fork ELSE ForkPopped
         /\ UNCHANGED <<db, undo, popped_tx>>
    ELSE /\ fork' = ForkPopped
         /\ db' = Last(undo) /\ undo' = Front(undo)
         /\ popped_tx' = transactions[head_block_id(db)] \o popped_tx

unchangedBySwitch == <<pending_tx, pending_session, saved_tx, caller, queue,
    next_block_num, last_block_num, cutoff, object_files, faults, wrong_key>>

AtForkPoint == head_block_id(db) = previous[old_branch[1]]

(* Pop the old branch, or the applied part of a new branch that failed.    *)
PopBranch ==
    /\ pc \in {"popping", "unwinding"} /\ ~ AtForkPoint
    /\ pop_block
    /\ IF PopThrows THEN Leave(TRUE) ELSE UNCHANGED <<pc, threw>>
    /\ UNCHANGED <<undo_max, blocks, new_branch, old_branch, unchangedBySwitch>>

Popped ==
    /\ pc \in {"popping", "unwinding"} /\ AtForkPoint
    /\ pc' = IF pc = "popping" THEN "pushing" ELSE "restoring"
    /\ UNCHANGED <<db, undo, undo_max, fork, blocks, popped_tx, threw,
                   new_branch, old_branch, unchangedBySwitch>>

(* The next block of a branch, and whether it is the last one.             *)
NextOf(branch) == branch[head_block_num(db) + 2 - num[branch[1]]]
IsLast_first(branch) == NextOf(branch) = branch[1]    \* Wrong: loops once
IsLast(branch) == NextOf(branch) = Last(branch)
RestOf(branch) == {branch[i] : i \in (head_block_num(db) + 2 - num[branch[1]])..Len(branch)}

(* One iteration of the loop over branches.first that succeeds.            *)
PushNewBranch ==
    LET b == NextOf(new_branch)
    IN  /\ pc = "pushing" /\ ~ ApplyThrows(db, b)
        /\ db' = apply_block(db, b)
        /\ undo' = Append(Trim(undo, undo_max), db)
        /\ undo_max' = undo_max_after(db, b)
        /\ fork' = update_witnesses(fork_after(db, b, fork), b)
        /\ blocks' = store(blocks, b)
        /\ IF IsLast(new_branch) THEN Leave(FALSE) ELSE UNCHANGED <<pc, threw>>
        /\ UNCHANGED <<popped_tx, new_branch, old_branch, unchangedBySwitch>>

(* One that throws: the rest of the branch is dropped from the fork        *)
(* database, whose head is again the old one.                              *)
NewBranchFails ==
    LET b == NextOf(new_branch)
    IN  /\ pc = "pushing" /\ ApplyThrows(db, b)
        /\ undo' = Trim(undo, undo_max)
        /\ undo_max' = undo_max_after(db, b)
        /\ fork' = set_head(RemoveAll(fork_after(db, b, fork), RestOf(new_branch)),
                            Last(old_branch))
        /\ pc' = "unwinding"
        /\ UNCHANGED <<db, blocks, popped_tx, threw, new_branch, old_branch,
                       unchangedBySwitch>>

(* Re-apply the old branch; an exception here is not caught.               *)
RestoreOldBranch ==
    LET b == NextOf(old_branch)
        throws == ApplyThrows(db, b)
    IN  /\ pc = "restoring"
        /\ db' = IF throws THEN db ELSE apply_block(db, b)
        /\ undo' = IF throws THEN Trim(undo, undo_max)
                   ELSE Append(Trim(undo, undo_max), db)
        /\ undo_max' = undo_max_after(db, b)
        /\ fork' = fork_after(db, b, fork)
        /\ blocks' = IF throws THEN blocks ELSE store(blocks, b)
        /\ IF throws \/ IsLast(old_branch) THEN Leave(TRUE)
           ELSE UNCHANGED <<pc, threw>>
        /\ UNCHANGED <<popped_tx, new_branch, old_branch, unchangedBySwitch>>

-----------------------------------------------------------------------------
(* Pending transactions.                                                   *)

(* The transactions of a list that get applied when each is tried in turn, *)
(* at most `limit' of them, on a state in which `known' have been applied. *)
AppliedInTurn(txs, known, limit) ==
    LET after[i \in 0..Len(txs)] ==
            IF i = 0 THEN <<>>
            ELSE LET sofar == after[i - 1]
                 IN  IF /\ Len(sofar) < limit
                        /\ TxApplies(txs[i], known \cup Elements(sofar))
                     THEN Append(sofar, txs[i]) ELSE sofar
    IN  after[Len(txs)]

(* _push_transaction: the pending session is opened when there is none;    *)
(* inside it each transaction has a session of its own that is merged into *)
(* it, or undone.  All that is left of that one in the undo log is what    *)
(* opening it trimmed.                                                     *)
UndoWithPending(d, u, open) ==
    Trim(IF open THEN u ELSE Append(Trim(u, undo_max), d), undo_max)

(* Wrong: transactions are kept before it is known that they apply.        *)
Queue_all(txs) ==
    LET accepted == AppliedInTurn(txs, Known(db), Len(txs))
    IN  /\ undo' = UndoWithPending(db, undo, pending_session)
        /\ db' = [db EXCEPT !.applied = @ \o accepted]
        /\ pending_tx' = pending_tx \o txs
        /\ pending_session' = TRUE

Queue(txs) ==
    LET accepted == AppliedInTurn(txs, Known(db), Len(txs))
    IN  /\ undo' = UndoWithPending(db, undo, pending_session)
        /\ db' = [db EXCEPT !.applied = @ \o accepted]
        /\ pending_tx' = pending_tx \o accepted
        /\ pending_session' = TRUE

unchangedByTx == <<undo_max, fork, blocks, popped_tx, saved_tx, pc, caller, threw,
    new_branch, old_branch, queue, next_block_num, last_block_num, cutoff,
    object_files, faults, wrong_key>>

push_transaction(t) ==
    /\ pc = "idle"
    /\ Queue(<<t>>)
    /\ UNCHANGED unchangedByTx

(* The destructor of pending_transactions_restorer: first the transactions *)
(* of popped blocks, then those that were pending, are pushed unless they  *)
(* are known.  Then push_block returns, or its exception leaves reindex,   *)
(* and open with it.                                                       *)
ToRestore_swapped == saved_tx \o popped_tx    \* Wrong: pending ones first
ToRestore == popped_tx \o saved_tx

FinishPush ==
    /\ pc = "finish"
    /\ IF Elements(ToRestore) \subseteq Known(db)
       THEN UNCHANGED <<db, undo, pending_tx, pending_session>>
       ELSE Queue(ToRestore)
    /\ popped_tx' = <<>> /\ saved_tx' = <<>> /\ wrong_key' = FALSE
    /\ new_branch' = <<>> /\ old_branch' = <<>>
    /\ pc' = IF caller = "reindex" /\ threw THEN "stopping" ELSE caller
    /\ caller' = "idle" /\ threw' = FALSE
    /\ UNCHANGED <<undo_max, fork, blocks, queue, next_block_num, last_block_num,
                   cutoff, object_files, faults>>

(* The transactions generate_block packs: in order, each that still        *)
(* applies, while there is room.                                           *)
Packed(d) == AppliedInTurn(pending_tx, Known(d), MaxBlockTxs)

(* The undo log after the session in which the block was assembled, with   *)
(* one inner session per transaction that fits, has been undone.           *)
AssemblyUndo(d, u) ==
    LET opened == Append(Trim(u, undo_max), d)
    IN  IF pending_tx # <<>> /\ MaxBlockTxs > 0
        THEN Front(Trim(opened, undo_max)) ELSE Front(opened)

(* generate_block, with the key of the scheduled witness: assemble a block *)
(* and push it.  _pending_tx still holds every pending transaction then.   *)
generate_block(b) ==
    /\ pc = "idle"
    /\ b \in Own \ fork.index
    /\ previous[b] = head_block_id(ResetDb)
    /\ transactions[b] = Packed(ResetDb)
    /\ _push_block(b, ResetDb, AssemblyUndo(ResetDb, ResetUndo))
    /\ saved_tx' = pending_tx
    /\ pending_tx' = <<>> /\ pending_session' = FALSE
    /\ caller' = pc
    /\ UNCHANGED <<popped_tx, queue, next_block_num, last_block_num, cutoff,
                   object_files, faults, wrong_key>>

(* With another key it throws once the pending session is gone.  (Bound:   *)
(* once between two pushes; each time, transactions that are pending can   *)
(* be queued again.)                                                       *)
generate_block_wrong_key ==
    /\ pc = "idle" /\ Own # {} /\ ~ wrong_key
    /\ db' = ResetDb /\ undo' = ResetUndo
    /\ pending_session' = FALSE
    /\ wrong_key' = TRUE
    /\ UNCHANGED <<undo_max, fork, blocks, pending_tx, popped_tx, saved_tx, pc,
                   caller, threw, new_branch, old_branch, queue, next_block_num,
                   last_block_num, cutoff, object_files, faults>>

-----------------------------------------------------------------------------
(* close: rewind to the last irreversible block, as far as the undo log    *)
(* and the fork database allow, and write the object database.             *)
close ==
    /\ pc = "idle"
    /\ db' = ResetDb /\ undo' = ResetUndo
    /\ pending_tx' = <<>> /\ pending_session' = FALSE
    /\ cutoff' = ResetDb.irreversible
    /\ pc' = "rewinding"
    /\ UNCHANGED <<undo_max, fork, blocks, popped_tx, saved_tx, caller, threw,
                   new_branch, old_branch, queue, next_block_num, last_block_num,
                   object_files, faults, wrong_key>>

(* Wrong: an exception of pop_block is ignored and the loop goes on.       *)
Rewind_ignores ==
    /\ pc = "rewinding"
    /\ IF head_block_num(db) > cutoff
       THEN IF PopThrows THEN UNCHANGED <<db, undo, fork, popped_tx, pc>>
            ELSE /\ db' = Last(undo) /\ undo' = Front(undo)
                 /\ fork' = fork_remove(ForkPopped, head_block_id(db))
                 /\ popped_tx' = transactions[head_block_id(db)] \o popped_tx
                 /\ UNCHANGED pc
       ELSE pc' = "flushing" /\ UNCHANGED <<db, undo, fork, popped_tx>>
    /\ UNCHANGED <<undo_max, blocks, pending_tx, pending_session, saved_tx, caller,
                   threw, new_branch, old_branch, queue, next_block_num,
                   last_block_num, cutoff, object_files, faults, wrong_key>>

Rewind ==
    /\ pc = "rewinding"
    /\ IF head_block_num(db) > cutoff /\ ~ PopThrows
       THEN /\ db' = Last(undo) /\ undo' = Front(undo)
            /\ fork' = fork_remove(ForkPopped, head_block_id(db))
            /\ popped_tx' = transactions[head_block_id(db)] \o popped_tx
            /\ UNCHANGED pc
       ELSE /\ pc' = "flushing"
            /\ UNCHANGED <<db, undo, fork, popped_tx>>
    /\ UNCHANGED <<undo_max, blocks, pending_tx, pending_session, saved_tx, caller,
                   threw, new_branch, old_branch, queue, next_block_num,
                   last_block_num, cutoff, object_files, faults, wrong_key>>

(* What a process that is not running remembers: nothing.                  *)
Forget ==
    /\ db' = GenesisState /\ undo' = <<>> /\ undo_max' = MinUndoHistory
    /\ fork' = EmptyForkDatabase(MaxForkSize)
    /\ pending_tx' = <<>> /\ pending_session' = FALSE
    /\ popped_tx' = <<>> /\ saved_tx' = <<>>
    /\ caller' = "idle" /\ threw' = FALSE
    /\ new_branch' = <<>> /\ old_branch' = <<>>
    /\ queue' = <<>> /\ next_block_num' = 0 /\ last_block_num' = 0
    /\ cutoff' = 0 /\ wrong_key' = FALSE
    /\ pc' = "down"

(* object_database::flush, and the end of the process.                     *)
Flush ==
    /\ pc = "flushing"
    /\ object_files' = <<db>>
    /\ blocks' = synced(blocks)
    /\ Forget
    /\ UNCHANGED faults

-----------------------------------------------------------------------------
(* open: load the object database, or start from genesis, and let reindex  *)
(* apply the blocks on disk above it.                                      *)
undo_point ==
    IF last_block_num < MaxUndoHistory THEN 0 ELSE last_block_num - MaxUndoHistory

unchangedByOpen == <<undo, undo_max, pending_tx, pending_session, popped_tx, saved_tx,
    caller, threw, new_branch, old_branch, queue, blocks, cutoff, object_files,
    faults, wrong_key>>

Loaded == IF object_files = NoFiles THEN GenesisState ELSE object_files[1]

(* *last_block >= head_block_id(): identifiers start with the number, so   *)
(* they compare by number first; between two blocks of one height the      *)
(* comparison may come out either way.                                     *)
MayOpen(d) ==
    LET n == last(blocks)
    IN  n = 0 \/ n >= head_block_num(d)

(* Wrong: the block on disk has to be newer (> for >=).                    *)
MayRefuse_equal(d) == last(blocks) # 0 /\ last(blocks) <= head_block_num(d)

MayRefuse(d) ==
    LET n == last(blocks)
    IN  /\ n # 0
        /\ \/ n < head_block_num(d)
           \/ n = head_block_num(d) /\ blocks.entry[n] # head_block_id(d)

(* Nothing on disk is newer than the object database: reindex returns at   *)
(* once, and the fork database stays empty.                                *)
OpenNothingNewer ==
    /\ pc = "down" /\ MayOpen(Loaded)
    /\ last(blocks) <= head_block_num(Loaded)
    /\ db' = Loaded
    /\ pc' = "idle"
    /\ UNCHANGED <<fork, next_block_num, last_block_num, unchangedByOpen>>

(* reindex up to its loop.  Without the object database's head block on    *)
(* disk it would dereference an empty optional, which stops the process.   *)
OpenAndReindex ==
    LET n == head_block_num(Loaded)
        first_undo == IF last(blocks) < MaxUndoHistory THEN 0
                      ELSE last(blocks) - MaxUndoHistory
        starts == n > 0 /\ n >= first_undo
        on_disk == fetch_by_number(blocks, n)
    IN  /\ pc = "down" /\ MayOpen(Loaded)
        /\ last(blocks) > n
        /\ db' = Loaded
        /\ next_block_num' = n + 1 /\ last_block_num' = last(blocks)
        /\ IF starts /\ on_disk = Null
           THEN pc' = "stopping" /\ UNCHANGED fork
           ELSE /\ pc' = "reindex"
                /\ fork' = IF starts THEN start_block(fork, on_disk) ELSE fork
        /\ UNCHANGED unchangedByOpen

OpenRefused ==
    /\ pc = "down" /\ MayRefuse(Loaded)
    /\ pc' = "stopping"
    /\ UNCHANGED <<db, fork, next_block_num, last_block_num, unchangedByOpen>>

(* The loop of reindex: read ahead while there is room in the queue.       *)
CanRead == next_block_num <= last_block_num /\ Len(queue) < ReadAhead

unchangedByReading == <<db, undo, undo_max, fork, pending_tx, pending_session, popped_tx,
    saved_tx, pc, caller, threw, new_branch, old_branch, last_block_num, cutoff,
    object_files, faults, wrong_key>>

ReadBlock ==
    /\ pc = "reindex" /\ CanRead
    /\ fetch_by_number(blocks, next_block_num) # Null
    /\ queue' = Append(queue, fetch_by_number(blocks, next_block_num))
    /\ next_block_num' = next_block_num + 1
    /\ UNCHANGED <<blocks, unchangedByReading>>

(* i, the number of the block at the front of the queue.                   *)
i_block == next_block_num - Len(queue)

(* A gap: drop the blocks above i from disk, and read no more.             *)
ReadGap ==
    /\ pc = "reindex" /\ CanRead
    /\ fetch_by_number(blocks, next_block_num) = Null
    /\ blocks' = remove_after(blocks, i_block)
    /\ next_block_num' = last_block_num + 1
    /\ UNCHANGED <<queue, unchangedByReading>>

FlushesFirst_always == num[Head(queue)] >= undo_point    \* Wrong: >= for =
FlushesFirst == num[Head(queue)] = undo_point

(* A block below the undo point is applied for good: no undo session, no   *)
(* fork database.                                                          *)
ReplayWithoutUndo ==
    LET b == Head(queue)
    IN  /\ pc = "reindex" /\ ~ CanRead /\ queue # <<>>
        /\ num[b] < undo_point
        /\ queue' = Tail(queue)
        /\ undo_max' = undo_max_after(db, b)
        /\ fork' = fork_after(db, b, fork)
        /\ IF ApplyThrows(db, b) THEN pc' = "stopping" /\ UNCHANGED db
           ELSE db' = apply_block(db, b) /\ UNCHANGED pc
        /\ UNCHANGED <<undo, blocks, pending_tx, pending_session, popped_tx, saved_tx,
                       caller, threw, new_branch, old_branch, next_block_num,
                       last_block_num, cutoff, object_files, faults, wrong_key>>

(* From the undo point on blocks are pushed; the object database is        *)
(* written first when the undo point itself is reached.                    *)
ReplayBlock ==
    LET b == Head(queue)
    IN  /\ pc = "reindex" /\ ~ CanRead /\ queue # <<>>
        /\ num[b] >= undo_point
        /\ queue' = Tail(queue)
        /\ object_files' = IF FlushesFirst THEN <<db>> ELSE object_files
        /\ _push_block(b, ResetDb, ResetUndo)
        /\ TakePending
        /\ UNCHANGED <<next_block_num, last_block_num>>

ReindexDone ==
    /\ pc = "reindex" /\ ~ CanRead /\ queue = <<>>
    /\ pc' = "idle"
    /\ UNCHANGED <<db, undo, undo_max, fork, blocks, pending_tx, pending_session,
                   popped_tx, saved_tx, caller, threw, new_branch, old_branch, queue,
                   next_block_num, last_block_num, cutoff, object_files, faults,
                   wrong_key>>

(* open threw: the application reports it and ends.                        *)
StartupFails ==
    /\ pc = "stopping"
    /\ blocks' = synced(blocks)
    /\ Forget
    /\ UNCHANGED <<object_files, faults>>

-----------------------------------------------------------------------------
(* The environment: the process is killed, a block file is damaged while   *)
(* no process runs, the operator wipes the object database (--replay) or   *)
(* everything (--resync).                                                  *)

(* flush renames the old directory away before it renames the new one into *)
(* place; a death in between leaves no object database.                    *)
WritingFiles ==
    \/ pc = "flushing"
    \/ pc = "reindex" /\ ~ CanRead /\ queue # <<>> /\ FlushesFirst

Fault(kind) == kind \in Faults /\ faults < MaxFaults /\ faults' = faults + 1

Crash ==
    /\ pc # "down"
    /\ Fault("crash")
    /\ blocks' \in AfterCrash(blocks)
    /\ object_files' \in {object_files} \cup (IF WritingFiles THEN {NoFiles} ELSE {})
    /\ Forget

unchangedOffline == <<db, undo, undo_max, fork, pending_tx, pending_session, popped_tx,
    saved_tx, pc, caller, threw, new_branch, old_branch, queue, next_block_num,
    last_block_num, cutoff, wrong_key>>

DamageBlock(n) ==
    /\ pc = "down" /\ blocks.entry[n] # Null
    /\ Fault("damage")
    /\ blocks' = [blocks EXCEPT !.entry[n] = Null]
    /\ UNCHANGED <<object_files, unchangedOffline>>

wipe(include_blocks) ==
    /\ pc = "down"
    /\ Fault("wipe")
    /\ object_files' = NoFiles
    /\ blocks' = IF include_blocks THEN EmptyBlockDatabase ELSE blocks
    /\ UNCHANGED unchangedOffline

-----------------------------------------------------------------------------
(* A node that has opened an empty data directory.                         *)
Init ==
    /\ db = GenesisState /\ undo = <<>> /\ undo_max = MinUndoHistory
    /\ fork = EmptyForkDatabase(MaxForkSize)
    /\ blocks = EmptyBlockDatabase /\ object_files = NoFiles
    /\ pending_tx = <<>> /\ pending_session = FALSE
    /\ popped_tx = <<>> /\ saved_tx = <<>>
    /\ pc = "idle" /\ caller = "idle" /\ threw = FALSE
    /\ new_branch = <<>> /\ old_branch = <<>>
    /\ queue = <<>> /\ next_block_num = 0 /\ last_block_num = 0 /\ cutoff = 0
    /\ faults = 0 /\ wrong_key = FALSE

(* The steps of a handler that is running.                                 *)
Switch ==
    \/ PopBranch \/ Popped
    \/ PushNewBranch \/ NewBranchFails \/ RestoreOldBranch
    \/ FinishPush

Start ==
    \/ OpenNothingNewer \/ OpenAndReindex \/ OpenRefused
    \/ ReadBlock \/ ReadGap \/ ReplayWithoutUndo \/ ReplayBlock \/ ReindexDone
    \/ StartupFails

Stop == close \/ Rewind \/ Flush

Environment ==
    \/ Crash
    \/ \E n \in Height : DamageBlock(n)
    \/ \E include_blocks \in BOOLEAN : wipe(include_blocks)

Arrival ==
    \/ \E b \in Block : push_block(b)
    \/ \E t \in Tx : push_transaction(t)
    \/ \E b \in Block : generate_block(b)
    \/ generate_block_wrong_key

Next == Arrival \/ Switch \/ Stop \/ Start \/ Environment

(* A running handler runs to its end: one thread, no waiting.              *)
Fairness == WF_vars(Switch \/ Rewind \/ Flush \/ (pc # "down" /\ Start))

Spec == Init /\ [][Next]_vars /\ Fairness
=============================================================================
