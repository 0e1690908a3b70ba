---------------------------- MODULE ChainProperties ----------------------------
(***************************************************************************)
(* What the chain database promises, stated over ChainDatabase.            *)
(***************************************************************************)
EXTENDS ChainDatabase

(* Between handlers the head of the fork database is the head of the chain *)
(* (a fork database just cleared has none), and the fork database is a     *)
(* linked tree: the node can walk from every block it knows to where that  *)
(* block's branch leaves the chain (and so switch to it), unless the       *)
(* branch leaves it below the last irreversible block.                     *)
ForkDatabaseFollowsChain ==
    pc = "idle" =>
        /\ fork.head \in {Null, head_block_id(db)}
        /\ \A b \in fork.index :
            (head_block_id(db) \in fork.index /\ db.irreversible < num[b]
                /\ \A n \in 1..db.irreversible : Branch[b][n] = db.chain[n])
            => ~ CannotFetchBranches(fork, b, head_block_id(db))

(* A push_block that throws has restored the chain: the head of the chain  *)
(* and of the fork database are what they were.                            *)
FailedPushIsUnwound ==
    pc = "finish" /\ threw =>
        /\ old_branch # <<>> => head_block_id(db) = Last(old_branch)
        /\ fork.head \in {Null, head_block_id(db)}

(* Every block above the last irreversible one of the branch being left    *)
(* can be popped, whatever the pending and temporary sessions opened since *)
(* pushed out of the undo log, and whatever was pruned from the fork       *)
(* database: a switch is not interrupted by an exception of pop_block.     *)
SwitchCanPop ==
    /\ pc = "popping" /\ ~ AtForkPoint
    /\ num[old_branch[1]] > NewIrreversible(Branch[Last(old_branch)])
    => ~ PopThrows

(* The old branch applies again after a failed switch.                     *)
OldBranchAppliesAgain ==
    pc = "restoring" => ~ ApplyThrows(db, NextOf(old_branch))

(* Popping returns to the state of the previous block: the undo log holds  *)
(* the states after the last blocks of the chain, without a gap, and below *)
(* the pending session the state of the head itself.                       *)
UndoHasNoGap ==
    \A k \in 1..Len(ResetUndo) :
        LET height == Len(ResetDb.chain) - Len(ResetUndo) + k - 1
        IN  /\ height >= 0
            /\ ResetUndo[k].chain = SubSeq(ResetDb.chain, 1, height)
            /\ ResetUndo[k].applied = <<>>

(* Between handlers it also reaches down to the last irreversible block,   *)
(* or to the block whose state was loaded from disk.                       *)
UndoFollowsChain ==
    /\ UndoHasNoGap
    /\ pc = "idle" =>
           \/ Len(ResetUndo) >= head_block_num(db) - db.irreversible
           \/ Len(ResetUndo) >= head_block_num(db) - head_block_num(Loaded)

(* The pending session is the result of applying _pending_tx to the head   *)
(* (the invariant db_block.cpp speaks of), except after generate_block was *)
(* called with a wrong key and until the next push_block.                  *)
PendingSessionMatches ==
    pc = "idle" /\ ~ wrong_key =>
        /\ db.applied = pending_tx
        /\ pending_tx # <<>> => pending_session
        /\ ResetDb = [db EXCEPT !.applied = <<>>]

(* push_block loses no transaction: what was pending, and what was in the  *)
(* blocks of the branch that was left, is afterwards in the chain or       *)
(* pending, unless it can no longer be applied.                            *)
OldTransactions ==
    Elements(saved_tx) \cup
        UNION {Elements(transactions[b]) : b \in Elements(old_branch)}

NoTransactionIsLost ==
    [][pc = "finish" /\ pc' = "idle" =>
        \A t \in OldTransactions : t \in Known(db)' \/ ~ TxApplies(t, Known(db)')]_vars

(* The blocks of the chain are on disk, by number, at every moment.        *)
ChainIsOnDisk ==
    \A n \in 1..head_block_num(db) : blocks.entry[n] = db.chain[n]

(* Between handlers nothing else is: fork switches that succeed, fail or   *)
(* were cut short by a restart leave no block of another fork.             *)
DiskHoldsChain ==
    pc = "idle" =>
        /\ ChainIsOnDisk
        /\ \A n \in Height : n > head_block_num(db) => blocks.entry[n] = Null

(* The blocks on disk follow each other.                                   *)
DiskIsLinked ==
    \A n \in Height :
        /\ blocks.entry[n] # Null /\ n > 1 /\ fetch_by_number(blocks, n - 1) # Null
        => previous[blocks.entry[n]] = blocks.entry[n - 1]

(* open fails only when the process died in the middle of a fork switch:   *)
(* the blocks it finds belong to two forks.                                *)
OpenFailsOnlyOnMixedForks == pc = "stopping" => ~ DiskIsLinked

(* open fails only when the blocks on disk belong to two forks, or when a  *)
(* block of the saved object database is missing among them: a damaged     *)
(* block above that is a gap that reindex copes with.                      *)
OpenFailsOnlyOnBrokenFiles ==
    pc = "stopping" =>
        \/ ~ DiskIsLinked
        \/ \E n \in 1..head_block_num(Loaded) : blocks.entry[n] # Loaded.chain[n]

(* Should the process die now, the next one finds every block that is      *)
(* irreversible, also in the middle of a fork switch and with the last     *)
(* write to the block files lost.                                          *)
IrreversibleIsDurable ==
    pc # "down" =>
        \A files \in AfterCrash(blocks) : \A n \in 1..db.irreversible :
            files.entry[n] = db.chain[n]

(* The object database on disk is a state the chain went through: a fork   *)
(* switch never leaves it behind on the other branch, where reindex could  *)
(* not start from it.                                                      *)
SavedStateStaysOnChain ==
    pc \in {"idle", "popping", "pushing", "unwinding", "restoring", "finish"} =>
        LET saved == Loaded.chain
        IN  Len(saved) <= Len(ResetDb.chain) /\ saved = SubSeq(ResetDb.chain, 1, Len(saved))

(* A handler, once started, ends: the node is idle again or stops.         *)
HandlersEnd == (pc \notin {"idle", "down"}) ~> (pc \in {"idle", "down"})
=============================================================================
