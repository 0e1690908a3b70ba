----------------------------- MODULE ForkDatabase -----------------------------
(***************************************************************************)
(* graphene::chain::fork_database: the blocks a node has recently seen, on *)
(* every fork, each linked to its predecessor by a weak pointer.           *)
(*                                                                         *)
(* The fork database never runs by itself: chain::database calls it inside *)
(* its own handlers.  Its state is therefore a record, and each operation  *)
(* is an operator from a record to a record (or a predicate saying that it *)
(* throws), used by the actions of ChainDatabase.                          *)
(*                                                                         *)
(* A block is an opaque identifier; `previous' and `num' are the header    *)
(* fields the code reads from it.  A fork_item's weak pointer `prev' locks *)
(* exactly while the item it was set to is alive.  Items are kept alive by *)
(* the index (a branch held by a running fork switch never has its `prev'  *)
(* followed again), so `linked' is the set of items whose `prev' locks:    *)
(* erasing an item expires the pointer of every child, for good, even when *)
(* the same block is inserted again later.                                 *)
(***************************************************************************)
EXTENDS Integers, Sequences

CONSTANTS
    Block,      \* the identifiers of the blocks that exist anywhere
    Null,       \* block_id_type(): what block 1 has as previous; no block
    previous,   \* previous[b]: the block b builds on, or Null
    num         \* num[b]: the block number, stored in the identifier itself

(* block_num() is num_from_id(previous) + 1 (protocol/block.hpp).          *)
ASSUME BlockAssumption ==
    /\ Null \notin Block
    /\ previous \in [Block -> Block \cup {Null}]
    /\ num \in [Block -> Nat]
    /\ \A b \in Block :
          num[b] = IF previous[b] = Null THEN 1 ELSE num[previous[b]] + 1

fork_database ==
    [index     : SUBSET Block,          \* _index
     linked    : SUBSET Block,          \* items whose prev.lock() succeeds
     scheduled : SUBSET Block,          \* items with scheduled_witnesses set
     head      : Block \cup {Null},     \* _head
     max_size  : Nat]                   \* _max_size

AtLeastZero(n) == IF n > 0 THEN n ELSE 0

EmptyForkDatabase(size) ==
    [index |-> {}, linked |-> {}, scheduled |-> {}, head |-> Null,
     max_size |-> size]

(* The branch that ends in b, oldest block first: Branch[b][n] has number n. *)
Branch[b \in Block] ==
    IF previous[b] = Null THEN <<b>> ELSE Append(Branch[previous[b]], b)

Erase(f, gone) ==
    [f EXCEPT !.index     = @ \ gone,
              !.linked    = {b \in @ \ gone : previous[b] \notin gone},
              !.scheduled = @ \ gone]

(* Everything below `lowest' leaves the index; the head never does.        *)
Prune(f, lowest) == Erase(f, {b \in f.index : num[b] < lowest})

start_block(f, b) == [f EXCEPT !.index = @ \cup {b}, !.head = b]

set_head(f, b) == [f EXCEPT !.head = b]

(* fork_pop_block throws when the predecessor of the head is not linked.        *)
CannotPop(f) == f.head = Null \/ f.head \notin f.linked

fork_pop_block(f) == [f EXCEPT !.head = previous[f.head]]

(* fork_remove: the head is popped, or reset when its predecessor is unknown.   *)
fork_remove(f, b) ==
    LET erased == Erase(f, {b})
    IN  IF f.head # b THEN erased
        ELSE [erased EXCEPT !.head = IF CannotPop(f) THEN Null ELSE previous[b]]

RemoveAll(f, blocks) == Erase(f, blocks)

(* _push_block refuses blocks below the window, and unlinkable ones.       *)
TooOld(f, b) ==
    f.head # Null /\ num[b] <= AtLeastZero(num[f.head] - f.max_size)

Unlinkable(f, b) ==
    f.head # Null /\ previous[b] # Null /\ previous[b] \notin f.index

CannotPush(f, b) == TooOld(f, b) \/ Unlinkable(f, b)

(* Wrong: only the longest branch is linked.                               *)
fork_push_block_links_head(f, b) ==
    LET higher == f.head # Null /\ num[b] > num[f.head]
        inserted == [f EXCEPT !.index = @ \cup {b},
                              !.linked = IF higher THEN @ \cup {b} ELSE @]
    IN  IF f.head = Null THEN [inserted EXCEPT !.head = b]
        ELSE IF higher
        THEN Prune([inserted EXCEPT !.head = b], AtLeastZero(num[b] - f.max_size))
        ELSE inserted

(* _push_block on a block it accepts.  Inserting a block the index already *)
(* holds leaves the old item in place.                                     *)
fork_push_block(f, b) ==
    LET inserted ==
            IF b \in f.index THEN f
            ELSE [f EXCEPT !.index  = @ \cup {b},
                           !.linked = IF f.head = Null \/ previous[b] = Null
                                      THEN @ ELSE @ \cup {b}]
    IN  IF f.head = Null THEN [inserted EXCEPT !.head = b]
        ELSE IF num[b] > num[f.head]
        THEN Prune([inserted EXCEPT !.head = b],
                   AtLeastZero(num[b] - f.max_size))
        ELSE inserted

fork_set_max_size(f, size) ==
    LET resized == [f EXCEPT !.max_size = size]
    IN  IF f.head = Null THEN resized
        ELSE Prune(resized, AtLeastZero(num[f.head] - size))

(* fetch_branch_from walks both branches back to the highest number at     *)
(* which they have the same predecessor.                                   *)
Meet(first, second) ==
    CHOOSE n \in 1..num[first] :
        LET Same(k) == /\ k <= num[second]
                       /\ previous[Branch[first][k]] = previous[Branch[second][k]]
        IN  Same(n) /\ \A k \in 1..num[first] : Same(k) => k <= n

(* The items of b's branch whose prev pointer the walk follows.            *)
Walked(b, meet) == {Branch[b][n] : n \in (meet + 1)..num[b]}

CannotFetchBranches(f, first, second) ==
    {first, second} \subseteq f.index =>
        LET meet == Meet(first, second)
        IN  ~ (Walked(first, meet) \cup Walked(second, meet) \subseteq f.linked)

(* One branch of the result, oldest block first.                           *)
fetch_branch_from(b, meet) == SubSeq(Branch[b], meet, num[b])
=============================================================================
