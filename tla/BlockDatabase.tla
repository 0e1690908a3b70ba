----------------------------- MODULE BlockDatabase -----------------------------
(***************************************************************************)
(* graphene::chain::block_database: the blocks of the chain on disk, one   *)
(* file of blocks and one index file with an entry per block number.       *)
(*                                                                         *)
(* The state is a record: `entry[n]' is the block that fetch_by_number(n)  *)
(* returns, Null when it returns none (no entry, an entry of size 0, or one *)
(* whose block cannot be read back).  Both files are buffered streams that *)
(* every operation seeks in first, which writes out what is buffered; so   *)
(* when the process dies only the effect of the LAST store is in doubt,    *)
(* and `unsynced' remembers what it may have to be undone to.              *)
(***************************************************************************)
EXTENDS ForkDatabase

Height == {num[b] : b \in Block}

NothingUnsynced == [at |-> 0, was |-> Null]

block_database ==
    [entry    : [Height -> Block \cup {Null}],
     unsynced : [at : Height \cup {0}, was : Block \cup {Null}]]

EmptyBlockDatabase ==
    [entry |-> [n \in Height |-> Null], unsynced |-> NothingUnsynced]

store(d, b) ==
    [entry    |-> [d.entry EXCEPT ![num[b]] = b],
     unsynced |-> [at |-> num[b], was |-> d.entry[num[b]]]]

fetch_by_number(d, n) == IF n \in Height THEN d.entry[n] ELSE Null

(* last_index_entry: the highest number with a readable block, 0 if none.  *)
(* (It also truncates the unreadable entries above, which no other         *)
(* operation can tell from Null entries.)                                  *)
last(d) ==
    LET stored == {n \in Height : d.entry[n] # Null}
    IN  IF stored = {} THEN 0
        ELSE CHOOSE n \in stored : \A m \in stored : m <= n

(* Wrong: nothing is removed.                                              *)
remove_after_nothing(d, n) == d

(* reindex removes the last block until the last number is at most n.      *)
remove_after(d, n) ==
    [entry    |-> [m \in Height |-> IF m > n THEN Null ELSE d.entry[m]],
     unsynced |-> NothingUnsynced]

synced(d) == [d EXCEPT !.unsynced = NothingUnsynced]

(* What the next process may find: the last store complete, missing, or an *)
(* index entry that points at bytes which never reached the other file.    *)
AfterCrash(d) ==
    IF d.unsynced = NothingUnsynced THEN {d}
    ELSE {synced([d EXCEPT !.entry[d.unsynced.at] = b]) :
             b \in {d.entry[d.unsynced.at], d.unsynced.was, Null}}
=============================================================================
