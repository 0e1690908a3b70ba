---------------------------- MODULE ChainSynopsis ----------------------------
(***************************************************************************)
(* What two nodes tell each other about their chains: the synopsis of a    *)
(* chain and the list of block ids answered to one (the delegate functions *)
(* of application_impl and the part of node_impl that completes them).     *)
(*                                                                         *)
(* A chain is the sequence of its blocks, chain[n] having number n.  All   *)
(* three functions are pure: they read the chain at the moment the main    *)
(* thread runs them.                                                       *)
(***************************************************************************)
EXTENDS ForkDatabase

CONSTANTS
    IdsLimit,    \* the `limit' of get_block_ids (2000)
    UndoDepth    \* how many of the last blocks can be undone

ASSUME SynopsisAssumption == IdsLimit \in Nat \ {0, 1} /\ UndoDepth \in Nat

MinOf(a, b) == IF a < b THEN a ELSE b
MaxOf(a, b) == IF a > b THEN a ELSE b

BlocksOf(chain) == {chain[i] : i \in 1 .. Len(chain)}

last_non_undoable_block_num(chain) == AtLeastZero(Len(chain) - UndoDepth)

(* The numbers a synopsis visits: first `low', then each step covers half  *)
(* of what is left up to `top', and the visit ends above `limit'.          *)
Visited(low, limit, top) ==
    LET visit[n \in 1 .. top + 1] ==
            LET next == n + (top - n + 2) \div 2
            IN  <<n>> \o (IF next <= limit THEN visit[next] ELSE <<>>)
    IN  visit[low]

(* The number of blocks two chains have in common.                         *)
CommonPart(c, d) ==
    CHOOSE n \in 0 .. MinOf(Len(c), Len(d)) :
        /\ \A i \in 1 .. n : c[i] = d[i]
        /\ n < MinOf(Len(c), Len(d)) => c[n + 1] # d[n + 1]

(* get_blockchain_synopsis(reference_point, n) throws for a reference      *)
(* point the delegate has not seen, and refuses one on a fork that leaves  *)
(* our chain below what can be undone.                                     *)
SynopsisThrows(known, ref) == ref # Null /\ ref \notin known

ForkedTooLongAgo(chain, ref) ==
    /\ ref # Null
    /\ ref \notin BlocksOf(chain)
    /\ CommonPart(chain, Branch[ref]) < last_non_undoable_block_num(chain)

(* Otherwise it lists the chain that ends in the reference point (ours up  *)
(* to the fork, then the fork's), leaving room for n more blocks.          *)
get_blockchain_synopsis(chain, ref, n) ==
    LET path == IF ref = Null THEN chain ELSE Branch[ref]
        high == Len(path)
        low  == MaxOf(1, MinOf(last_non_undoable_block_num(chain), high))
        at   == Visited(low, high, high + n)
    IN  IF high = 0 THEN <<>> ELSE [i \in 1 .. Len(at) |-> path[at[i]]]

(* The node appends the ids it already has from the peer, at the places    *)
(* the same halving visits.                                                *)
create_blockchain_synopsis_for_peer(chain, ref, ids) ==
    LET syn   == get_blockchain_synopsis(chain, ref, Len(ids))
        first == num[ids[1]]
        low   == IF syn = <<>> THEN 1 ELSE num[syn[1]]
        high  == first + Len(ids) - 1
        at    == SelectSeq(Visited(low, high, high), LAMBDA n : n >= first)
    IN  IF ids = <<>> THEN syn
        ELSE syn \o [i \in 1 .. Len(at) |-> ids[at[i] - first + 1]]

(* get_block_ids: from the last block of the synopsis that is on our       *)
(* chain, at most IdsLimit ids, and how many blocks are left after them.   *)
(* With nothing in common it throws peer_is_on_an_unreachable_fork, which  *)
(* the node answers with an empty list.                                    *)
get_block_ids(chain, synopsis) ==
    LET shared == {i \in 1 .. Len(synopsis) : synopsis[i] \in BlocksOf(chain)}
        from   == IF shared = {} THEN 1
                  ELSE num[synopsis[CHOOSE i \in shared :
                                        \A j \in shared : j <= i]]
        upto   == MinOf(Len(chain), from + IdsLimit - 1)
    IN  IF synopsis # <<>> /\ shared = {}
        THEN [items |-> <<>>, remaining |-> 0]
        ELSE [items     |-> SubSeq(chain, from, upto),
              remaining |-> Len(chain) - upto]
===============================================================================
