---------------------------- MODULE SyncProperties ----------------------------
(***************************************************************************)
(* What block synchronisation promises, with peers that run the same code: *)
(* they answer from the chain they have.                                   *)
(***************************************************************************)
EXTENDS BlockSync

(* Every sync block is asked for from one peer at a time, nothing already  *)
(* received is asked for, and the node's list of active requests           *)
(* (_active_sync_requests) is exactly what the peers have been asked for,  *)
(* through disconnections, missing items and overlapping lists.            *)
OneRequestPerBlock ==
    /\ active_sync_requests = UNION {peer[p].wanted : p \in Peer}
    /\ \A p, q \in Peer : p # q => peer[p].wanted \cap peer[q].wanted = {}
    /\ received \cap active_sync_requests = {}

(* The block and those before it are valid.                                *)
Sound(b) == BlocksOf(Branch[b]) \cap Invalid = {}

InProgress == {tasks[i].block : i \in DOMAIN tasks}

(* The list kept for a connected peer is a piece of one chain that starts  *)
(* right after a block the delegate has or is being handed, whatever order *)
(* replies, flushed ids and pushed blocks came in.                         *)
ListsContinueTheChain ==
    \A p \in Active :
        LET ids == peer[p].to_get
        IN  /\ \A i \in 2 .. Len(ids) : previous[ids[i]] = ids[i - 1]
            /\ ids # <<>> => previous[ids[1]] \in known \cup InProgress \cup {Null}

(* process_backlog_of_sync_blocks hands blocks over so that each links     *)
(* when its turn comes: handle_block never throws unlinkable_block_        *)
(* exception for a sync block, which would cost its senders their          *)
(* connection, unless a block before it is invalid.                        *)
SyncBlocksLink ==
    \A i \in DOMAIN tasks :
        tasks[i].at = "unlinkable" => ~Sound(previous[tasks[i].block])

(* A received block is the next one of an active peer's list.              *)
Ready(b) == b \in received /\ \E p \in Active : IsFirst(b, p)

(* Synchronisation ends with every valid block of the peers' chains known, *)
(* though connections break and are made again, unless a peer lists blocks *)
(* it does not have over and over, or it stops at the one place the code   *)
(* has no trigger for: a block in the backlog that became next when no     *)
(* block was being processed.                                              *)
SyncEndsOrBacklogStalls ==
    \/ <>[](\/ \A p \in Peer : \A b \in BlocksOf(theirs[p]) : Sound(b) => b \in known
           \/ \E b \in received : Ready(b))
    \/ []<>(\E p \in Forgetful : inbox[p] # <<>> /\ Head(inbox[p]).type = "unavailable")
===============================================================================
