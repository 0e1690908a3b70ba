------------------------------ MODULE BlockSync ------------------------------
(***************************************************************************)
(* graphene::net::node_impl: how a node gets the blocks its peers have.    *)
(*                                                                         *)
(* While it synchronises with a peer the node asks for lists of block ids, *)
(* keeps per peer the ids still to get, asks for the blocks themselves     *)
(* (every block from one peer at a time), and hands the received blocks to *)
(* its delegate, the application, in the order of those lists.             *)
(*                                                                         *)
(* The node runs in one thread, as cooperative fibers: one that reads the  *)
(* messages of each peer, one per sync block that is being pushed, one for *)
(* the backlog of received blocks, and the fetch loop.  A fiber gives up   *)
(* the thread only where it calls the delegate, which answers from the     *)
(* main thread.  The handlers are cut into actions at the calls whose      *)
(* answer the node's next step depends on while it synchronises: has_item  *)
(* for a list of ids, get_blockchain_synopsis, and the push of a block.    *)
(* Over calls that ask for a block's time, report progress or serve a      *)
(* peer's request a handler goes straight on.                              *)
(***************************************************************************)
EXTENDS ChainSynopsis, FiniteSets, SequencesExt

CONSTANTS
    Peer,
    Invalid,             \* the blocks that fail validation
    NoRequest,           \* item_ids_requested_from_peer is not set
    MinBlockIds,         \* GRAPHENE_NET_MIN_BLOCK_IDS_TO_PREFETCH
    MaxBlocksPerPeer,    \* _max_sync_blocks_per_peer
    MaxBlocksAtOnce,     \* _max_blocks_to_handle_at_once
    MaxBlocksToPrefetch, \* _max_sync_blocks_to_prefetch
    OurChain,            \* the chain the node starts with
    TheirChain,          \* the chain each peer starts with
    Future,              \* Future[p]: the blocks p may get from elsewhere
    Forgetful,           \* the peers that may have lost blocks they listed
    Fragile              \* bound: the peers whose connection may break, once each

ASSUME PeerAssumption == IsFiniteSet(Peer)

VARIABLES
    theirs, stored,         \* each peer's preferred chain and its blocks
    thinks,                 \* whether the peer thinks we need its blocks
    chain, known,           \* the delegate: preferred chain, known blocks
    conn,                   \* off, active, or closing
    peer,                   \* the peer_connection objects
    fiber,                  \* what each peer's message loop waits for
    calls,                  \* who waits for the delegate, in order
    inbox, outbox,          \* messages from and to each peer
    active_sync_requests,
    received,               \* _new_received_sync_items, _received_sync_items
    tasks,                  \* _handle_message_calls_in_progress
    backlog,                \* process_backlog_of_sync_blocks
    suspend,                \* _suspend_fetching_sync_blocks
    sync_items_updated,     \* fetch_sync_items_loop has been triggered
    accepted,               \* _most_recent_blocks_accepted
    broken

peers  == <<theirs, stored, thinks>>
dlg    == <<chain, known>>
links  == <<conn, broken>>
wire   == <<inbox, outbox>>
pool   == <<active_sync_requests, received>>
work   == <<tasks, backlog, suspend>>
loop   == <<fiber, calls>>
sync_vars == <<peers, dlg, links, wire, pool, work, peer, loop,
               sync_items_updated, accepted>>

-------------------------------------------------------------------------------
(* The state kept for a peer.                                              *)
NewPeer ==
    [to_get     |-> <<>>,       \* ids_of_items_to_get
     processing |-> {},         \* ids_of_items_being_processed
     unfetched  |-> 0,          \* number_of_unfetched_item_ids
     peer_needs |-> TRUE,       \* peer_needs_sync_items_from_us
     we_need    |-> TRUE,       \* we_need_sync_items_from_peer
     asked      |-> NoRequest,  \* item_ids_requested_from_peer
     wanted     |-> {},         \* sync_items_requested_from_peer
     seen       |-> Null,       \* last_block_delegate_has_seen
     inhibit    |-> FALSE]      \* inhibit_fetching_sync_blocks

idle(rec) == rec.asked = NoRequest /\ rec.wanted = {}

Active == {p \in Peer : conn[p] = "active"}

(* Wrong: a received block is ready wherever it is in the list.            *)
IsListed(b, p) == Contains(peer[p].to_get, b)

IsFirst(b, p) == peer[p].to_get # <<>> /\ Head(peer[p].to_get) = b

Resting == [at |-> "rest"]

(* fetch_next_batch_of_item_ids_from_peer up to its call of the delegate:  *)
(* the ids and the reference point are saved, the fiber waits.             *)
Asking(rec, from) ==
    [at |-> "synopsis", ids |-> rec.to_get, ref |-> rec.seen, from |-> from]

(* start_synchronizing_with_peer, which then asks for ids.                 *)
Restarted(rec) ==
    [rec EXCEPT !.to_get = <<>>, !.unfetched = 0, !.we_need = TRUE,
                !.seen = Null, !.inhibit = FALSE]

Put(p, rec)   == peer' = [peer EXCEPT ![p] = rec]
Fiber(p, at)  == /\ fiber' = [fiber EXCEPT ![p] = at]
                 /\ calls' = (IF fiber[p] = Resting THEN calls ELSE Tail(calls))
                               \o (IF at = Resting THEN <<>> ELSE <<p>>)
Send(p, m)    == outbox' = [outbox EXCEPT ![p] = Append(@, m)]
Deliver(p, m) == inbox' = [inbox EXCEPT ![p] = Append(@, m)]

(* disconnect_from_peer.                                                   *)
Closing(S) == [p \in Peer |-> IF p \in S THEN "closing" ELSE conn[p]]
disconnect(S) == conn' = Closing(S) /\ UNCHANGED broken

(* The delegate's thread answers calls in the order they were made, but    *)
(* for the pushing of blocks, which waits for worker threads.              *)
Answered(who) == calls # <<>> /\ Head(calls) = who

(* Everything waits while the backlog is being processed, which is one     *)
(* uninterrupted stretch of code.                                          *)
Free == backlog # "running"

trigger_process_backlog == IF backlog = "none" THEN "scheduled" ELSE backlog

-------------------------------------------------------------------------------
(* A peer answers what we sent it, in order (external: its own node).      *)
NotNeeded(reply, synopsis) ==
    \/ reply.items = <<>>
    \/ Len(reply.items) = 1 /\ reply.items[1] \in BlocksOf(synopsis)

PeerListsIds(p) ==
    /\ conn[p] = "active" /\ outbox[p] # <<>> /\ Head(outbox[p]).type = "ask"
    /\ LET synopsis == Head(outbox[p]).synopsis
           reply    == get_block_ids(theirs[p], synopsis)
       IN  /\ thinks' = [thinks EXCEPT ![p] = ~NotNeeded(reply, synopsis)]
           /\ Deliver(p, [type |-> "ids", items |-> reply.items,
                          remaining |-> reply.remaining])
    /\ outbox' = [outbox EXCEPT ![p] = Tail(@)]
    /\ UNCHANGED <<theirs, stored, dlg, links, pool, work, peer, loop,
                   sync_items_updated, accepted>>

PeerSendsBlocks(p) ==
    /\ conn[p] = "active" /\ outbox[p] # <<>> /\ Head(outbox[p]).type = "fetch"
    /\ \E lost \in SUBSET IF p \in Forgetful
                          THEN BlocksOf(Head(outbox[p]).blocks) ELSE {} :
          inbox' = [inbox EXCEPT ![p] = @ \o
             [i \in DOMAIN Head(outbox[p]).blocks |->
                 LET b == Head(outbox[p]).blocks[i]
                 IN  [type |-> IF b \in lost THEN "unavailable" ELSE "block",
                      block |-> b]]]
    /\ outbox' = [outbox EXCEPT ![p] = Tail(@)]
    /\ UNCHANGED <<peers, dlg, links, pool, work, peer, loop,
                   sync_items_updated, accepted>>

(* A peer gets a block from elsewhere by synchronising itself.  If it      *)
(* believes we are in sync it restarts synchronisation with us.            *)
PeerLearns(p, b) ==
    /\ Free /\ b \in Future[p] \ stored[p]
    /\ previous[b] \in stored[p] \cup {Null}
    /\ stored' = [stored EXCEPT ![p] = @ \cup {b}]
    /\ theirs' = IF num[b] > Len(theirs[p])
                 THEN [theirs EXCEPT ![p] = Branch[b]] ELSE theirs
    /\ IF thinks[p] \/ conn[p] # "active" THEN UNCHANGED inbox
       ELSE Deliver(p, [type |-> "ask", synopsis |->
                           get_blockchain_synopsis(theirs'[p], Null, 0)])
    /\ UNCHANGED <<thinks, dlg, links, outbox, pool, work, peer, loop,
                   sync_items_updated, accepted>>

-------------------------------------------------------------------------------
(* Lists of ids.                                                           *)
Receives(p, type) ==
    /\ Free /\ conn[p] = "active" /\ fiber[p] = Resting
    /\ inbox[p] # <<>> /\ Head(inbox[p]).type = type
Received(p) == Head(inbox[p])
Consume(p)  == inbox' = [inbox EXCEPT ![p] = Tail(@)]

(* The list must be sequential and start at a block we said we have.       *)
ValidReply(asked, items) ==
    items # <<>> =>
        /\ \A i \in DOMAIN items : num[items[i]] = num[items[1]] + i - 1
        /\ IF asked = <<>> THEN num[items[1]] = 1
                           ELSE items[1] \in BlocksOf(asked)

(* The new ids are appended; then either more ids are asked for or the     *)
(* blocks.                                                                 *)
AppendIds(p, rec, items, remaining) ==
    LET new  == [rec EXCEPT !.to_get = @ \o items]
        more == IF remaining # 0 THEN Len(new.to_get) <= MinBlockIds
                                 ELSE new.to_get = <<>>
    IN  /\ Put(p, new)
        /\ Fiber(p, IF more THEN Asking(new, "ids") ELSE Resting)
        /\ sync_items_updated' = (sync_items_updated \/ ~more)

(* Wrong: the block in which the lists overlap is kept twice.              *)
SpliceKeepsShared(p, rec, items, remaining) ==
    LET same == {i \in DOMAIN rec.to_get : rec.to_get[i] = items[1]}
        last == CHOOSE i \in same : \A j \in same : j <= i
    IN  IF same = {}
        THEN AppendIds(p, [rec EXCEPT !.to_get = <<>>, !.seen = items[1]],
                       Tail(items), remaining)
        ELSE AppendIds(p, [rec EXCEPT !.to_get = SubSeq(@, 1, last)],
                       items, remaining)

(* Ids we already have from this peer and the new ones overlap in one      *)
(* block, unless the peer has switched forks.                              *)
Splice(p, rec, items, remaining) ==
    LET same == {i \in DOMAIN rec.to_get : rec.to_get[i] = items[1]}
        last == CHOOSE i \in same : \A j \in same : j <= i
    IN  IF same = {}
        THEN AppendIds(p, [rec EXCEPT !.to_get = <<>>, !.seen = items[1]],
                       Tail(items), remaining)
        ELSE AppendIds(p, [rec EXCEPT !.to_get = SubSeq(@, 1, last - 1)],
                       items, remaining)

(* A first list is freed of the blocks the delegate already has, one call  *)
(* of has_item after the other, unless another peer's list starts alike.   *)
TakeIds(p, rec, items, remaining) ==
    LET new == [rec EXCEPT !.unfetched = remaining]
    IN  CASE items = <<>> -> AppendIds(p, new, items, remaining)
          [] items # <<>> /\ new.to_get # <<>> ->
                Splice(p, new, items, remaining)
          [] items # <<>> /\ new.to_get = <<>> ->
                IF \E q \in Active \ {p} : IsFirst(items[1], q)
                THEN AppendIds(p, new, items, remaining)
                ELSE /\ Put(p, new)
                     /\ Fiber(p, [at |-> "flush", items |-> items,
                                  remaining |-> remaining])
                     /\ UNCHANGED sync_items_updated

UpToDate(rec, items) ==
    /\ items = <<>> \/ items[1] \in known
    /\ rec.to_get = <<>> /\ rec.unfetched = 0

InSync(p, rec) == /\ Put(p, [rec EXCEPT !.we_need = FALSE])
                  /\ Fiber(p, Resting)
                  /\ UNCHANGED sync_items_updated

on_blockchain_item_ids_inventory_message(p) ==
    /\ Receives(p, "ids") /\ Consume(p)
    /\ LET m   == Received(p)
           rec == [peer[p] EXCEPT !.asked = NoRequest]
       IN  IF peer[p].asked = NoRequest
           THEN UNCHANGED <<peer, loop, sync_items_updated, links>>
           ELSE IF ~ValidReply(peer[p].asked, m.items)
           THEN disconnect({p}) /\ UNCHANGED <<peer, loop, sync_items_updated>>
           ELSE /\ UNCHANGED links
                /\ IF m.remaining = 0 /\ Len(m.items) = 1
                   THEN /\ Put(p, rec)
                        /\ Fiber(p, [at |-> "last", items |-> m.items])
                        /\ UNCHANGED sync_items_updated
                   ELSE IF m.remaining = 0 /\ m.items = <<>> /\ UpToDate(rec, <<>>)
                   THEN InSync(p, rec)
                   ELSE TakeIds(p, rec, m.items, m.remaining)
    /\ UNCHANGED <<peers, dlg, outbox, pool, work, accepted>>

(* The delegate answers has_item for the only id of a list.                *)
LastIdIsKnown(p) ==
    /\ Free /\ Answered(p) /\ fiber[p].at = "last"
    /\ IF UpToDate(peer[p], fiber[p].items) THEN InSync(p, peer[p])
       ELSE TakeIds(p, peer[p], fiber[p].items, 0)
    /\ UNCHANGED <<peers, dlg, links, wire, pool, work, accepted>>

(* The delegate answers has_item for the first id of a list.               *)
FlushKnownId(p) ==
    /\ Free /\ Answered(p) /\ fiber[p].at = "flush"
    /\ LET items == fiber[p].items
           rec   == [peer[p] EXCEPT !.seen = items[1]]
       IN  IF items[1] \notin known
           THEN AppendIds(p, peer[p], items, fiber[p].remaining)
           ELSE IF Len(items) = 1
           THEN AppendIds(p, rec, <<>>, fiber[p].remaining)
           ELSE /\ Put(p, rec)
                /\ Fiber(p, [fiber[p] EXCEPT !.items = Tail(@)])
                /\ UNCHANGED sync_items_updated
    /\ UNCHANGED <<peers, dlg, links, wire, pool, work, accepted>>

(* The delegate answers get_blockchain_synopsis: the request is sent.  A   *)
(* fork too old is refused.  An exception ends the handler, which for a    *)
(* block received falls through to the disconnection of its sender.        *)
SynopsisReturns(p) ==
    /\ Free /\ Answered(p) /\ fiber[p].at = "synopsis"
    /\ Fiber(p, Resting)
    /\ LET call == fiber[p]
           syn  == create_blockchain_synopsis_for_peer(chain, call.ref, call.ids)
       IN  IF SynopsisThrows(known, call.ref)
           THEN /\ UNCHANGED <<peer, outbox>>
                /\ IF call.from = "block" THEN disconnect({p}) ELSE UNCHANGED links
           ELSE IF ForkedTooLongAgo(chain, call.ref)
           THEN disconnect({p}) /\ UNCHANGED <<peer, outbox>>
           ELSE /\ peer' = [peer EXCEPT ![p].asked = syn]
                /\ Send(p, [type |-> "ask", synopsis |-> syn])
                /\ UNCHANGED links
    /\ UNCHANGED <<peers, dlg, inbox, pool, work, sync_items_updated,
                   accepted>>

-------------------------------------------------------------------------------
(* Fetching blocks while synchronising.                                    *)

(* The first blocks of a list that are not among those given.              *)
FirstOpen(ids, given) ==
    LET open  == {k \in DOMAIN ids : ids[k] \notin given}
        first == {k \in open : Cardinality({j \in open : j < k}) < MaxBlocksPerPeer}
    IN  {ids[k] : k \in first}

(* Wrong: what other peers are asked for in the same iteration is ignored. *)
PlanForgetsOthers(order) ==
    [p \in Peer |-> IF Contains(order, p)
                    THEN FirstOpen(peer[p].to_get, received \cup active_sync_requests)
                    ELSE {}]

(* One iteration of fetch_sync_items_loop: each idle peer, in some order,  *)
(* is asked for the first blocks of its list nobody has been asked for.    *)
Plan(order) ==
    LET plan[i \in 0 .. Len(order)] ==
            IF i = 0 THEN [p \in Peer |-> {}]
            ELSE [plan[i-1] EXCEPT ![order[i]] =
                    FirstOpen(peer[order[i]].to_get,
                              (UNION {plan[i-1][q] : q \in Peer})
                                  \cup received \cup active_sync_requests)]
    IN  plan[Len(order)]

fetch_sync_items_loop ==
    /\ Free /\ sync_items_updated
    /\ sync_items_updated' = FALSE
    /\ IF suspend THEN UNCHANGED <<peer, outbox, active_sync_requests>>
       ELSE \E order \in SetToSeqs({p \in Active : /\ peer[p].we_need /\ idle(peer[p])
                                                   /\ ~peer[p].inhibit}) :
               LET plan == Plan(order)
               IN  /\ peer' = [p \in Peer |->
                         [peer[p] EXCEPT !.wanted = @ \cup plan[p]]]
                   /\ outbox' = [p \in Peer |->
                         IF plan[p] = {} THEN outbox[p]
                         ELSE Append(outbox[p], [type |-> "fetch", blocks |->
                                 SelectSeq(peer[p].to_get, LAMBDA b : b \in plan[p])])]
                   /\ active_sync_requests' = active_sync_requests \cup
                         UNION {plan[p] : p \in Peer}
    /\ UNCHANGED <<peers, dlg, links, inbox, received, work, loop,
                   accepted>>

(* A block arrives: one asked for while synchronising                      *)
(* (process_block_during_syncing), or one that was not asked for.          *)
SyncBlock(p, b) ==
    LET rec  == [peer[p] EXCEPT !.wanted = @ \ {b}]
        done == idle(rec)
        more == rec.unfetched > 0 /\ Len(rec.to_get) < MinBlockIds
    IN  /\ Put(p, rec)
        /\ active_sync_requests' = active_sync_requests \ {b}
        /\ received' = received \cup {b}
        /\ backlog' = trigger_process_backlog
        /\ Fiber(p, IF done /\ more THEN Asking(rec, "block") ELSE Resting)
        /\ sync_items_updated' = (sync_items_updated \/ (done /\ ~more))
        /\ UNCHANGED <<links, tasks, suspend>>

UnknownBlock(p) ==
    /\ disconnect({p})
    /\ UNCHANGED <<peer, loop, pool, work, sync_items_updated>>

process_block_message(p) ==
    /\ Receives(p, "block") /\ Consume(p)
    /\ LET b == Received(p).block
       IN  IF b \in peer[p].wanted THEN SyncBlock(p, b) ELSE UnknownBlock(p)
    /\ UNCHANGED <<peers, dlg, outbox, accepted>>

(* The peer does not have a block it listed.                               *)
on_item_not_available_message(p) ==
    /\ Receives(p, "unavailable") /\ Consume(p)
    /\ LET b   == Received(p).block
           rec == peer[p]
       IN  /\ b \in rec.wanted
           /\ active_sync_requests' = active_sync_requests \ {b}
           /\ Put(p, [rec EXCEPT !.wanted = @ \ {b},
                                 !.inhibit = @ \/ rec.peer_needs])
           /\ IF rec.peer_needs THEN UNCHANGED links ELSE disconnect({p})
           /\ sync_items_updated' = TRUE
    /\ UNCHANGED <<peers, dlg, outbox, received, work, loop, accepted>>

-------------------------------------------------------------------------------
(* The delegate's thread pushes a block (application_impl::handle_block),  *)
(* the blocks of the sync tasks in the order they were handed over.        *)
Outcome(b) ==
    IF previous[b] \notin known \cup {Null} THEN "unlinkable"
    ELSE IF b \in Invalid THEN "rejected" ELSE "accepted"

push_block(b) ==
    IF Outcome(b) = "accepted"
    THEN /\ known' = known \cup {b}
         /\ chain' = IF num[b] > Len(chain) THEN Branch[b] ELSE chain
    ELSE UNCHANGED dlg

DelegatePushesSync ==
    /\ Free
    /\ \E i \in DOMAIN tasks :
          /\ tasks[i].at = "push"
          /\ \A j \in 1 .. i - 1 : tasks[j].at # "push"
          /\ push_block(tasks[i].block)
          /\ tasks' = [tasks EXCEPT ![i].at = Outcome(tasks[i].block)]
    /\ UNCHANGED <<peers, links, wire, pool, backlog, suspend, peer,
                   loop, sync_items_updated, accepted>>

(* What process_backlog_of_sync_blocks does on its way out.                *)
Handled(ts) == Cardinality({i \in DOMAIN ts : ts[i].block # Null})
LeaveBacklog(ts, rcvd) ==
    /\ suspend' = (suspend \/ (/\ Handled(ts) >= MaxBlocksAtOnce
                               /\ Cardinality(rcvd) >= MaxBlocksToPrefetch))
    /\ sync_items_updated' = (sync_items_updated \/ ~suspend')

(* The fiber of a sync block, or (block Null) of the backlog, goes on with *)
(* the calls it has saved for its end, one peer after the other: to ask    *)
(* for the next ids, then to restart synchronisation.                      *)
NewTask(b, at) == [block |-> b, at |-> at, fetch |-> {}, start |-> {},
                   call |-> Resting]

TaskCalls(ts, i, recs, p, rec) ==
    /\ peer' = [recs EXCEPT ![p] = rec]
    /\ tasks' = [ts EXCEPT ![i] =
          [@ EXCEPT !.at = "synopsis", !.call = <<p, Asking(rec, "task")>>,
                    !.fetch = @ \ {p},
                    !.start = IF ts[i].fetch = {} THEN @ \ {p} ELSE @]]
    /\ backlog' = IF ts[i].block = Null THEN "waiting" ELSE backlog
    /\ UNCHANGED <<suspend, sync_items_updated>>

TaskEnds(ts, i, recs) ==
    /\ peer' = recs
    /\ tasks' = RemoveAt(ts, i)
    /\ IF ts[i].block = Null
       THEN backlog' = "none" /\ LeaveBacklog(tasks', received)
       ELSE /\ backlog' = trigger_process_backlog
            /\ UNCHANGED <<suspend, sync_items_updated>>

TaskGoesOn(ts, i, recs, waiting) ==
    \/ /\ \E p \in ts[i].fetch : TaskCalls(ts, i, recs, p, recs[p])
       /\ calls' = Append(waiting, ts[i].block)
    \/ /\ ts[i].fetch = {}
       /\ \E p \in ts[i].start : TaskCalls(ts, i, recs, p, Restarted(recs[p]))
       /\ calls' = Append(waiting, ts[i].block)
    \/ /\ ts[i].fetch \cup ts[i].start = {}
       /\ TaskEnds(ts, i, recs)
       /\ calls' = waiting

(* send_sync_block_to_node_delegate after handle_block.                    *)
Pushed == {"accepted", "rejected", "unlinkable"}
FirstPushed(i) == /\ tasks[i].at \in Pushed
                  /\ \A j \in 1 .. i - 1 : tasks[j].at \notin Pushed

SyncBlockAccepted(i) ==
    LET b     == tasks[i].block
        empty == {p \in Active : peer[p].to_get = <<>> /\ peer[p].processing = {}}
        had   == {p \in Active : b \in peer[p].processing}
        fetch == {p \in had : /\ peer[p].to_get = <<>> /\ peer[p].unfetched = 0
                              /\ peer[p].processing = {b}}
        start == {p \in empty : ~peer[p].peer_needs /\ ~peer[p].we_need}
        recs  == [p \in Peer |-> IF p \notin had THEN peer[p]
                    ELSE [peer[p] EXCEPT !.seen = b, !.processing = @ \ {b}]]
    IN  /\ Free /\ FirstPushed(i) /\ tasks[i].at = "accepted"
        /\ accepted' = accepted \cup {b}
        /\ TaskGoesOn([tasks EXCEPT ![i].fetch = fetch, ![i].start = start], i,
                      recs, calls)
        /\ UNCHANGED <<peers, dlg, links, wire, pool, fiber>>

SyncBlockRejected(i) ==
    /\ Free /\ FirstPushed(i) /\ tasks[i].at # "accepted"
    /\ disconnect({p \in Active : tasks[i].block \in peer[p].processing})
    /\ TaskEnds(tasks, i, peer)
    /\ UNCHANGED <<peers, dlg, wire, pool, loop, accepted>>

TaskReturns(i) ==
    LET p    == tasks[i].call[1]
        call == tasks[i].call[2]
        syn  == create_blockchain_synopsis_for_peer(chain, call.ref, call.ids)
    IN  /\ Free /\ tasks[i].at = "synopsis" /\ Answered(tasks[i].block)
        /\ IF SynopsisThrows(known, call.ref)
           THEN /\ tasks' = RemoveAt(tasks, i)
                /\ backlog' = IF tasks[i].block = Null THEN "none" ELSE backlog
                /\ calls' = Tail(calls)
                /\ UNCHANGED <<peer, outbox, links, suspend, sync_items_updated>>
           ELSE IF ForkedTooLongAgo(chain, call.ref)
           THEN /\ disconnect({p})
                /\ TaskGoesOn(tasks, i, peer, Tail(calls))
                /\ UNCHANGED outbox
           ELSE /\ Send(p, [type |-> "ask", synopsis |-> syn])
                /\ TaskGoesOn(tasks, i, [peer EXCEPT ![p].asked = syn], Tail(calls))
                /\ UNCHANGED links
        /\ UNCHANGED <<peers, dlg, inbox, pool, fiber, accepted>>

-------------------------------------------------------------------------------
(* process_backlog_of_sync_blocks: the received blocks that are next for   *)
(* some peer are handed to the delegate, one iteration per step.           *)
BacklogStarts ==
    /\ backlog = "scheduled"
    /\ IF Handled(tasks) >= MaxBlocksAtOnce
       THEN backlog' = "none" /\ UNCHANGED suspend
       ELSE backlog' = "running" /\ suspend' = FALSE
    /\ UNCHANGED <<peers, dlg, links, wire, pool, tasks, peer, loop,
                   sync_items_updated, accepted>>

Firsts(b) == {p \in Active : IsFirst(b, p)}

(* The block leaves the front of every list it heads.                      *)
Popped(b) ==
    [p \in Peer |-> IF p \notin Firsts(b) THEN peer[p]
        ELSE [peer[p] EXCEPT !.to_get = Tail(@), !.processing = @ \cup {b}]]

BacklogHandsOver(b) ==
    /\ backlog = "running" /\ b \in received \ accepted /\ Firsts(b) # {}
    /\ peer' = Popped(b)
    /\ received' = received \ {b}
    /\ tasks' = Append(tasks, NewTask(b, "push"))
    /\ IF Handled(tasks') >= MaxBlocksAtOnce
       THEN backlog' = "none" /\ LeaveBacklog(tasks', received')
       ELSE UNCHANGED <<backlog, suspend, sync_items_updated>>
    /\ UNCHANGED <<peers, dlg, links, wire, active_sync_requests, loop,
                   accepted>>

(* A block accepted meanwhile in normal operation counts as processed; it  *)
(* stays among the received ones, and the iterations end.                  *)
BacklogSkips(b) ==
    LET popped == Popped(b)
        had    == {p \in Active : b \in popped[p].processing}
        fetch  == {p \in had : /\ popped[p].to_get = <<>>
                               /\ popped[p].unfetched = 0
                               /\ popped[p].processing = {b}}
        recs   == [p \in Peer |-> IF p \notin had THEN popped[p]
                     ELSE [popped[p] EXCEPT !.processing = @ \ {b}]]
    IN  /\ backlog = "running" /\ b \in received \cap accepted /\ Firsts(b) # {}
        /\ TaskGoesOn(Append(tasks, [NewTask(Null, "then") EXCEPT !.fetch = fetch]),
                      Len(tasks) + 1, recs, calls)
        /\ UNCHANGED <<peers, dlg, links, wire, pool, fiber, accepted>>

BacklogEnds ==
    /\ backlog = "running" /\ \A b \in received : Firsts(b) = {}
    /\ backlog' = "none" /\ LeaveBacklog(tasks, received)
    /\ UNCHANGED <<peers, dlg, links, wire, pool, tasks, peer, loop,
                   accepted>>

-------------------------------------------------------------------------------
(* What a peer asks of us.                                                 *)
on_fetch_blockchain_item_ids_message(p) ==
    /\ Receives(p, "ask") /\ Consume(p)
    /\ LET syn   == Received(p).synopsis
           reply == get_block_ids(chain, syn)
           needs == ~NotNeeded(reply, syn)
           rec   == [peer[p] EXCEPT !.peer_needs = needs]
       IN  /\ IF ~rec.we_need /\ syn # <<>> /\ Last(syn) \notin known
              THEN /\ Put(p, Restarted(rec))
                   /\ Fiber(p, Asking(Restarted(rec), "inventory"))
              ELSE Put(p, rec) /\ UNCHANGED loop
           /\ IF ~needs /\ reply.items # <<>> /\ rec.inhibit
              THEN disconnect({p}) ELSE UNCHANGED links
    /\ UNCHANGED <<peers, dlg, outbox, pool, work, sync_items_updated,
                   accepted>>

(* The peer fetches the next block of the list it was sent.                *)
on_fetch_items_message(p, b) ==
    /\ Free /\ conn[p] = "active" /\ fiber[p] = Resting
    /\ b \in known \ stored[p] /\ previous[b] \in stored[p] \cup {Null}
    /\ peer[p].peer_needs /\ b \in BlocksOf(chain)
    /\ Put(p, [peer[p] EXCEPT !.seen = b])
    /\ stored' = [stored EXCEPT ![p] = @ \cup {b}]
    /\ theirs' = IF num[b] > Len(theirs[p])
                 THEN [theirs EXCEPT ![p] = Branch[b]] ELSE theirs
    /\ UNCHANGED <<thinks, dlg, links, wire, pool, work, loop,
                   sync_items_updated, accepted>>

-------------------------------------------------------------------------------
(* Connections.                                                            *)
Greeting(p) == <<[type |-> "ask",
                  synopsis |-> get_blockchain_synopsis(theirs[p], Null, 0)]>>

(* A connection is established: both sides start to synchronise.           *)
new_peer_just_added(p) ==
    /\ Free /\ conn[p] = "off"
    /\ conn' = [conn EXCEPT ![p] = "active"]
    /\ Put(p, NewPeer) /\ Fiber(p, Asking(NewPeer, "inventory"))
    /\ inbox' = [inbox EXCEPT ![p] = Greeting(p)]
    /\ thinks' = [thinks EXCEPT ![p] = TRUE]
    /\ UNCHANGED <<theirs, stored, dlg, broken, outbox, pool, work,
                   sync_items_updated, accepted>>

(* kill_inactive_conns_loop: sync has stalled.                             *)
Stalled(p) ==
    /\ peer[p].we_need /\ fiber[p] = Resting
    /\ peer[p].asked = NoRequest /\ peer[p].to_get = <<>>

(* While blocks of the peer are being pushed this happens, as a bound, to  *)
(* the peers whose connection may break, and counts as their break.        *)
kill_inactive_conns_loop(p) ==
    /\ Free /\ conn[p] = "active" /\ Stalled(p)
    /\ peer[p].processing # {} => p \in Fragile \ broken
    /\ conn' = Closing({p})
    /\ broken' = IF peer[p].processing = {} THEN broken ELSE broken \cup {p}
    /\ UNCHANGED <<peers, dlg, wire, pool, work, peer, loop,
                   sync_items_updated, accepted>>

(* A connection breaks, because of the network or of a request that has    *)
(* not been answered in time.                                              *)
ConnectionBreaks(p) ==
    /\ Free /\ conn[p] = "active" /\ p \in Fragile \ broken
    /\ conn' = [conn EXCEPT ![p] = "closing"]
    /\ broken' = broken \cup {p}
    /\ UNCHANGED <<peers, dlg, wire, pool, work, peer, loop,
                   sync_items_updated, accepted>>

(* The fibers that still hold the peer's object finish with it first: on a *)
(* closed connection they change nothing else.                             *)
Held(p) ==
    \/ fiber[p] # Resting
    \/ \E i \in DOMAIN tasks :
          \/ p \in tasks[i].fetch \cup tasks[i].start
          \/ tasks[i].at = "synopsis" /\ tasks[i].call[1] = p

(* Wrong: the blocks asked of the peer stay marked as asked for.           *)
ClosedKeepsRequests(p) ==
    /\ Free /\ conn[p] = "closing" /\ ~Held(p)
    /\ conn' = [conn EXCEPT ![p] = "off"]
    /\ sync_items_updated' = (sync_items_updated \/ peer[p].wanted # {})
    /\ Put(p, NewPeer)
    /\ inbox' = [inbox EXCEPT ![p] = <<>>]
    /\ outbox' = [outbox EXCEPT ![p] = <<>>]
    /\ UNCHANGED <<peers, dlg, broken, pool, work,
                   loop, accepted>>

on_connection_closed(p) ==
    /\ Free /\ conn[p] = "closing" /\ ~Held(p)
    /\ conn' = [conn EXCEPT ![p] = "off"]
    /\ active_sync_requests' = active_sync_requests \ peer[p].wanted
    /\ sync_items_updated' = (sync_items_updated \/ peer[p].wanted # {})
    /\ Put(p, NewPeer)
    /\ inbox' = [inbox EXCEPT ![p] = <<>>]
    /\ outbox' = [outbox EXCEPT ![p] = <<>>]
    /\ UNCHANGED <<peers, dlg, broken, received, work,
                   loop, accepted>>

-------------------------------------------------------------------------------
Init ==
    /\ theirs = TheirChain
    /\ stored = [p \in Peer |-> BlocksOf(theirs[p])]
    /\ thinks = [p \in Peer |-> TRUE]
    /\ chain = OurChain /\ known = BlocksOf(OurChain)
    /\ conn = [p \in Peer |-> "active"]
    /\ peer = [p \in Peer |-> NewPeer]
    /\ fiber = [p \in Peer |-> Asking(NewPeer, "inventory")]
    /\ calls \in SetToSeqs(Peer)
    /\ inbox = [p \in Peer |-> Greeting(p)]
    /\ outbox = [p \in Peer |-> <<>>]
    /\ active_sync_requests = {} /\ received = {}
    /\ tasks = <<>> /\ backlog = "none" /\ suspend = FALSE
    /\ sync_items_updated = FALSE
    /\ accepted = IF OurChain = <<>> THEN {} ELSE {Last(OurChain)}
    /\ broken = {}

Handlers(p) ==
    \/ on_blockchain_item_ids_inventory_message(p)
    \/ LastIdIsKnown(p)
    \/ FlushKnownId(p)
    \/ SynopsisReturns(p)
    \/ process_block_message(p)
    \/ on_item_not_available_message(p)
    \/ on_fetch_blockchain_item_ids_message(p)

Loops ==
    \/ fetch_sync_items_loop
    \/ DelegatePushesSync
    \/ BacklogStarts
    \/ \E b \in Block : BacklogHandsOver(b) \/ BacklogSkips(b)
    \/ BacklogEnds

Tasks(i) == SyncBlockAccepted(i) \/ SyncBlockRejected(i) \/ TaskReturns(i)

Answers(p) == PeerListsIds(p) \/ PeerSendsBlocks(p)

(* What code that runs does next.  Nothing makes a peer learn a block or   *)
(* fetch ours, or a connection break.                                      *)
Runs ==
    \/ \E p \in Peer : Handlers(p) \/ Answers(p)
    \/ Loops
    \/ \E i \in DOMAIN tasks : Tasks(i)
    \/ \E p \in Peer :
          \/ new_peer_just_added(p)
          \/ kill_inactive_conns_loop(p)
          \/ on_connection_closed(p)

Next ==
    \/ Runs
    \/ \E p \in Peer, b \in Block : PeerLearns(p, b) \/ on_fetch_items_message(p, b)
    \/ \E p \in Peer : ConnectionBreaks(p)

(* While some code can run, some code does: the fibers, the loops, the     *)
(* delegate's thread, and the peers, which run the same code.              *)
Spec == Init /\ [][Next]_sync_vars /\ WF_sync_vars(Runs)
===============================================================================
