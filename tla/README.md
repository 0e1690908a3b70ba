# A verification of the AcloudBank chain

TLA+ modules that model the node in `src/`, TLC configurations that check them on
small instances, and proofs, checked by TLAPS, that hold for every instance.

## The system

A node keeps one blockchain. `libraries/chain` holds the database and the rules,
`libraries/db` the in-memory object database below it, `libraries/net` talks to peers,
`libraries/app` puts them together, and plugins observe the chain or produce blocks.

| part | state | operations | hard behaviour |
|---|---|---|---|
| object database and undo log (`db/`) | objects by id, next id per index, a stack of differences, number of active sessions | create, modify, remove; start, undo, merge, commit a session; pop_commit; resize | sessions nest; a merge composes differences; old differences are dropped while sessions are open; a throw while undoing ends the process |
| fork database (`fork_database.cpp`) | recent blocks of every fork, weak links to predecessors, a head, a size | push, pop, remove, resize, fetch two branches | pruning expires links; the size follows another chain than the one pruned |
| block database (`block_database.cpp`) | two files, blocks by number | store, remove, fetch, last | two buffered files, and a process that dies |
| block processing (`db_block.cpp`, `db_update.cpp`, `db_with.hpp`) | the chain, pending and popped transactions, the pending session | push_block, pop_block, push_transaction, generate_block | fork switches that fail half-way; transactions that must survive them |
| opening and closing (`db_management.cpp`, `app/application.cpp`) | the saved object database | open, reindex, close, wipe | a crash at any point; unreadable blocks; forks mixed on disk |
| witness schedule, production (`db_witness_schedule.cpp`, `plugins/witness`) | slots, missed blocks, the shuffled schedule | produce, miss, shuffle | clocks, low participation |
| maintenance (`db_maint.cpp`) | votes, budgets, active sets | the maintenance interval | order of many updates |
| markets (`db_market.cpp`, `asset_evaluator.cpp`, ...) | orders, calls, settlements, supplies | match, fill, settle, globally settle | rounding, conservation, the order of matching |
| other contracts: proposals, HTLC, vesting, withdrawal permissions, tickets, liquidity pools, credit offers, SameT funds, tanks and taps | objects with balances and deadlines | their evaluators, and expiry in each block | deadlines racing operations, rounding |
| authorities (`protocol/transaction.cpp`, `custom_authority_*`) | none | the recursive check of a transaction | depth and order of the search |
| network (`net/`) | peers, inventories, items requested, sync state | handshake, sync, inventory, fetch | lost and late messages, timeouts |
| plugins, API, wallet, programs | views of the chain | queries, callbacks | forks under an observer |

`PROJECT.json` lists every part with its status, and the hazards of the code with
their lines and the properties that would catch them.

## What is modelled

    SnapshotStack          what the undo log promises
        ^  refines
    UndoRefinement  --  UndoDatabase       UndoProofs (TLAPS)
        |
        |  the promise is the undo log of
        v
    ChainDatabase  --  BlockDatabase  --  ForkDatabase
        |
    ChainProperties  --  MCForks, MCRestart, MCDamage, MCDeepFork
                         ChainProofs (TLAPS)

    Tickets    --  TicketProperties (MCTickets), TicketTerms (MCTicketTerms)
                   TicketProofs (TLAPS)
    Proposals  --  ProposalProperties (MCProposals), ProposalProofs (TLAPS)

    Accounts  --  Htlcs, SametFunds, CreditOffers  --  Contracts
                       ContractProperties (MCContracts)
                       ContractProofs, ContractSums (TLAPS)
    Accounts, Prices  --  LimitOrders  --  MarketProperties (MCMarket)

    ArithmeticProofs (TLAPS)       prices, and the sums that contracts and tickets keep

    ChainSynopsis  --  BlockSync  --  SyncProperties (MCSync), SyncProofs (TLAPS)

**UndoDatabase** is `undo_database`, with the parts of `object_database` and the
indexes that change objects. One variable per field; one action per operation:
`create`, `modify`, `remove`, `use_next_id`, `start_undo_session`, `undo`, `merge`,
`commit`, `pop_commit`, `set_max_size`, `enable`, `disable`. An object id is a pair
of index and instance, and the fields of an object are one value. A C++ map is a total
function with the value `Absent`. `failed` records that restoring threw. What clients
obey, and the class itself does not test, are the guards `ClientStarts`,
`ClientSkipsId`, `ClientCommits` and `ClientDisables`, each mapped to the client's lines.

**SnapshotStack** is the abstract specification: a database and a stack of complete
copies. **UndoRefinement** adds the history variable `saved` to UndoDatabase (the
database as it was when each state was pushed; no guard reads it) and states the
refinement `Abstract == INSTANCE SnapshotStack WITH ...`.

**ForkDatabase** and **BlockDatabase** are operators on records, as both classes only
run inside handlers of `database`. A weak pointer `prev` is the set `linked` of items
whose pointer still locks. A file position, a size and a checksum are not modelled; a
stored block can be read or cannot. `unsynced` remembers what the last store overwrote,
which is what a crash may bring back.

**ChainDatabase** is `database` as keeper of the chain. The object database is the list
of applied blocks with the last irreversible block and the transactions applied in the
pending session. The undo log is the stack that SnapshotStack specifies. A transaction
applies when the ones it requires are applied, the ones it excludes are not, and it is
not known already. A handler runs in one thread and is not interleaved with another,
so `push_block` is atomic up to the point where a fork switch begins; a switch, the
restorer's destructor, `close` and `reindex` take one step per block, because a crash
between two of them leaves different files. `pc` says where the process is.

| code | actions |
|---|---|
| `push_block`, `_push_block` | `push_block` (by `RefuseBlock`, `KeepFork`, `BeginSwitch`, `ExtendChain`) |
| the loops of a fork switch | `PopBranch`, `Popped`, `PushNewBranch`, `NewBranchFails`, `RestoreOldBranch` |
| `pending_transactions_restorer` | `TakePending` (constructor), `FinishPush` (destructor) |
| `push_transaction` | `push_transaction` |
| `generate_block` | `generate_block`, `generate_block_wrong_key` |
| `close` | `close`, `Rewind`, `Flush` |
| `open`, `reindex` | `OpenNothingNewer`, `OpenAndReindex`, `OpenRefused`, `ReadBlock`, `ReadGap`, `ReplayWithoutUndo`, `ReplayBlock`, `ReindexDone`, `StartupFails` |
| `wipe`, and the environment | `wipe`, `Crash`, `DamageBlock` |

The deduplication list keeps every applied transaction, as time is not modelled; so
replaying with `skip_transaction_dupe_check` makes no difference to what applies.
Checkpoints, which only add skip flags, are not modelled. The peers of an
empty node deliver blocks in order (`Delivers`) unless `OutOfOrder` is set.

**Tickets** is `ticket_object`, its evaluators and `process_tickets`. The two branches of
`ticket_update` are the actions `ticket_update` and `ticket_split`; each iteration of the
loop in `process_tickets` is `refund_ticket` or `update_ticket`, and its end, which writes
the global totals, `end_process_tickets`. `loop` says who called it, a block or a
`ticket_update`; while it is set nothing else happens. `process_hf_2262` is the data change
at the hard fork, in the maintenance after the loop. The durations are constants; they keep
the roles of the code's but not its days. **TicketProperties** and **TicketTerms** add one
history variable each: the tickets an operation has written, and the last time a ticket had
a type.

**Proposals** is `proposal_object`, its evaluators, `push_proposal` and
`clear_expired_proposals`. `stack` holds the proposals being executed, innermost last, each
with the state its undo session restores; `mode` says whether a transaction or the expiry in
a block runs below them.

| code | actions |
|---|---|
| `_push_transaction` | `start_transaction`, `finish_transaction`, `abort_transaction` |
| `proposal_create_evaluator` | `proposal_create`, with the id check of hard fork 1479 |
| `proposal_update_evaluator`, `proposal_delete_evaluator` | `apply_operation` (in a transaction), `run_operation` (in a proposal) |
| `push_proposal` | `Frame` (entry), `run_operation`, `finish_proposal`, `fail_proposal` |
| `clear_expired_proposals` | `apply_block`, `expire_proposal`, `finish_block` |

Operations on anything but proposals are "work", which succeeds, and "bad", which throws.
An update gives or withdraws one approval. `verify_authority` is reduced to accounts whose
authority is one key of their own, and does not refuse signatures that are not needed; a review
period of zero is none. `by_account` is `required_approval_index`, which follows
undo through the same notifications as any other change (`IndexAfterUndo`). That a nested
session finds room in the log is a matter of UndoDatabase.

**Accounts** holds the balances and who is barred from which asset
(`is_authorized_asset`); an issuer may bar or admit an account at any time. **Htlcs**,
**SametFunds** and **CreditOffers** are three kinds of contract over those balances, each
with its state and its handlers, and **Contracts** composes them: every handler of one leaves
the state of the others alone, and a block ends with what is due by its time (`Housekeeping`).
`phase` says where the block is: in its transactions, in `clear_expired_htlcs`, or in the loop of
`update_credit_offers_and_deals`.

| code | actions |
|---|---|
| `htlc_create_evaluator`, `htlc_redeem_evaluator`, `htlc_extend_evaluator` | `htlc_create`, `htlc_redeem`, `htlc_extend` |
| the end of the block's transactions | `end_transactions`, which no unpaid fund allows |
| `clear_expired_htlcs` | the action of that name, one contract at a time |
| `samet_fund_*_evaluator` | `samet_fund_create`, `_delete`, `_update`, `_borrow`, `_repay` |
| `credit_offer_*_evaluator`, `credit_deal_*_evaluator` | the actions of the same names |
| `update_credit_offers_and_deals` | `update_credit_offers`, then `auto_repay` and `credit_deal_expired` for one deal at a time (`past_due` is the deal between the two), `finish_block` |

An update of an offer gives all terms or keeps them. The undo of a failed operation is that of
UndoDatabase: a handler that would throw is not enabled. Whether a preimage fits is left to who
redeems. Hard-fork checks, operation fees, the flag that restricts transfers, and
times that saturate at `time_point_sec::maximum()` are left out, and so are the limits on
fee rate and duration that a borrower names, which only make more operations fail. The code asks
for paid-up funds at the end of each transaction, `end_transactions` once for a block, which allows more.
The operations of a proposal that runs when it expires, after the time of the block has moved
(`db_block.cpp:637`), are not among the actions.

**Prices** is the arithmetic of `price` and `match(limit_order_object, ...)`: multiplication
that rounds down or up, comparison, inversion, and what each side pays and receives.
**LimitOrders** is the market of limit orders. An operation runs in one thread to its end, so
`limit_order_create`, `limit_order_update`, `apply_order`, `match`, `fill_limit_order` and the
others are operators from a database to a database, under the names of the code, and the actions
are the operations and the expiry in a block. The loop of `apply_order` (`match_rest`, `go_on`) keeps
the iterators of the code, the next maker and the end found before the first match, because each
match may run virtual operations: filling an order pays the fee deferred in it and the receiver,
less the market fee, and runs the `on_fill` action, which creates an order or updates the one it
created before, links both, and may fail without failing the fill. `failed` is an exception on its way
up; `dangling` records that the code went on with an order or an iterator that is no longer there.
All assets are issued by users and the fee is in the core asset; call orders, settlements, a
fee for takers apart from that for makers, caps on and shares of market fees, market whitelists,
the limit on nesting, and the shrinking of prices above the maximal supply are left out. The
operations come from constant sets.

**ChainSynopsis** is what two nodes tell each other about their chains: `get_blockchain_synopsis`
and `get_block_ids` of the application, and the part the node adds. **BlockSync** is the
synchronisation of blocks in `node_impl`, seen from one node, with its peers as environment:
they answer from chains of their own, which may grow, may have forgotten a block, and may end
the connection. The node runs fibers, and another may run wherever one waits for the delegate.
The handlers are cut into actions at the waits for an answer on which the synchronisation goes on:
`LastIdIsKnown` and `FlushKnownId` for `has_item` inside
`on_blockchain_item_ids_inventory_message`, `SynopsisReturns` inside
`fetch_next_batch_of_item_ids_from_peer`, `DelegatePushesSync` inside
`send_sync_block_to_node_delegate`. Not every wait is a cut. At these the model goes straight on,
and the interleavings in which another fiber runs just there are not explored:

* `get_block_time` after a known id is noted (`node.cpp:2486`), after a list is spliced (`:2526`),
  and when synchronisation starts (`:3667`): only a time that the model does not have is read;
* `sync_status` after a list is appended (`:2566`), which reports progress;
* `get_block_ids` and `has_item` in the handler that answers a peer (`:2141`, `:2180`, `:2194`),
  and the delegate's calls in `on_fetch_items_message`.

Cutting at `sync_status` alone makes the states of the run three times as many.

| code | actions |
|---|---|
| `on_blockchain_item_ids_inventory_message` | the action of that name, `LastIdIsKnown`, `FlushKnownId`, `AppendIds` |
| `fetch_next_batch_of_item_ids_from_peer` | `Asking` (start), `SynopsisReturns`, `TaskReturns` |
| `fetch_sync_items_loop` | the action of that name (`Plan`, `FirstOpen`) |
| `process_block_message` and what it calls | `process_block_message` (`SyncBlock`, `UnknownBlock`) |
| `process_backlog_of_sync_blocks` | `BacklogStarts`, `BacklogHandsOver`, `BacklogSkips`, `BacklogEnds` |
| `send_sync_block_to_node_delegate`, `handle_block` | `DelegatePushesSync`, `SyncBlockAccepted`, `SyncBlockRejected`, `TaskReturns` |
| `kill_inactive_conns_loop` | the action of that name, `ConnectionBreaks` |
| what peers ask of us, and connections | `on_fetch_blockchain_item_ids_message`, `on_fetch_items_message`, `on_item_not_available_message`, `new_peer_just_added`, `on_connection_closed` |

Received blocks and the ids recently accepted are sets, the latter without the limit of the code's
circular buffer. A timeout is a connection that breaks, so of `kill_inactive_conns_loop` the action of
that name is the clause about stalled synchronisation (`node.cpp:982`). While blocks of the peer are being
pushed it is bounded like a break: only peers in `Fragile`, once each. The
list of hard-fork blocks is empty, as `application.cpp:164` makes it. Cancelling a handler, the
test for an implausible number of items, new transactions and the inventory of a node in sync are
left out.

## What is checked

| run | instance | shows |
|---|---|---|
| `undo_refinement` | 1 index, 2 instances, 2 values, up to 3 sessions, at most 3 states in the log, sizes 0, 2, 3 | the inductive invariant (`UndoInv`: undo is exact at every level of the log), undo never throws (`UndoNeverFails`), the refinement (`ImplementsSnapshots`) |
| `forks` | 12 blocks, two forks of height 5 that overtake each other, a block that is invalid, one that fails late, one not signed by its witness, one the node produces itself; 3 transactions that depend on and exclude each other | the fork database has the head of the chain and its reversible blocks are linked (`ForkDatabaseFollowsChain`), failed pushes are unwound (`FailedPushIsUnwound`), a switch can pop what it must (`SwitchCanPop`) and re-apply what it left (`OldBranchAppliesAgain`), the undo log is the chain's and long enough (`UndoFollowsChain`), pending transactions match their session (`PendingSessionMatches`) and survive (`NoTransactionIsLost`) |
| `restart` | 9 blocks up to height 6, an undo point of 2, 2 faults: crashes anywhere, wipes | after any restart files match the chain (`DiskHoldsChain`), start-up fails only on mixed forks (`OpenFailsOnlyOnMixedForks`), irreversible blocks survive (`IrreversibleIsDurable`), the saved state is on the chain (`SavedStateStaysOnChain`), handlers end (`HandlersEnd`) |
| `damage` | one chain of 6 blocks, a read-ahead of 3, one block made unreadable, wipes | start-up fails only when files are really broken (`OpenFailsOnlyOnBrokenFiles`) |
| `tickets` | 2 accounts with 2 and 1 tokens, 2 tickets, charging slow enough that a downgrade falls due meanwhile | totals per account and global equal the sums over the tickets (`StatisticsMatchTickets`), schedules are consistent (`ScheduleIsConsistent`), an update touches only its own tickets (`UpdateProcessesOwnTickets`) |
| `ticket_terms` | one ticket over a time in which it reaches its longest term and is refunded, or is locked for ever and fades | a refund takes the full terms, short of at most one charging step (`TermsAreServed`), locked for ever is for ever (`LockedForever`), the loop ends (`ProcessingEnds`) |
| `proposals` | 3 proposals that approve, run and delete each other, one of them with a review period, nesting limit 2, transactions that are aborted | a running proposal is in the database and approved (`RunningProposalsAreApproved`), none runs inside itself or too deep (`NoReentry`), a review period adds no approval of an account (`ReviewFreezesApprovals`), the index has no stray entries (`IndexHasNoStrangers`), executions and expiry end (`ExecutionEnds`) |
| `contracts` | a lender with 3 of one asset and a borrower with 2 of another, one offer and up to two deals, one hash time lock and one fund, of which at most one beside a deal; a fee of a quarter and a price of 2 to 1, so that divisions leave remainders; the issuer may bar the lender | the tokens in balances and contracts are always the same (`SupplyIsConserved`), an offer's balances are those of its deals (`OffersMatchDeals`), automatic repayment never exceeds balance or debt (`AutoRepaymentIsCovered`), a borrower who can pay does not lose the collateral (`SolventBorrowersKeepCollateral`), repayment never lowers the collateral per unit of debt (`DealsStaySecured`) |
| `market` | two accounts and two assets, up to 4 orders with and without take profit actions, one fill-or-kill, three ways to update, half of one asset taken as market fee, one account barred | balances, orders, deferred fees and `total_core_in_orders` add up (`BooksBalance`), links of an order and its take profit order are mutual (`LinksAreMutual`), no two orders that could match stay in the book (`BookIsSettled`), no order is used after it is removed (`NothingDangles`) |
| `sync` | a chain of 3 blocks, the last one invalid; one peer has all of it, the other gets the second block meanwhile, has lost it, and may break its connection; lists of 2 ids, one block per request, a backlog of 1 | a block is asked for from one peer at a time (`OneRequestPerBlock`), the list of each peer continues a chain we have (`ListsContinueTheChain`), blocks are handed over in an order in which they link (`SyncBlocksLink`), synchronisation ends, unless a peer lists a lost block over and over or it stops at the one place in the backlog described below (`SyncEndsOrBacklogStalls`) |

**Bounds.** Two instances and two values tell a changed, a created and a removed object
apart; three nested sessions are a block, a transaction and a proposal. Heights 5 and 6
let each fork overtake the other, once by a branch that fails, and cross the undo point.
`MaxUndoHistory` and `ReadAhead` are smaller than in the code where a run is about them,
and equal to it elsewhere. In `forks` and `restart` a fork is never so long that a switch
meets the limits of the fork database; `deep_unwind` is about those.
Two tickets are one and its split, or two that are due together; `tickets` ends before one that is
locked for ever has faded, which `ticket_terms` and the proofs reach. Three proposals with a
nesting limit of 2 reach the limit; in the code it is twice the number of witnesses. Ticket
runs stop at `MaxTime` and do not check for deadlock; neither do `contracts` and `market`, where time
and numbers of objects end and a transaction with an unpaid fund cannot end, nor `sync`, which
rests when all is done. In `contracts` the borrower can secure two deals with one unit each, or one with
both: two deals of one borrower are open on one offer, so that debts and summaries are sums, and a
deal of 3 with a collateral of 2 is repaid in part, by the borrower and automatically, with a fee
and a remainder, and releases part of its collateral. Deals meet at most one contract of
another kind (`FewContracts`); a partial repayment of one deal while the next falls due in the
same block would take a third unit of collateral and is left to the proofs. Four orders are a
taker, two makers and a take profit order. In `sync` the chains of the peers do not fork:
a fork among them multiplies the states past what TLC finishes in minutes, and ending would then
need fairness to each connection, which a loop over a list of peers does not give.

**Fairness.** `HandlersEnd` needs weak fairness of the steps of a running handler only:
the code runs them in one thread and waits for nothing. Arrivals, `close`, faults and the
start of a process that is down are not fair. In the same way `ProcessingEnds`
and `ExecutionEnds` need weak fairness of the loop or execution that is running (`Loop`, `Run`),
never of blocks or operations. `SyncEndsOrBacklogStalls` needs only that while some
code can run, some code does (`Runs`): the scheduler of fibers does not stop by itself.

**Disagreements.** Two runs show where the code does not do what its own text says:

* `deep_unwind`: a fork switch that fails at a late block of a long branch is not unwound
  (`db_block.cpp:93` promises it is): `set_max_size` has pruned what `pop_block` looks up.
* `take_profit`: an order whose `on_fill` action fires while it is matched with several makers is
  then matched with the take profit order it has just placed, at a price below its own limit. The
  end of the loop in `apply_order` was computed before, and the new order sorts ahead of it. The
  assertions at `db_market.cpp:1692` and `:1738` say such a pair does not match.

Others were met and have no run:

* On a gap, `reindex` drops blocks it had read ahead, from before the gap
  (`db_management.cpp:90`; the log says "from after the gap"). They are stored again when
  they are replayed, except those below the undo point, which are lost on disk: TLC reaches this from
  a chain of 6 blocks with an unreadable one and a wiped object database. It is why the theorems
  about the block files below suppose that reindex meets no gap.
* On a long split, blocks pushed in order are lopped off although the tree is
  far from the 1024 blocks of the comment in `fork_database.hpp:41`.
* A block that does not build on the chain, pushed to an empty fork database, stays its head
  after `push_block` threw (`db_block.cpp:136`, `fork_database.cpp:69`).
* `required_approval_index` forgets an account that withdraws its approval,
  or whose approval is undone, although the proposal still requires it
  (`proposal_object.cpp:93`; `proposal_object.hpp:36` says it tracks all of them). The index
  only answers queries; execution does not read it.
* After a block is accepted, `send_sync_block_to_node_delegate` (`node.cpp:3120`) asks for ids from
  peers whose last block it was, without looking whether a request is under way. The second request overwrites
  the first (`:2320`), the answer to the first is judged by the second, and the peer is disconnected
  (`:2399`) although it did what `:2338` expects.
* A received block that becomes the next of some list while nothing is being handed over stays in
  the backlog until another event starts `process_backlog_of_sync_blocks`; `node_impl.hxx:444` says it is
  processed when it is the next. `SyncEndsOrBacklogStalls` allows this and nothing else.
* A peer that says "not available" while it still fetches from us leaves
  `inhibit_fetching_sync_blocks` set with a list that is not empty, so that synchronisation with it
  rests until the connection ends (`node.cpp:2724`, `:978`).

* "No new approvals may be added" during review
  (`proposal_evaluator.cpp:488`), but only active and owner approvals are refused; `CanUpdate`
  accepts key approvals as the code does, and `ReviewFreezesApprovals` speaks of accounts only.

## What is proved

`UndoProofs`, for every set of indexes and values and every bound, under the assumptions
of `UndoDatabase` (`Absent` is no value and no number; bounds and sizes are naturals):

* `UndoInvariant`: `HSpec => []UndoInv`;
* `UndoSafe`: undo never throws; `SessionStatesKept`, `UndoExact` and `MergeCausal`: open sessions keep
  their states, undo restores exactly, and only the causal cells of the merge matrix occur;
* `UndoImplementsSnapshots`: `HSpec => Abstract!Spec`.

That undo restores exactly is not inductive: whether a merge of two differences is the
difference of both depends on which objects each may mention. `UndoInv` therefore says of
every level of the log (`Level`) that its three containers are disjoint and agree with what
exists before and after, and of every database (`Sane`) that ids at or above the next id
are unused, so that a created id cannot occur in an older state. `CreateLevel`,
`ModifyLevel`, `RemoveLevel` and `MergeLevel` show that recording and merging keep a level
faithful; `LevelsStart`, `LevelsPop` and `LevelsReplace` lift this to the log.

`ChainProofs`, for every tree of blocks, all witnesses, transactions and what they require and exclude,
every size of the undo log and of the read-ahead, and any number of deaths, damages and wipes, under
the assumptions of `ForkDatabase` and `ChainDatabase` (a block has the number after its
predecessor's; sizes are naturals):

* `OldBranchAppliesAgainHolds`: no block of the old branch throws when it is pushed again after a
  failed fork switch, where the handler would not catch it;
* `PendingSessionMatchesHolds`: what the comment on `_pending_tx` promises, between any two handlers;
* `SavedStateStaysOnChainHolds`: no fork switch pops below the state on disk;
* `UndoHasNoGapHolds`: the undo log is that of the last blocks of the chain, in every state;
* `ChainIsOnDiskHolds` and `IrreversibleIsDurableHolds`: the blocks of the chain are on disk in every state, and a process
  that dies leaves all irreversible ones there. Both suppose that no block file is damaged and
  that reindex meets no gap (`Intact`; see above what happens otherwise), the second also that
  there are two witnesses or more: a single one makes its own last block irreversible at once, before
  it is written.

The key is that a state reached by applying blocks is determined by its chain alone (`SameState`), the
irreversible number included, and so is whether the next block throws (`NextApplies`). A block of the old branch
has been applied once on the same chain, so it applies again. `ChainInv` says that the database, without its
pending session, every state in the undo log and the state on disk are such states (`Sound`) and that their
chains are prefixes of one chain (`Holds`); it says of a fork switch that the two branches part at one
number and that the chain agrees with the old one below it (`OnFork`), and of reindex what is
queued (`QueueOK`). `Holds` counts: the length of the saved chain and of the log together do not exceed the chain, so
that popping stops above the state on disk. `DiskInv` adds that the saved chain and the current chain
are both on disk, and that the one store a crash may take back is at the head of the chain or beyond
(`OnFiles`). What is irreversible lies below the head as soon as two witnesses have to confirm it.

`TicketProofs`, for every finite set of accounts, all amounts, block intervals and durations, and
any number of tickets, under `TicketAssumption` (durations are positive, and no time within
the bound reaches `time_point_sec::maximum()`):

* `SchedulesConsistent`, `ValuesFollowTypes`, `NeverOverdue`: `ScheduleIsConsistent`,
  `ValueFollowsType` and `NothingOverdue` always hold;
* `UpdateIsLocal`: what the comment in `ticket_evaluator.cpp:116` says of calling
  `process_tickets` from `ticket_update`;
* `ForeverIsForever`: `LockedForever`;
* `StatisticsAlwaysMatch`: `StatisticsMatchTickets`;
* `TermsServed`: `TermsAreServed`, for every charging step and all terms.

The first five rest on `TicketInvariant`: each ticket has its type, its schedule and its value
(`TicketOK`), and whatever is due while `loop` is "update" was written by the running
update. The last is what makes `UpdateIsLocal` inductive: it needs that nothing was due
before, which in turn needs that the loop of every block ran to its end. One lemma per
operation on a ticket shows that it keeps `TicketOK`.

The statistics need more (`StatInv`). Inside the loop the global totals are behind, by what
`process_tickets` has collected in its two local differences; the invariant says that total and
difference together are the sums over the accounts (`DeltasMatch`), and that nothing is collected when no loop runs.
Every step is then shown to move a statistic and the sum over the tickets by the same amount.
It uses `TicketInv`, because the code decides by the type of a ticket which statistic it moves and by
how much, and takes for granted that the value stored in it is the one that was added before.

The terms need `TermsInv`. For each type a ticket has had, the earliest time of a refund that this allows lies
before every refund the ticket can still reach: by going down from its type now, or after one more
charge (`Served`). A charge may complete when the time of a downgrade that had been started is past; the
next downgrade is then counted from that time and not from the clock. `Prompt` bounds what this gains: a
charging ticket reaches its next type less than one charging step after such a time.

`ProposalProofs`, for every set of accounts, all lists of operations, any number of proposals, all times
and nesting limits, under `ProposalAssumption` (lifetimes are positive, lists hold operations of the kinds
modelled, and none that only a key can authorize):

* `RunningApproved`, `NoReentryEver`, `ReviewFreezes` and `NoStrangers`: the four safety properties of the run.

None of them is inductive, because a proposal or a transaction that fails puts an older state back.
`ProposalInv` therefore speaks of every state that an open session can restore (`Sessions`). In each, ids
are below the next id and a proposal refers to older ones only (`RefersBack`, which is what the check of hard
fork 1479 establishes once, when a proposal is created), an id stands for the same operations in all of
them (`SameOps`), and approvals in review are frozen (`Frozen`). Of the stack it says that each running proposal
may run in the current state and also in the states that failures of the proposals inside it restore
(`StackOK`). With these `NoReentry` follows: what an operation of a proposal starts is older than the
proposal, so ids fall strictly along the stack; and for the same reason nothing inside a running
proposal can withdraw an approval of it or delete it.

`ContractProofs`, for every set of accounts and assets, all amounts, rates, terms and numbers of
contracts, under the assumptions of the contract modules (naturals where the code has amounts and times;
the denominator of rates is positive; prices are positive):

* `Invariance`: `Spec => []ContractInv`;
* `AutoRepaymentIsCoveredAlways`, `SolventBorrowersKeepCollateralAlways`, `DealsStaySecuredAlways`: three
  of the properties of the run;
* `NothingOverdueAlways`: no hash time lock and no deal is past its time when a block has ended.

`ContractInv` is the types, which carry that no balance is negative and that a deal has debt and
collateral left (`TypeInv`); that once contracts are cleared and offers disabled they stay so until the
block is done (`Cleared`); that a deal past due can no longer be repaid in full (`PastDueOK`); and that the id of
a deal is new (`IdsOK`). `PastDueOK` needs the arithmetic: what a partial repayment, a quotient rounded
down with a fee rounded up, leaves of debt and balance cannot be paid in full either (`PartialFits`, `FeeOnParts`).

`ContractSums`, under the same assumptions and for every finite set of accounts:

* `SupplyIsConservedAlways`: `SupplyIsConserved`;
* `OffersMatchDealsAlways`: `OffersMatchDeals`.

The invariant is `SumInv`: the types; that ids are at most the counters, so that tables are finite and what is
created is new (`TablesOK`); that a deal is in the asset of its offer, that a summary belongs to an offer and an account that
exist, and that it is never 0 (`DebtsOK`); and the conservation itself. `DebtsOK` is needed by the conservation:
a repayment or a write-off is booked on the offer in the offer's asset. A lemma per kind of change
(`OwnedMoves`, `DealChanged`, `DealGone`, `DealNew`, ...) says how the sums move, one per handler
that the movements cancel.

`SyncProofs`, for every tree of blocks, whatever chains the peers have and get, all limits of the node and
every finite set of peers (`PeerAssumption`):

* `OneRequestHolds`: `OneRequestPerBlock`.

The invariant, `RequestInv`, adds that a closed connection has no requests, so that a new one, which starts with an
empty record, loses none. Most handlers leave the requests alone, through whatever suspended calls they go on; one
lemma (`QuietInv`) covers them, and a lemma per kind of handler shows that it applies. `PlanFact` is about
the loop over the idle peers in `fetch_sync_items_loop`: by going through its iterations, in any order of the peers,
no block is planned twice or planned though it was received or asked for before. `RequestEnds` covers the three
ways in which a request ends: the block comes, the peer does not have it, the connection is gone. That the
requests of the peers are disjoint is what lets the code drop a block from `_active_sync_requests` when
one of them answers.

`ArithmeticProofs` has no state. `MatchIsFair` says for all amounts and prices that a match asks of neither order more
than it has, gives the larger one no less than its price, and leaves nothing of the smaller
one that is worth anything. It rests on lemmas about division and on which order is the smaller.
The rest is what the proofs about totals use: how `SumFunction` of the library moves when one summand
changes, is added or is removed (`TotalChanged`, `TotalAdded`, `TotalRemoved`). As the provers cannot instantiate
an induction rule, these are shown by a smallest counterexample: among the subsets of a finite set for which a law
of sums fails, one is minimal (`MinimalSubset`, from the well-foundedness of the naturals), and taking an
element out of it leaves a set for which the law holds.

Only model-checked:

* liveness (`HandlersEnd`, `ProcessingEnds`, `ExecutionEnds`, `SyncEndsOrBacklogStalls`), which is out of reach of
  the prover;
* LimitOrders: the matching loop is a RECURSIVE operator, about which the prover cannot reason;
* of ChainDatabase, what depends on the instance: `ForkDatabaseFollowsChain`, `FailedPushIsUnwound`,
  `SwitchCanPop` and the length of the log in `UndoFollowsChain` hold only while a fork is shorter than the limits of
  the fork database, as `deep_unwind` shows, and that nothing is on disk beyond the head (`DiskHoldsChain`), that start-up
  fails only on mixed forks or broken files, and that no transaction is lost rest on them;
* of BlockSync, `ListsContinueTheChain` and `SyncBlocksLink`: lists and backlog depend on each other through
  suspended handlers of every kind, and on what synopses and replies are computed to be.

## What is not modelled

* Secondary keys and the order in which undo restores objects; time in the chain model.
* Witness schedule, production against the clock, maintenance, votes, budgets, committee: the
  chain model takes the witness of a block as given.
* Market-issued assets: feeds, call orders, force and global settlement, collateral bids.
* Vesting, withdrawal permissions, liquidity pools, tanks and taps, confidential transfers,
  custom authorities and the recursive check of authorities.
* Of the network: handshake, addresses, inventory of a node in sync, encryption, the wire format.
* Plugins, API, wallet and programs, which observe the chain or call it.

`PROJECT.json` gives the reason for each.
