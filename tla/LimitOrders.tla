------------------------------ MODULE LimitOrders ------------------------------
(***************************************************************************)
(* The limit orders between assets that are not market-issued: placing,    *)
(* updating, cancelling and expiry (limit_order_*_evaluator,               *)
(* clear_expired_orders), and the matching they start (apply_order, match, *)
(* fill_limit_order).  An order may carry an action: when it is filled,    *)
(* even in part, an order that takes the profit is placed, or updated,     *)
(* by a virtual operation in the middle of the match, and matches in turn. *)
(*                                                                         *)
(* All of it runs in one thread inside one operation, so the functions of  *)
(* the database are operators from a database to a database.  `failed' is  *)
(* an exception on its way up: it ends the operation, or the virtual       *)
(* operation, whose undo session brings the database from before back.     *)
(* `dangling' says that the code went on with a reference or an iterator   *)
(* to an order that was no longer there.  Fees are paid in the core asset. *)
(***************************************************************************)
EXTENDS Prices, FiniteSets, FiniteSetsExt, Functions, TLC

CONSTANTS
    Account, Asset, Core,
    Supply,                 \* Supply[a][s]: what account a owns of asset s at first
    MaxOrders,              \* bound: the number of orders ever created
    MaxTime,                \* bound: the last block time considered
    MayBeBarred,            \* the pairs <<account, asset>> an issuer may bar
    CreateFee, UpdateFee, CancelFee,
    Hundred,                \* GRAPHENE_100_PERCENT
    maker_fee_discount_percent,
    market_fee_percent,     \* of every asset, for makers and takers
    NoAction, Keep,         \* no on_fill action; on_fill is left as it is
    Creations, Updates      \* the operations the accounts may send

OptionalAction ==
    {NoAction} \cup [spread_percent : Nat \ {0}, size_percent : 1..Hundred,
                     expiration_seconds : Nat \ {0}, repeat : BOOLEAN]

(* What validate() of the operations lets through.                         *)
ASSUME OperationAssumption ==
    /\ \A op \in Creations :
          /\ op.seller \in Account /\ {op.sell, op.receive} \subseteq Asset
          /\ op.sell # op.receive
          /\ op.amount_to_sell \in Nat \ {0} /\ op.min_to_receive \in Nat \ {0}
          /\ op.expiration \in Nat /\ op.on_fill \in OptionalAction
          /\ op.fill_or_kill \in BOOLEAN
    /\ \A u \in Updates :
          /\ u.new_price \in Price \cup {Keep} /\ u.delta_amount_to_sell \in Int
          /\ u.new_expiration \in Nat \cup {Keep} /\ u.on_fill \in OptionalAction \cup {Keep}
          /\ u # [new_price |-> Keep, delta_amount_to_sell |-> 0,
                  new_expiration |-> Keep, on_fill |-> Keep]

ASSUME MarketAssumption ==
    /\ Core \in Asset /\ Supply \in [Account -> [Asset -> Nat]]
    /\ {CreateFee, UpdateFee, CancelFee, MaxOrders, MaxTime} \subseteq Nat
    /\ Hundred \in Nat \ {0} /\ maker_fee_discount_percent \in 0..Hundred
    /\ market_fee_percent \in [Asset -> 0..Hundred]
VARIABLES
    db,                     \* the database
    now,                    \* head_block_time
    barred                  \* the pairs that are not authorized at present

vars == <<db, now, barred>>

Init ==
    /\ db = [balance |-> Supply, orders |-> <<>>, order_count |-> 0,
             total_core_in_orders |-> [a \in Account |-> 0],
             fees |-> 0, accumulated_fees |-> [s \in Asset |-> 0],
             matches |-> {}, failed |-> FALSE, dangling |-> FALSE]
    /\ now = 0
    /\ barred = {}

-----------------------------------------------------------------------------
(* Helpers on the database                                                 *)

Failed(d) == [d EXCEPT !.failed = TRUE]

adjust_balance(d, a, s, x) ==
    [d EXCEPT !.balance[a][s] = @ + x, !.failed = @ \/ d.balance[a][s] + x < 0]

InOrders(d, a, s, x) ==
    IF s = Core THEN [d EXCEPT !.total_core_in_orders[a] = @ + x] ELSE d

is_authorized_asset(a, s) == <<a, s>> \notin barred

calculate_percent(x, percent) == (x * percent) \div Hundred

(* The index by_price: the highest price first, then the lowest id.        *)
Side(d, s, r) == {i \in DOMAIN d.orders : d.orders[i].sell = s /\ d.orders[i].receive = r}

Precedes(d, i, j) ==
    LET p == d.orders[i].sell_price
        q == d.orders[j].sell_price
    IN  Less(q, p) \/ (~Less(p, q) /\ i < j)

First(d, S) == IF S = {} THEN 0 ELSE CHOOSE i \in S : \A j \in S \ {i} : Precedes(d, i, j)

After(d, i) ==
    First(d, {j \in Side(d, d.orders[i].sell, d.orders[i].receive) :
                 j # i /\ Precedes(d, i, j)})

(* Links an order to another; it must be there.                            *)
Linked(d, i, j) ==
    IF i = 0 THEN d
    ELSE IF i \notin DOMAIN d.orders THEN Failed(d)
    ELSE [d EXCEPT !.orders[i].take_profit_order_id = j]

amount_to_receive(o) == Times(o.for_sale, o.sell_price)

-----------------------------------------------------------------------------
(* Cancelling                                                              *)

(* Wrong: the order that was linked keeps its link.                        *)
cleanup_and_remove_keeps_link(d, i) ==
    [d EXCEPT !.orders = Restrict(@, DOMAIN @ \ {i})]

cleanup_and_remove_limit_order(d, i) ==
    [Linked(d, d.orders[i].take_profit_order_id, 0) EXCEPT
        !.orders = Restrict(@, DOMAIN @ \ {i})]

(* With a virtual operation (expiry and culling) a fee is deducted.        *)
cancel_limit_order(d, i, create_virtual_op) ==
    LET o   == d.orders[i]
        fee == IF create_virtual_op THEN Min({CancelFee, o.deferred_fee}) ELSE 0
        out == InOrders(adjust_balance(d, o.seller, o.sell, o.for_sale),
                        o.seller, o.sell, -o.for_sale)
        refunded == adjust_balance([out EXCEPT !.fees = @ + fee],
                                   o.seller, Core, o.deferred_fee - fee)
    IN  cleanup_and_remove_limit_order(refunded, i)

maybe_cull_small_order(d, i) ==
    IF amount_to_receive(d.orders[i]) = 0 THEN cancel_limit_order(d, i, TRUE) ELSE d

-----------------------------------------------------------------------------
(* Placing and updating                                                    *)

RECURSIVE apply_order(_, _), match_rest(_, _, _, _)

(* The fee of an operation is deducted when it has been applied.           *)
Charged(d, a, fee) == adjust_balance(d, a, Core, -fee)

(* An order that must be filled at once, and was not, is an error.         *)
Settled(d, i, op) ==
    IF op.fill_or_kill /\ i \in DOMAIN d.orders THEN Failed(d)
    ELSE Charged(d, op.seller, CreateFee)

limit_order_create(d, op) ==
    LET i     == d.order_count + 1
        order == [seller |-> op.seller, sell |-> op.sell, receive |-> op.receive,
                  for_sale |-> op.amount_to_sell,
                  sell_price |-> [base |-> op.amount_to_sell, quote |-> op.min_to_receive],
                  expiration |-> op.expiration, deferred_fee |-> CreateFee,
                  on_fill |-> op.on_fill, take_profit_order_id |-> 0]
        paid   == InOrders(adjust_balance(d, op.seller, op.sell, -op.amount_to_sell),
                           op.seller, op.sell, op.amount_to_sell)
        placed == [paid EXCEPT !.orders = (i :> order) @@ @, !.order_count = i]
    IN  IF /\ op.expiration >= now
           /\ is_authorized_asset(op.seller, op.sell)
           /\ is_authorized_asset(op.seller, op.receive)
           /\ d.balance[op.seller][op.sell] >= op.amount_to_sell
        THEN Settled(apply_order(placed, i), i, op)
        ELSE Failed(d)

(* Wrong: what is kept of the fee is not counted as paid.                  *)
process_deferred_fee_lost(d, i) ==
    LET o   == d.orders[i]
        fee == Min({IF CreateFee > 0 THEN (CancelFee * UpdateFee) \div CreateFee
                    ELSE CancelFee, o.deferred_fee})
    IN  IF o.deferred_fee = 0 THEN d
        ELSE adjust_balance(d, o.seller, Core, o.deferred_fee - fee)

(* Part of the fee of placing the order is kept, as for a cancellation.    *)
process_deferred_fee(d, i) ==
    LET o   == d.orders[i]
        fee == Min({IF CreateFee > 0 THEN (CancelFee * UpdateFee) \div CreateFee
                    ELSE CancelFee, o.deferred_fee})
    IN  IF o.deferred_fee = 0 THEN d
        ELSE adjust_balance([d EXCEPT !.fees = @ + fee], o.seller, Core, o.deferred_fee - fee)

is_linked_tp_order_compatible(old, new) ==
    \/ new = Keep
    \/ new = NoAction /\ old = NoAction
    \/ /\ new # NoAction /\ old # NoAction
       /\ new.spread_percent = old.spread_percent /\ new.repeat = old.repeat

Unlinked(d, i) == Linked(Linked(d, d.orders[i].take_profit_order_id, 0), i, 0)

limit_order_update(d, i, op, skip_price_check) ==
    LET o      == d.orders[i]
        delta  == op.delta_amount_to_sell
        amount == o.for_sale + delta
        price  == IF op.new_price = Keep THEN o.sell_price ELSE op.new_price
        moved  == Less(price, o.sell_price) \/ Less(o.sell_price, price)
        paid   == process_deferred_fee(
                     InOrders(adjust_balance(d, o.seller, o.sell, -delta),
                              o.seller, o.sell, delta), i)
        unlink == /\ o.take_profit_order_id # 0
                  /\ \/ ~skip_price_check /\ moved
                     \/ ~is_linked_tp_order_compatible(o.on_fill, op.on_fill)
        updated ==
            [(IF unlink THEN Unlinked(paid, i) ELSE paid) EXCEPT
                !.orders[i].sell_price = price,
                !.orders[i].for_sale = amount,
                !.orders[i].expiration = IF op.new_expiration = Keep THEN @
                                         ELSE op.new_expiration,
                !.orders[i].deferred_fee = UpdateFee,
                !.orders[i].on_fill = IF op.on_fill = Keep THEN @ ELSE op.on_fill]
    IN  IF /\ amount > 0
           /\ op.new_price # Keep =>
                 price.base <= Max({o.for_sale, o.sell_price.base}) + delta
           /\ op.new_price # Keep \/ delta < 0 => Times(amount, price) > 0
           /\ op.new_expiration # Keep => op.new_expiration >= now
           /\ is_authorized_asset(o.seller, o.sell)
           /\ is_authorized_asset(o.seller, o.receive)
        THEN Charged(apply_order(updated, i), o.seller, UpdateFee)
        ELSE Failed(d)

-----------------------------------------------------------------------------
(* Filling                                                                 *)

(* try_push_virtual_operation: what a failed one did is undone.            *)
Virtual(d, after) == IF after.failed THEN d ELSE after

(* The price at which an order takes its profit, for an amount x.          *)
TakeProfitPrice(o, x) ==
    LET p == Scaled(Inverted(o.sell_price), Hundred, Hundred + o.on_fill.spread_percent)
    IN  [base |-> x, quote |-> multiply_and_round_up(x, p)]

(* The defensive check that the new price does not match the order.        *)
Apart(o, price) == Less(o.sell_price, Inverted(price))

process_limit_order_on_fill(d, i, received) ==
    LET o      == d.orders[i]
        linked == o.take_profit_order_id
        action == o.on_fill
        amount == RoundUp(received * action.size_percent, Hundred)
        until  == now + action.expiration_seconds
        price  == IF linked = 0 THEN TakeProfitPrice(o, amount)
                  ELSE TakeProfitPrice(o, d.orders[linked].for_sale + amount)
        moves  == linked = 0 \/ linked > i
    IN  IF action = NoAction \/ received = 0 \/ (moves /\ ~Apart(o, price)) THEN d
        ELSE IF linked # 0
        THEN Virtual(d, limit_order_update(d, linked,
                [new_price |-> IF moves THEN price ELSE Keep, delta_amount_to_sell |-> amount,
                 new_expiration |-> until, on_fill |-> Keep], TRUE))
        ELSE Virtual(d, limit_order_create(d,
                [seller |-> o.seller, sell |-> o.receive, receive |-> o.sell,
                 amount_to_sell |-> amount, min_to_receive |-> price.quote,
                 expiration |-> until, fill_or_kill |-> FALSE,
                 on_fill |-> IF action.repeat THEN action ELSE NoAction]))

(* The order pays and receives; the fee that was deferred becomes due, a   *)
(* maker gets a discount.                                                  *)
pay_order(d, i, pays, receives, is_maker) ==
    LET o        == d.orders[i]
        fee      == calculate_percent(receives, market_fee_percent[o.receive])
        discount == IF is_maker THEN calculate_percent(o.deferred_fee, maker_fee_discount_percent)
                    ELSE 0
        credited == InOrders(adjust_balance(d, o.seller, o.receive, receives - fee),
                             o.seller, o.sell, -pays)
    IN  adjust_balance([credited EXCEPT !.accumulated_fees[o.receive] = @ + fee,
                                        !.fees = @ + o.deferred_fee - discount],
                       o.seller, Core, discount)

(* The rest of fill_limit_order: the order is removed, or linked to the    *)
(* order that was created between the databases d and e.                   *)
Reduced(d, e, i, pays, cull_if_small) ==
    LET new  == IF d.orders[i].take_profit_order_id = 0 /\ e.order_count > d.order_count
                THEN d.order_count + 1 ELSE 0
        part == [Linked(e, new, i) EXCEPT
                    !.orders[i].for_sale = @ - pays, !.orders[i].deferred_fee = 0,
                    !.orders[i].take_profit_order_id = IF new # 0 THEN new ELSE @]
    IN  IF e.failed THEN e
        ELSE IF i \notin DOMAIN e.orders THEN [e EXCEPT !.dangling = TRUE]
        ELSE IF pays = e.orders[i].for_sale THEN cleanup_and_remove_limit_order(e, i)
        ELSE IF cull_if_small THEN maybe_cull_small_order(part, i) ELSE part

fill_limit_order(d, i, pays, receives, cull_if_small, is_maker) ==
    LET o   == d.orders[i]
        fee == calculate_percent(receives, market_fee_percent[o.receive])
    IN  Reduced(d, process_limit_order_on_fill(pay_order(d, i, pays, receives, is_maker), i,
                                               receives - fee), i, pays, cull_if_small)

-----------------------------------------------------------------------------
(* Matching                                                                *)

(* After the taker was filled, in the database d, and the maker too: the   *)
(* loop uses the taker again unless its own fill has removed it.           *)
Matched(d, e, t, m) ==
    IF t \notin DOMAIN d.orders \/ e.failed THEN e
    ELSE IF m \in DOMAIN e.orders THEN Failed(e)
    ELSE [e EXCEPT !.dangling = @ \/ t \notin DOMAIN e.orders]

fill_maker(d, t, m, x) ==
    IF d.failed \/ d.dangling THEN d
    ELSE IF m \notin DOMAIN d.orders THEN [d EXCEPT !.dangling = TRUE]
    ELSE Matched(d, fill_limit_order(d, m, x.taker_receives, x.maker_receives, TRUE, TRUE),
                 t, m)

match(d, t, m) ==
    LET taker == d.orders[t]
        maker == d.orders[m]
        x     == MatchAmounts(taker.for_sale, maker.for_sale, maker.sell_price)
        noted == [d EXCEPT !.matches = @ \cup
                    {[linked |-> taker.take_profit_order_id = m, amounts |-> x]}]
    IN  IF x.cull_taker /\ x.taker_receives = 0 THEN d
        ELSE fill_maker(fill_limit_order(noted, t, x.maker_receives, x.taker_receives,
                                         x.cull_taker, FALSE), t, m, x)

(* Wrong: the loop ends after one maker.                                   *)
go_on_once(d, t, i, next, end) == d

(* Wrong: the loop goes on when both orders were filled.                   *)
go_on_filled(d, t, i, next, end) ==
    IF d.failed \/ d.dangling \/ i \in DOMAIN d.orders THEN d
    ELSE IF {t, next, end} \subseteq DOMAIN d.orders \cup {0} THEN match_rest(d, t, next, end)
    ELSE [d EXCEPT !.dangling = TRUE]

(* The loop over the opposite side, from the order i up to the order end;  *)
(* both are iterators into the index, and 0 is its end.  It goes on when   *)
(* the maker alone was filled.                                             *)
go_on(d, t, i, next, end) ==
    IF d.failed \/ d.dangling \/ t \notin DOMAIN d.orders \/ i \in DOMAIN d.orders THEN d
    ELSE IF {next, end} \subseteq DOMAIN d.orders \cup {0} THEN match_rest(d, t, next, end)
    ELSE [d EXCEPT !.dangling = TRUE]

match_rest(d, t, i, end) ==
    IF i = end THEN d
    ELSE IF i = 0 THEN [d EXCEPT !.dangling = TRUE]
    ELSE go_on(match(d, t, i), t, i, After(d, i), end)

(* What is left of the taker may be too small to stay.                     *)
Culled(d, i) ==
    IF d.failed \/ d.dangling \/ i \notin DOMAIN d.orders THEN d
    ELSE maybe_cull_small_order(d, i)

apply_order(d, i) ==
    LET o        == d.orders[i]
        opposite == Side(d, o.receive, o.sell)
        too_low  == {j \in opposite : Less(d.orders[j].sell_price, Inverted(o.sell_price))}
    IN  IF First(d, Side(d, o.sell, o.receive)) # i THEN d
        ELSE Culled(match_rest(d, i, First(d, opposite), First(d, too_low)), i)

-----------------------------------------------------------------------------
(* The operations and the end of a block                                   *)

Fresh == [db EXCEPT !.matches = {}]

Done(d) ==
    /\ ~db.dangling
    /\ ~d.failed /\ d.order_count <= MaxOrders
    /\ db' = d
    /\ UNCHANGED <<now, barred>>

create_order(op) == Done(limit_order_create(Fresh, op))

update_order(i, op) == Done(limit_order_update(Fresh, i, op, FALSE))

limit_order_cancel(i) ==
    Done(Charged([cancel_limit_order(Fresh, i, FALSE) EXCEPT !.fees = @ + CancelFee],
                 db.orders[i].seller, CancelFee))

(* An issuer blacklists an account for its asset, or takes it off again.   *)
account_whitelist(p) ==
    /\ barred' = IF p \in barred THEN barred \ {p} ELSE barred \cup {p}
    /\ UNCHANGED <<db, now>>

(* The next block: time moves on and the orders that expired are cancelled.*)
clear_expired_orders ==
    /\ now < MaxTime
    /\ now' = now + 1
    /\ db' = FoldSet(LAMBDA i, d : cancel_limit_order(d, i, TRUE), Fresh,
                     {i \in DOMAIN db.orders : db.orders[i].expiration <= now + 1})
    /\ UNCHANGED barred

Next ==
    \/ \E op \in Creations : create_order(op)
    \/ \E i \in DOMAIN db.orders, op \in Updates : update_order(i, op)
    \/ \E i \in DOMAIN db.orders : limit_order_cancel(i)
    \/ \E p \in MayBeBarred : account_whitelist(p)
    \/ clear_expired_orders

Spec == Init /\ [][Next]_vars
================================================================================
