--------------------------- MODULE MarketProperties ----------------------------
(* What the market for limit orders promises.                              *)
EXTENDS LimitOrders

SumOf(f(_), S) == MapThenSumSet(f, S)

(* Whatever orders are placed, filled, updated, culled, cancelled or       *)
(* expired, in whatever nesting, no token appears or disappears: the       *)
(* balances, the orders, the fees deferred in them, the fees paid and      *)
(* those accumulated for an issuer add up to the supply.  And the          *)
(* statistics of an account, which count as voting stake and are kept by   *)
(* differences in four functions, hold what it has of the core asset in    *)
(* orders.                                                                 *)
BooksBalance ==
    /\ \A s \in Asset :
          SumOf(LAMBDA a : db.balance[a][s], Account)
             + SumOf(LAMBDA i : IF db.orders[i].sell = s THEN db.orders[i].for_sale ELSE 0,
                     DOMAIN db.orders)
             + (IF s = Core
                THEN db.fees + SumOf(LAMBDA i : db.orders[i].deferred_fee, DOMAIN db.orders)
                ELSE 0)
             + db.accumulated_fees[s]
          = SumOf(LAMBDA a : Supply[a][s], Account)
    /\ \A a \in Account :
          db.total_core_in_orders[a]
          = SumOf(LAMBDA i : IF db.orders[i].seller = a /\ db.orders[i].sell = Core
                             THEN db.orders[i].for_sale ELSE 0, DOMAIN db.orders)

(* A link to a take profit order leads to an order of the same seller on   *)
(* the other side of the market that links back, so that removing either   *)
(* finds the other (cleanup_and_remove_limit_order), and it was filled or  *)
(* placed by the action one of the two carries.                            *)
LinksAreMutual ==
    \A i \in DOMAIN db.orders :
       LET o == db.orders[i]
           j == o.take_profit_order_id
       IN  j # 0 => /\ j \in DOMAIN db.orders
                    /\ db.orders[j].take_profit_order_id = i
                    /\ db.orders[j].seller = o.seller
                    /\ db.orders[j].sell = o.receive /\ db.orders[j].receive = o.sell
                    /\ o.on_fill # NoAction \/ db.orders[j].on_fill # NoAction

(* Between operations no two orders match, though apply_order looks at an  *)
(* order only when it is at the front of its side, and every order is      *)
(* worth something at its price, so that as a maker it never pays for      *)
(* nothing (match_limit_normal_limit).                                     *)
BookIsSettled ==
    \A i \in DOMAIN db.orders :
       LET o == db.orders[i]
       IN  /\ amount_to_receive(o) > 0
           /\ \A j \in Side(db, o.receive, o.sell) :
                 Less(db.orders[j].sell_price, Inverted(o.sell_price))

(* Filling an order can place, fill, cull and remove others before it      *)
(* returns, but apply_order, match and fill_limit_order never go on with   *)
(* an order, or an iterator to one, that was removed below them.           *)
NothingDangles == ~db.dangling

(* The assertions in process_limit_order_on_fill: "the take profit order   *)
(* should not match the current order".  No order is matched with the      *)
(* order that takes its profit.                                            *)
LinkedOrdersNeverMatch == \A x \in db.matches : ~x.linked
================================================================================
