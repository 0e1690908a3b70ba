------------------------------- MODULE MCMarket --------------------------------
(* Two accounts trade the core asset c for x, and may repeat their taking  *)
(* of profits.  Half of x is a market fee, so that amounts get small.  In  *)
(* LargeTaker an order is larger than two makers together.                 *)
EXTENDS MarketProperties

MCSupply == ("a" :> [c |-> 12, x |-> 1]) @@ ("b" :> [c |-> 9, x |-> 4])
MCMarketFee == [c |-> 0, x |-> 1]
NoMarketFee == [s \in Asset |-> 0]
MCBarred == {<<"a", "x">>}

Take(again) == [spread_percent |-> 1, size_percent |-> 2, expiration_seconds |-> 1,
                repeat |-> again]

Sells(a, s, r, x, y, action) ==
    [seller |-> a, sell |-> s, receive |-> r, amount_to_sell |-> x, min_to_receive |-> y,
     expiration |-> 1, on_fill |-> action, fill_or_kill |-> FALSE]
OrKill(op) == [op EXCEPT !.fill_or_kill = TRUE]

Change(price, delta, until, action) ==
    [new_price |-> price, delta_amount_to_sell |-> delta, new_expiration |-> until,
     on_fill |-> action]

MCCreations ==
    {Sells("a", "c", "x", 6, 4, Take(TRUE)), Sells("a", "c", "x", 2, 1, NoAction),
     Sells("b", "x", "c", 1, 1, Take(TRUE)), OrKill(Sells("b", "x", "c", 2, 3, Take(FALSE)))}
MCUpdates ==
    {Change([base |-> 1, quote |-> 1], 0, Keep, Keep), Change(Keep, -1, 2, Keep),
     Change(Keep, 1, Keep, NoAction)}

LargeTaker ==
    {Sells("a", "c", "x", 6, 4, Take(FALSE)), Sells("b", "x", "c", 1, 1, NoAction)}
================================================================================
