-------------------------------- MODULE Prices ---------------------------------
(***************************************************************************)
(* Prices as the protocol has them (price, asset::operator*, asset::       *)
(* multiply_and_round_up): a price is a pair of amounts, base for quote.   *)
(* The two assets of a price are left out: every use says in which one an  *)
(* amount is.  And the amounts that a match of two limit orders exchanges. *)
(***************************************************************************)
EXTENDS Integers

Price == [base : Nat \ {0}, quote : Nat \ {0}]

(* operator < of two prices between the same assets.                       *)
Less(p, q) == p.base * q.quote < q.base * p.quote

(* operator ~                                                              *)
Inverted(p) == [base |-> p.quote, quote |-> p.base]

RoundUp(x, y) == (x + y - 1) \div y

(* An amount of the base, in the quote.                                    *)
Times(x, p) == (x * p.quote) \div p.base
multiply_and_round_up(x, p) == RoundUp(x * p.quote, p.base)

(* operator * with a ratio.                                                *)
Scaled(p, n, d) == [base |-> p.base * n, quote |-> p.quote * d]

(* What a taker with t for sale and a maker with m for sale exchange at    *)
(* the maker's price p.  The smaller order receives what the price gives   *)
(* it, rounded down, and pays the least that is worth that much.           *)
MatchAmounts(t, m, p) ==
    IF t <= Times(m, p)
    THEN LET receives == Times(t, Inverted(p))
         IN  [taker_receives |-> receives, cull_taker |-> TRUE,
              maker_receives |-> multiply_and_round_up(receives, p)]
    ELSE LET receives == Times(m, p)
         IN  [maker_receives |-> receives, cull_taker |-> FALSE,
              taker_receives |-> multiply_and_round_up(receives, Inverted(p))]
================================================================================
