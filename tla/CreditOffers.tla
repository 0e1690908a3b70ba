------------------------------ MODULE CreditOffers ------------------------------
(***************************************************************************)
(* Credit offers and the deals made on them (credit_offer_evaluator,       *)
(* update_credit_offers_and_deals).  An offer lends against collateral; a  *)
(* deal is repaid by its borrower, in parts or at once, or is settled when *)
(* its time is up: after an automatic repayment, if the borrower asked for *)
(* one and it succeeds, what is left of the collateral goes to the lender. *)
(***************************************************************************)
EXTENDS Accounts

CONSTANTS
    MaxOffers, MaxDeals,    \* bounds: how many are ever created
    Terms,                  \* the terms an offer may be given
    MaxOfferSecs            \* GRAPHENE_MAX_CREDIT_OFFER_DAYS, in seconds

(* acceptable_collateral maps an asset to its price, acceptable_borrowers  *)
(* an account to the most it may owe; empty, it admits everyone.           *)
Term ==
    [fee_rate : Nat, max_duration_seconds : Nat, min_deal_amount : Nat,
     enabled : BOOLEAN, auto_disable_time : Nat,
     acceptable_collateral : {t.acceptable_collateral : t \in Terms},
     acceptable_borrowers : {t.acceptable_borrowers : t \in Terms}]

ASSUME CreditAssumption ==
    /\ MaxOffers \in Nat /\ MaxDeals \in Nat /\ MaxOfferSecs \in Nat
    /\ Terms \subseteq Term
    /\ \A t \in Terms : \A s \in DOMAIN t.acceptable_collateral :
          /\ s \in Asset
          /\ t.acceptable_collateral[s] \in [base : Nat \ {0}, quote : Nat \ {0}]

VARIABLES
    offers, offer_count,    \* the offers, by id, and how many were created
    deals, deal_count,      \* the deals, by id, and how many were created
    summaries,              \* total_debt_amount by <<offer, borrower>>
    past_due                \* the deal whose time is up and that still exists
                            \* after its automatic repayment, as a set

credit_vars == <<offers, offer_count, deals, deal_count, summaries, past_due>>

CreditInit ==
    /\ offers = <<>> /\ offer_count = 0
    /\ deals = <<>> /\ deal_count = 0
    /\ summaries = <<>>
    /\ past_due = {}

auto_repay_type == {"none", "only_full", "allow_partial"}

(* The checks on when an enabled offer will be disabled.                   *)
TimeAllowed(t) ==
    t.enabled => /\ t.auto_disable_time > now
                 /\ t.auto_disable_time - now <= MaxOfferSecs

credit_offer_create(a, s, amount, t) ==
    /\ phase = "open" /\ offer_count < MaxOffers
    /\ s \notin DOMAIN t.acceptable_collateral
    /\ TimeAllowed(t)
    /\ is_authorized_asset(a, s)
    /\ Covers(a, s, amount)
    /\ balance' = adjust_balance(balance, a, s, -amount)
    /\ offers' = Added(offers, offer_count + 1,
                       [owner_account |-> a, asset_type |-> s, total_balance |-> amount,
                        current_balance |-> amount, terms |-> t])
    /\ offer_count' = offer_count + 1
    /\ UNCHANGED <<now, barred, phase, deals, deal_count, summaries, past_due>>

(* Wrong: an offer with deals may be deleted.                              *)
Unlent_always(o) == TRUE

Unlent(o) == offers[o].total_balance = offers[o].current_balance

credit_offer_delete(o) ==
    /\ phase = "open"
    /\ Unlent(o)
    /\ balance' = adjust_balance(balance, offers[o].owner_account,
                                 offers[o].asset_type, offers[o].current_balance)
    /\ offers' = Removed(offers, o)
    /\ UNCHANGED <<now, barred, phase, offer_count, deals, deal_count, summaries,
                   past_due>>

(* The owner adds or takes out delta (0: no delta is given) and may give   *)
(* new terms; they concern the deals to come.                              *)
credit_offer_update(o, delta, t) ==
    LET offer == offers[o]
    IN  /\ phase = "open"
        /\ delta > 0 => /\ is_authorized_asset(offer.owner_account, offer.asset_type)
                        /\ Covers(offer.owner_account, offer.asset_type, delta)
        /\ offer.total_balance > -delta
        /\ offer.current_balance >= -delta
        /\ offer.asset_type \notin DOMAIN t.acceptable_collateral
        /\ TimeAllowed(t)
        /\ balance' = adjust_balance(balance, offer.owner_account,
                                     offer.asset_type, -delta)
        /\ offers' = [offers EXCEPT ![o].total_balance = @ + delta,
                                    ![o].current_balance = @ + delta,
                                    ![o].terms = t]
        /\ UNCHANGED <<now, barred, phase, offer_count, deals, deal_count,
                       summaries, past_due>>

Debt(o, a) == IF <<o, a>> \in DOMAIN summaries THEN summaries[<<o, a>>] ELSE 0

(* The summaries after the debt of a to o grew or fell by amount: one that *)
(* reaches zero is removed.                                                *)
Summed(o, a, amount) ==
    IF Debt(o, a) + amount = 0 THEN Removed(summaries, <<o, a>>)
    ELSE Added(summaries, <<o, a>>, Debt(o, a) + amount)

(* multiply_and_round_up with the price of the collateral.                 *)
required_collateral(t, s, amount) ==
    CeilDiv(amount * t.acceptable_collateral[s].quote,
            t.acceptable_collateral[s].base)

BorrowerAllowed(o, a, amount) ==
    LET allowed == offers[o].terms.acceptable_borrowers
    IN  DOMAIN allowed = {} \/ /\ a \in DOMAIN allowed
                               /\ Debt(o, a) + amount <= allowed[a]

(* Which fee rate and duration the borrower still accepts only adds ways   *)
(* for the operation to fail.                                              *)
credit_offer_accept(o, a, amount, s, collateral, auto) ==
    LET offer == offers[o]
        t     == offer.terms
    IN  /\ phase = "open" /\ deal_count < MaxDeals
        /\ t.enabled
        /\ offer.current_balance >= amount
        /\ t.min_deal_amount <= amount
        /\ s \in DOMAIN t.acceptable_collateral
        /\ \A b \in {a, offer.owner_account}, x \in {s, offer.asset_type} :
              is_authorized_asset(b, x)
        /\ required_collateral(t, s, amount) <= collateral
        /\ BorrowerAllowed(o, a, amount)
        /\ t.max_duration_seconds > 0
        /\ Covers(a, s, collateral)
        /\ balance' = adjust_balance(adjust_balance(balance, a, s, -collateral),
                                     a, offer.asset_type, amount)
        /\ offers' = [offers EXCEPT ![o].current_balance = @ - amount]
        /\ deals' = Added(deals, deal_count + 1,
                          [borrower |-> a, offer_id |-> o,
                           offer_owner |-> offer.owner_account,
                           debt_asset |-> offer.asset_type, debt_amount |-> amount,
                           collateral_asset |-> s, collateral_amount |-> collateral,
                           fee_rate |-> t.fee_rate, auto_repay |-> auto,
                           latest_repay_time |-> now + t.max_duration_seconds])
        /\ deal_count' = deal_count + 1
        /\ summaries' = Summed(o, a, amount)
        /\ UNCHANGED <<now, barred, phase, offer_count, past_due>>

(* Wrong: what a partial repayment releases is rounded up.                 *)
amount_to_release_up(deal, amount) ==
    CeilDiv(amount * deal.collateral_amount, deal.debt_amount)

(* What a partial repayment releases, rounded down.                        *)
amount_to_release(deal, amount) ==
    (amount * deal.collateral_amount) \div deal.debt_amount

CanRepay(d, amount, fee) ==
    LET deal == deals[d]
    IN  /\ amount > 0
        /\ deal.debt_amount >= amount
        /\ fee >= required_fee(amount, deal.fee_rate)
        /\ is_authorized_asset(deal.borrower, deal.debt_asset)
        /\ is_authorized_asset(deal.offer_owner, deal.debt_asset)
        /\ Covers(deal.borrower, deal.debt_asset, amount + fee)

(* do_apply of a repayment.                                                *)
Repay(d, amount, fee) ==
    LET deal     == deals[d]
        full     == deal.debt_amount = amount
        released == IF full THEN deal.collateral_amount
                    ELSE amount_to_release(deal, amount)
    IN  /\ balance' = adjust_balance(
                         adjust_balance(balance, deal.borrower, deal.debt_asset,
                                        -(amount + fee)),
                         deal.borrower, deal.collateral_asset, released)
        /\ offers' = [offers EXCEPT ![deal.offer_id].total_balance = @ + fee,
                                    ![deal.offer_id].current_balance = @ + amount + fee]
        /\ summaries' = Summed(deal.offer_id, deal.borrower, -amount)
        /\ deals' = IF full THEN Removed(deals, d)
                    ELSE [deals EXCEPT ![d].debt_amount = @ - amount,
                                       ![d].collateral_amount = @ - released]

credit_deal_repay(d, amount, fee) ==
    /\ phase = "open"
    /\ CanRepay(d, amount, fee)
    /\ Repay(d, amount, fee)
    /\ UNCHANGED <<now, barred, phase, offer_count, deal_count, past_due>>

credit_deal_update(d, auto) ==
    /\ phase = "open"
    /\ deals[d].auto_repay # auto
    /\ deals' = [deals EXCEPT ![d].auto_repay = auto]
    /\ UNCHANGED <<account_vars, offers, offer_count, deal_count, summaries, past_due>>

(* The offers with their time up are disabled.                             *)
AutoDisabled ==
    [o \in DOMAIN offers |->
        IF offers[o].terms.auto_disable_time <= now
        THEN [offers[o] EXCEPT !.terms.enabled = FALSE] ELSE offers[o]]

(* deal_idx.begin(), when it is due.                                       *)
Due(d) ==
    /\ deals[d].latest_repay_time <= now
    /\ \A e \in DOMAIN deals :
          \/ deals[d].latest_repay_time < deals[e].latest_repay_time
          \/ deals[d].latest_repay_time = deals[e].latest_repay_time /\ d <= e

(* Wrong: the debt the collateral stands for is not computed back.         *)
PartialRepayment_as_paid(deal, available) ==
    LET debt == (available * FeeRateDenom) \div (FeeRateDenom + deal.fee_rate)
    IN  [amount |-> debt,
         fee    |-> (debt * deal.fee_rate) \div FeeRateDenom]

(* The most an automatic repayment can pay out of what the borrower has:   *)
(* the debt that goes with a whole amount of collateral.                   *)
PartialRepayment(deal, available) ==
    LET affordable == (available * FeeRateDenom) \div (FeeRateDenom + deal.fee_rate)
        collateral == (affordable * deal.collateral_amount) \div deal.debt_amount
        debt       == CeilDiv(collateral * deal.debt_amount, deal.collateral_amount)
    IN  [amount |-> debt, fee |-> required_fee(debt, deal.fee_rate)]

(* Wrong: a balance that covers all that is owed is not set apart.         *)
AutoRepayment_partial(deal) ==
    IF deal.auto_repay = "only_full"
    THEN [amount |-> deal.debt_amount,
          fee    |-> required_fee(deal.debt_amount, deal.fee_rate)]
    ELSE PartialRepayment(deal, balance[deal.borrower][deal.debt_asset])

AutoRepayment(deal) ==
    LET fee       == required_fee(deal.debt_amount, deal.fee_rate)
        available == balance[deal.borrower][deal.debt_asset]
    IN  IF \/ deal.auto_repay = "only_full"
           \/ available >= deal.debt_amount + fee
        THEN [amount |-> deal.debt_amount, fee |-> fee]
        ELSE PartialRepayment(deal, available)

(* The first half of a turn of the loop over the deals that are due: the   *)
(* automatic repayment, as a virtual operation whose failure is swallowed. *)
auto_repay(d) ==
    LET r       == AutoRepayment(deals[d])
        repays  == deals[d].auto_repay # "none" /\ CanRepay(d, r.amount, r.fee)
    IN  /\ phase = "deals" /\ past_due = {}
        /\ Due(d)
        /\ IF repays THEN Repay(d, r.amount, r.fee)
           ELSE UNCHANGED <<balance, offers, summaries, deals>>
        /\ past_due' = {d} \cap DOMAIN deals'
        /\ UNCHANGED <<now, barred, phase, offer_count, deal_count>>

(* The second half: the deal is still there and is settled.                *)
credit_deal_expired(d) ==
    LET deal == deals[d]
    IN  /\ phase = "deals" /\ d \in past_due
        /\ offers' = [offers EXCEPT ![deal.offer_id].total_balance = @ - deal.debt_amount]
        /\ summaries' = Summed(deal.offer_id, deal.borrower, -deal.debt_amount)
        /\ balance' = adjust_balance(balance, deal.offer_owner,
                                     deal.collateral_asset, deal.collateral_amount)
        /\ deals' = Removed(deals, d)
        /\ past_due' = {}
        /\ UNCHANGED <<now, barred, phase, offer_count, deal_count>>
================================================================================
