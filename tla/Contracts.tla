------------------------------- MODULE Contracts -------------------------------
(***************************************************************************)
(* The contracts that hold tokens of the accounts, on the same balances:   *)
(* hash time lock contracts, SameT funds and credit offers, with the part  *)
(* of _apply_block that settles those whose time is up.                    *)
(***************************************************************************)
EXTENDS Htlcs, SametFunds, CreditOffers

vars == <<account_vars, htlc_vars, fund_vars, credit_vars>>

Init ==
    /\ AccountInit
    /\ HtlcInit
    /\ FundInit
    /\ CreditInit

(* The block's last transaction is over and the head block time moves.     *)
end_transactions ==
    /\ phase = "open" /\ now < MaxTime
    /\ NothingUnpaid
    /\ now' = now + 1
    /\ phase' = "htlcs"
    /\ UNCHANGED <<balance, barred, htlc_vars, fund_vars, credit_vars>>

(* clear_expired_htlcs is done; the first loop of                          *)
(* update_credit_offers_and_deals disables offers.                         *)
update_credit_offers ==
    /\ phase = "htlcs"
    /\ \A h \in DOMAIN htlcs : ~HtlcExpired(h)
    /\ offers' = AutoDisabled
    /\ phase' = "deals"
    /\ UNCHANGED <<balance, now, barred, htlc_vars, fund_vars, offer_count, deals,
                   deal_count, summaries, past_due>>

finish_block ==
    /\ phase = "deals" /\ past_due = {}
    /\ \A d \in DOMAIN deals : deals[d].latest_repay_time > now
    /\ phase' = "open"
    /\ UNCHANGED <<balance, now, barred, htlc_vars, fund_vars, credit_vars>>

OnlyHtlcs == UNCHANGED <<fund_vars, credit_vars>>
OnlyFunds == UNCHANGED <<htlc_vars, credit_vars>>
OnlyCredit == UNCHANGED <<htlc_vars, fund_vars>>

(* What is due by the time of the block.                                   *)
Housekeeping ==
    \/ \E h \in DOMAIN htlcs : clear_expired_htlcs(h) /\ OnlyHtlcs
    \/ \E d \in DOMAIN deals : auto_repay(d) /\ OnlyCredit
    \/ \E d \in DOMAIN deals : credit_deal_expired(d) /\ OnlyCredit
    \/ update_credit_offers
    \/ finish_block

(* A change of balance an operation asks for; 0: it asks for none.         *)
Delta == Amount \cup {0} \cup {-x : x \in Amount}

Next ==
    \/ \E p \in MayBeBarred :
          /\ account_whitelist(p[1], p[2])
          /\ UNCHANGED <<htlc_vars, fund_vars, credit_vars>>
    \/ \E from, to \in Account, s \in Asset, x \in Amount, t \in ClaimPeriod :
          htlc_create(from, to, s, x, t) /\ OnlyHtlcs
    \/ \E h \in DOMAIN htlcs : htlc_redeem(h) /\ OnlyHtlcs
    \/ \E h \in DOMAIN htlcs, t \in ClaimPeriod : htlc_extend(h, t) /\ OnlyHtlcs
    \/ \E a \in Account, s \in Asset, x \in Amount, r \in FundRate :
          samet_fund_create(a, s, x, r) /\ OnlyFunds
    \/ \E f \in DOMAIN funds : samet_fund_delete(f) /\ OnlyFunds
    \/ \E f \in DOMAIN funds, x \in Delta, r \in FundRate :
          samet_fund_update(f, x, r) /\ OnlyFunds
    \/ \E f \in DOMAIN funds, a \in Account, x \in Amount :
          samet_fund_borrow(f, a, x) /\ OnlyFunds
    \/ \E f \in DOMAIN funds, a \in Account, x \in Amount, fee \in Amount \cup {0} :
          samet_fund_repay(f, a, x, fee) /\ OnlyFunds
    \/ \E a \in Account, s \in Asset, x \in Amount, t \in Terms :
          credit_offer_create(a, s, x, t) /\ OnlyCredit
    \/ \E o \in DOMAIN offers : credit_offer_delete(o) /\ OnlyCredit
    \/ \E o \in DOMAIN offers, x \in Delta :
          \E t \in Terms \cup {offers[o].terms} :
             credit_offer_update(o, x, t) /\ OnlyCredit
    \/ \E o \in DOMAIN offers, a \in Account, s \in Asset, x, c \in Amount,
          auto \in auto_repay_type :
             credit_offer_accept(o, a, x, s, c, auto) /\ OnlyCredit
    \/ \E d \in DOMAIN deals, x \in Amount, fee \in Amount \cup {0} :
          credit_deal_repay(d, x, fee) /\ OnlyCredit
    \/ \E d \in DOMAIN deals, auto \in auto_repay_type :
          credit_deal_update(d, auto) /\ OnlyCredit
    \/ end_transactions
    \/ Housekeeping

Spec == Init /\ [][Next]_vars
================================================================================
