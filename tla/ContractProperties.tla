--------------------------- MODULE ContractProperties ---------------------------
(***************************************************************************)
(* What the contracts promise to those whose tokens they hold.             *)
(***************************************************************************)
EXTENDS Contracts

(* The tokens of asset s that each account owns and each contract holds.   *)
Owned(s) == [a \in Account |-> balance[a][s]]
Locked(s) == [h \in DOMAIN htlcs |->
                 IF htlcs[h].asset_id = s THEN htlcs[h].amount ELSE 0]
Unborrowed(s) == [f \in DOMAIN funds |->
                     IF funds[f].asset_type = s
                     THEN funds[f].balance - funds[f].unpaid_amount ELSE 0]
NotLent(s) == [o \in DOMAIN offers |->
                     IF offers[o].asset_type = s THEN offers[o].current_balance ELSE 0]
Pledged(s) == [d \in DOMAIN deals |->
                  IF deals[d].collateral_asset = s
                  THEN deals[d].collateral_amount ELSE 0]

Held(s) == SumFunction(Owned(s)) + SumFunction(Locked(s)) + SumFunction(Unborrowed(s))
              + SumFunction(NotLent(s)) + SumFunction(Pledged(s))

(* No operation, settlement or refund creates tokens or lets them vanish,  *)
(* whatever contracts an account is party to: what accounts own and what   *)
(* the contracts hold for them is the supply, and no balance is negative.  *)
SupplyIsConserved ==
    \A s \in Asset :
       /\ Held(s) = SumFunction([a \in Account |-> Supply[a][s]])
       /\ \A a \in Account : balance[a][s] >= 0

(* The debt of each deal, if it is on offer o; if it is also account a's.  *)
DebtOn(o) == [d \in DOMAIN deals |->
                 IF deals[d].offer_id = o THEN deals[d].debt_amount ELSE 0]
DebtOf(o, a) == [d \in DOMAIN deals |->
                    IF deals[d].offer_id = o /\ deals[d].borrower = a
                    THEN deals[d].debt_amount ELSE 0]

(* The three records of what is owed agree: an offer's total and current   *)
(* balance differ by the debts of its deals, the summaries used for the    *)
(* limits of the borrowers add them up, and the offer of a deal exists, as *)
(* settling the deal in the middle of a block requires.                    *)
OffersMatchDeals ==
    /\ \A d \in DOMAIN deals : deals[d].offer_id \in DOMAIN offers
    /\ \A o \in DOMAIN offers :
          /\ offers[o].current_balance >= 0
          /\ offers[o].total_balance - offers[o].current_balance = SumFunction(DebtOn(o))
          /\ \A a \in Account : Debt(o, a) = SumFunction(DebtOf(o, a))
    /\ \A p \in DOMAIN summaries : p[1] \in DOMAIN offers /\ summaries[p] > 0

(* A deal in force always has debt and collateral left (the settlement     *)
(* divides by both), and repaying part of it never leaves less collateral  *)
(* per unit of debt than there was, whatever way the amounts round.        *)
DealsStaySecured ==
    [][\A d \in DOMAIN deals' :
          /\ deals'[d].debt_amount > 0 /\ deals'[d].collateral_amount > 0
          /\ d \in DOMAIN deals =>
                deals'[d].collateral_amount * deals[d].debt_amount
                   >= deals[d].collateral_amount * deals'[d].debt_amount]_vars

(* When a block is applied, nothing that is due by its time is left: no    *)
(* contract to redeem after it expired, no deal to repay after its last    *)
(* day, no offer still enabled after its time.                             *)
NothingOverdue ==
    [][phase # "open" /\ phase' = "open" =>
          /\ \A h \in DOMAIN htlcs' : htlcs'[h].expiration > now'
          /\ \A d \in DOMAIN deals' : deals'[d].latest_repay_time > now'
          /\ \A o \in DOMAIN offers' :
                offers'[o].terms.enabled => offers'[o].terms.auto_disable_time > now']_vars

(* An automatic repayment that may be partial never fails for want of      *)
(* funds: the amount and the fee it works out, by dividing and rounding    *)
(* four times, are within the balance and the debt, and one unit less      *)
(* would release less collateral.                                          *)
AutoRepaymentIsCovered ==
    \A d \in DOMAIN deals :
       LET deal == deals[d]
           r    == AutoRepayment(deal)
       IN  deal.auto_repay = "allow_partial" =>
              /\ r.amount + r.fee <= balance[deal.borrower][deal.debt_asset]
              /\ r.amount <= deal.debt_amount
              /\ r.amount > 0 => amount_to_release(deal, r.amount - 1)
                                    < amount_to_release(deal, r.amount)

(* A lender gets collateral only after the deadline, and never from a      *)
(* borrower who asked for automatic repayment and could pay all that is    *)
(* owed: not after an earlier deal of the same block was settled, after a  *)
(* partial repayment, or with tokens a contract refunded in this block.    *)
SolventBorrowersKeepCollateral ==
    \A d \in past_due :
       LET deal == deals[d]
       IN  /\ deal.latest_repay_time <= now
           /\ deal.auto_repay # "none" =>
                 ~CanRepay(d, deal.debt_amount,
                           required_fee(deal.debt_amount, deal.fee_rate))
================================================================================
