------------------------------- MODULE SametFunds -------------------------------
(***************************************************************************)
(* SameT funds (samet_fund_evaluator): an account lends out of a fund to   *)
(* anyone who pays back, with a fee, in the same transaction.              *)
(***************************************************************************)
EXTENDS Accounts

CONSTANTS
    MaxFunds,           \* bound: how many funds are ever created
    MaxFundBalance,     \* bound: fees paid with borrowed tokens let a fund's
                        \* balance and its unpaid amount grow together
    FundRate            \* the fee rates an operation may name

ASSUME FundAssumption == MaxFunds \in Nat /\ MaxFundBalance \in Nat /\ FundRate \subseteq Nat

VARIABLES
    funds,              \* the funds, by id
    fund_count          \* how many were created

fund_vars == <<funds, fund_count>>

FundInit == funds = <<>> /\ fund_count = 0

samet_fund_create(a, s, amount, rate) ==
    /\ phase = "open" /\ fund_count < MaxFunds
    /\ is_authorized_asset(a, s)
    /\ Covers(a, s, amount)
    /\ balance' = adjust_balance(balance, a, s, -amount)
    /\ funds' = Added(funds, fund_count + 1,
                      [owner_account |-> a, asset_type |-> s, balance |-> amount,
                       fee_rate |-> rate, unpaid_amount |-> 0])
    /\ fund_count' = fund_count + 1
    /\ UNCHANGED <<now, barred, phase>>

(* Wrong: a fund may be deleted while part of it is lent.                  *)
samet_fund_delete_lent(f) ==
    /\ phase = "open"
    /\ balance' = adjust_balance(balance, funds[f].owner_account,
                                 funds[f].asset_type, funds[f].balance)
    /\ funds' = Removed(funds, f)
    /\ UNCHANGED <<now, barred, phase, fund_count>>

samet_fund_delete(f) ==
    /\ phase = "open"
    /\ funds[f].unpaid_amount = 0
    /\ balance' = adjust_balance(balance, funds[f].owner_account,
                                 funds[f].asset_type, funds[f].balance)
    /\ funds' = Removed(funds, f)
    /\ UNCHANGED <<now, barred, phase, fund_count>>

(* The owner adds or takes out delta (0: no delta is given) and may set    *)
(* another fee rate, even while part of the fund is lent.                  *)
samet_fund_update(f, delta, rate) ==
    LET fund == funds[f]
    IN  /\ phase = "open"
        /\ delta # 0 \/ rate # fund.fee_rate
        /\ delta # 0 => fund.unpaid_amount = 0
        /\ delta > 0 => /\ is_authorized_asset(fund.owner_account, fund.asset_type)
                        /\ Covers(fund.owner_account, fund.asset_type, delta)
        /\ fund.balance > -delta
        /\ balance' = adjust_balance(balance, fund.owner_account,
                                     fund.asset_type, -delta)
        /\ funds' = [funds EXCEPT ![f].balance = @ + delta, ![f].fee_rate = rate]
        /\ UNCHANGED <<now, barred, phase, fund_count>>

samet_fund_borrow(f, a, amount) ==
    /\ phase = "open"
    /\ funds[f].balance >= funds[f].unpaid_amount + amount
    /\ is_authorized_asset(a, funds[f].asset_type)
    /\ balance' = adjust_balance(balance, a, funds[f].asset_type, amount)
    /\ funds' = [funds EXCEPT ![f].unpaid_amount = @ + amount]
    /\ UNCHANGED <<now, barred, phase, fund_count>>

(* Any account may repay, whoever borrowed.                                *)
samet_fund_repay(f, a, amount, fee) ==
    /\ phase = "open" /\ funds[f].balance + fee <= MaxFundBalance
    /\ is_authorized_asset(a, funds[f].asset_type)
    /\ amount <= funds[f].unpaid_amount
    /\ fee >= required_fee(amount, funds[f].fee_rate)
    /\ Covers(a, funds[f].asset_type, amount + fee)
    /\ balance' = adjust_balance(balance, a, funds[f].asset_type, -(amount + fee))
    /\ funds' = [funds EXCEPT ![f].balance = @ + fee,
                              ![f].unpaid_amount = @ - amount]
    /\ UNCHANGED <<now, barred, phase, fund_count>>

(* The test at the end of _apply_transaction and of push_proposal.         *)
NothingUnpaid == \A f \in DOMAIN funds : funds[f].unpaid_amount = 0
================================================================================
