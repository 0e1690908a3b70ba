------------------------------ MODULE MCContracts ------------------------------
(* A lender and a borrower.  A fee rate of a quarter and two of the debt   *)
(* for one of the collateral make the divisions leave remainders.  The     *)
(* lender may be barred from the asset that is lent.  Two of the           *)
(* collateral secure two deals at once, or one that is repaid in parts.    *)
EXTENDS ContractProperties, TLC

FewTokens == ("l" :> [x |-> 3, y |-> 0]) @@ ("b" :> [x |-> 0, y |-> 2])

LenderBarred == {<<"l", "x">>}

Price(n, m) == [y |-> [base |-> n, quote |-> m]]

WithFee ==
    [fee_rate |-> 1, max_duration_seconds |-> 1, min_deal_amount |-> 1,
     enabled |-> TRUE, auto_disable_time |-> 2,
     acceptable_collateral |-> Price(2, 1), acceptable_borrowers |-> <<>>]
Limited ==
    [fee_rate |-> 0, max_duration_seconds |-> 2, min_deal_amount |-> 0,
     enabled |-> TRUE, auto_disable_time |-> 1,
     acceptable_collateral |-> Price(1, 1), acceptable_borrowers |-> ("b" :> 2)]

TwoKinds == {WithFee, Limited}

(* Bound: deals meet at most one contract of another kind.                 *)
FewContracts == deal_count = 0 \/ htlc_count + fund_count <= 1
================================================================================
