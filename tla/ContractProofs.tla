------------------------------ MODULE ContractProofs ------------------------------
(***************************************************************************)
(* The inductive invariant of the contracts, for any accounts, assets,     *)
(* amounts, rates and bounds, the arithmetic of fees and repayments, and   *)
(* the proof that every step keeps what is stored in shape; then what the  *)
(* invariant gives: automatic repayments are covered, solvent borrowers    *)
(* keep their collateral, deals stay secured, and nothing is overdue when  *)
(* a block ends.  The last parts are what ContractSums builds on: ids are  *)
(* new, and hash time locks and funds neither create nor lose tokens.      *)
(***************************************************************************)
EXTENDS ContractProperties, ArithmeticProofs, TLAPS

(* A step that names no prover is tried with the SMT solver, with Zenon,   *)
(* and with the SMT solver once more.                                      *)
USE SMTT(20), Zenon, SMTT(30)

--------------------------------------------------------------------------------
(* The inductive invariant: the shape of what is stored, and              *)
(*   - no balance is negative and a deal has debt and collateral left, of  *)
(*     two different assets;                                               *)
(*   - once the expired contracts are cleared and the offers disabled, it  *)
(*     stays so until the block is done;                                   *)
(*   - a deal that is past due cannot be repaid automatically any more.    *)
Htlc ==
    [from : Account, to : Account, asset_id : Asset, amount : Nat, expiration : Nat]

Fund ==
    [owner_account : Account, asset_type : Asset, balance : Nat, fee_rate : Nat,
     unpaid_amount : Nat]

Offer ==
    [owner_account : Account, asset_type : Asset, total_balance : Int,
     current_balance : Nat, terms : Term]

Deal ==
    [borrower : Account, offer_id : Nat, offer_owner : Account, debt_asset : Asset,
     debt_amount : Nat \ {0}, collateral_asset : Asset, collateral_amount : Nat \ {0},
     fee_rate : Nat, auto_repay : auto_repay_type, latest_repay_time : Nat]

AccountsOK ==
    /\ now \in Nat
    /\ phase \in {"open", "htlcs", "deals"}
    /\ balance \in [Account -> [Asset -> Nat]]

HtlcsOK == \A h \in DOMAIN htlcs : htlcs[h] \in Htlc

FundsOK == \A f \in DOMAIN funds : funds[f] \in Fund

OffersOK ==
    /\ offer_count \in Nat /\ DOMAIN offers \subseteq Nat
    /\ \A o \in DOMAIN offers :
          /\ offers[o] \in Offer
          /\ offers[o].asset_type \notin DOMAIN offers[o].terms.acceptable_collateral

DealsOK ==
    \A d \in DOMAIN deals :
       deals[d] \in Deal /\ deals[d].debt_asset # deals[d].collateral_asset

TypeInv == AccountsOK /\ HtlcsOK /\ FundsOK /\ OffersOK /\ DealsOK

Cleared ==
    phase = "deals" =>
       /\ \A h \in DOMAIN htlcs : ~HtlcExpired(h)
       /\ \A o \in DOMAIN offers :
             offers[o].terms.enabled => offers[o].terms.auto_disable_time > now

PastDueOK ==
    /\ past_due \subseteq DOMAIN deals
    /\ past_due # {} => phase = "deals"
    /\ SolventBorrowersKeepCollateral

(* A deal's id is new.                                                     *)
IdsOK == deal_count \in Nat /\ DOMAIN deals \subseteq 1..deal_count

ContractInv == TypeInv /\ Cleared /\ PastDueOK /\ IdsOK

(* A balance adjusted within its means.                                    *)
LEMMA AdjustFact ==
    ASSUME NEW b \in [Account -> [Asset -> Nat]], NEW a \in Account, NEW s \in Asset,
           NEW x \in Int, b[a][s] + x >= 0
    PROVE  /\ adjust_balance(b, a, s, x) \in [Account -> [Asset -> Nat]]
           /\ adjust_balance(b, a, s, x)[a][s] = b[a][s] + x
           /\ \A t \in Asset : t # s => adjust_balance(b, a, s, x)[a][t] = b[a][t]
BY DEF adjust_balance

(* What operations of accounts leave in order.                             *)
LEMMA HtlcTypes ==
    ASSUME TypeInv, OnlyHtlcs
    PROVE  /\ \A from, to \in Account, s \in Asset, x \in Amount, t \in ClaimPeriod :
                 htlc_create(from, to, s, x, t) => TypeInv'
           /\ \A h \in DOMAIN htlcs : htlc_redeem(h) => TypeInv'
           /\ \A h \in DOMAIN htlcs, t \in ClaimPeriod : htlc_extend(h, t) => TypeInv'
           /\ \A h \in DOMAIN htlcs : clear_expired_htlcs(h) => TypeInv'
<1> USE DEF TypeInv
<1>1. FundsOK' /\ OffersOK' /\ DealsOK'
  BY Zenon DEF OnlyHtlcs, FundsOK, OffersOK, DealsOK, fund_vars, credit_vars
<1>2. ASSUME NEW from \in Account, NEW to \in Account, NEW s \in Asset,
             NEW x \in Amount, NEW t \in ClaimPeriod, htlc_create(from, to, s, x, t)
      PROVE  TypeInv'
  <2> DEFINE new == [from |-> from, to |-> to, asset_id |-> s, amount |-> x,
                     expiration |-> now + t]
  <2>1. x \in Nat /\ t \in Nat /\ balance[from][s] - x >= 0
    BY <1>2, AccountAssumption, HtlcAssumption DEF htlc_create, Covers, AccountsOK
  <2>2. AccountsOK'
    <3>1. balance' = adjust_balance(balance, from, s, -x)
      BY <1>2, Zenon DEF htlc_create
    <3>2. balance' \in [Account -> [Asset -> Nat]]
      BY <2>1, <3>1, AdjustFact DEF AccountsOK
    <3> QED
      BY <1>2, <3>2, Zenon DEF htlc_create, AccountsOK
  <2>3. htlcs' = Added(htlcs, htlc_count + 1, new)
    BY <1>2, Zenon DEF htlc_create
  <2>4. new \in Htlc
    BY <2>1 DEF Htlc, AccountsOK
  <2> HIDE DEF new
  <2>5. HtlcsOK'
    BY <2>3, <2>4, Zenon DEF HtlcsOK, Added
  <2> QED
    BY <1>1, <2>2, <2>5, Zenon
<1>3. ASSUME NEW h \in DOMAIN htlcs, htlc_redeem(h) \/ clear_expired_htlcs(h)
      PROVE  TypeInv'
  <2>1. PICK a \in Account : balance' = adjust_balance(balance, a, htlcs[h].asset_id,
                                                       htlcs[h].amount)
    BY <1>3, Zenon DEF htlc_redeem, clear_expired_htlcs, HtlcsOK, Htlc
  <2>2. htlcs[h].asset_id \in Asset /\ htlcs[h].amount \in Nat
    BY Zenon DEF HtlcsOK, Htlc
  <2>3. balance[a][htlcs[h].asset_id] + htlcs[h].amount >= 0
    BY <2>2 DEF AccountsOK
  <2>4. balance' \in [Account -> [Asset -> Nat]]
    BY <2>1, <2>2, <2>3, AdjustFact DEF AccountsOK
  <2>5. AccountsOK'
    BY <1>3, <2>4, Zenon DEF htlc_redeem, clear_expired_htlcs, AccountsOK
  <2>6. htlcs' = Removed(htlcs, h)
    BY <1>3, Zenon DEF htlc_redeem, clear_expired_htlcs
  <2>7. HtlcsOK'
    BY <2>6, Zenon DEF HtlcsOK, Removed, Restrict
  <2> QED
    BY <1>1, <2>5, <2>7, Zenon
<1>4. ASSUME NEW h \in DOMAIN htlcs, NEW t \in ClaimPeriod, htlc_extend(h, t)
      PROVE  TypeInv'
  <2>1. AccountsOK'
    BY <1>4, Zenon DEF htlc_extend, AccountsOK, account_vars
  <2>2. t \in Nat
    BY HtlcAssumption, Zenon
  <2>3. HtlcsOK'
    BY <1>4, <2>2 DEF htlc_extend, HtlcsOK, Htlc
  <2> QED
    BY <1>1, <2>1, <2>3, Zenon
<1> QED
  BY <1>2, <1>3, <1>4, Zenon

(* The operations on funds.                                                *)
LEMMA FundTypes ==
    ASSUME TypeInv, OnlyFunds
    PROVE  /\ \A a \in Account, s \in Asset, x \in Amount, r \in FundRate :
                 samet_fund_create(a, s, x, r) => TypeInv'
           /\ \A f \in DOMAIN funds : samet_fund_delete(f) => TypeInv'
           /\ \A f \in DOMAIN funds, x \in Delta, r \in FundRate :
                 samet_fund_update(f, x, r) => TypeInv'
           /\ \A f \in DOMAIN funds, a \in Account, x \in Amount :
                 samet_fund_borrow(f, a, x) => TypeInv'
           /\ \A f \in DOMAIN funds, a \in Account, x \in Amount,
                 fee \in Amount \cup {0} : samet_fund_repay(f, a, x, fee) => TypeInv'
<1> USE DEF TypeInv
<1>1. HtlcsOK' /\ OffersOK' /\ DealsOK'
  BY Zenon DEF OnlyFunds, HtlcsOK, OffersOK, DealsOK, htlc_vars, credit_vars
<1>2. ASSUME NEW a \in Account, NEW s \in Asset, NEW x \in Int,
             balance[a][s] + x >= 0, balance' = adjust_balance(balance, a, s, x),
             UNCHANGED <<now, barred, phase>>
      PROVE  AccountsOK'
  <2>1. balance' \in [Account -> [Asset -> Nat]]
    BY <1>2, AdjustFact, Zenon DEF AccountsOK
  <2> QED
    BY <1>2, <2>1, Zenon DEF AccountsOK
<1>3. \A f \in DOMAIN funds : funds[f] \in Fund
  BY Zenon DEF FundsOK
<1>4. Amount \subseteq Nat /\ FundRate \subseteq Nat
  BY AccountAssumption, FundAssumption, Zenon
<1>5. balance \in [Account -> [Asset -> Nat]]
  BY Zenon DEF AccountsOK
<1>6. ASSUME NEW a \in Account, NEW s \in Asset, NEW x \in Amount, NEW r \in FundRate,
             samet_fund_create(a, s, x, r)
      PROVE  TypeInv'
  <2> DEFINE new == [owner_account |-> a, asset_type |-> s, balance |-> x,
                     fee_rate |-> r, unpaid_amount |-> 0]
  <2>1. balance[a][s] + (-x) >= 0 /\ -x \in Int
    BY <1>4, <1>5, <1>6 DEF samet_fund_create, Covers
  <2>2. AccountsOK'
    BY <2>1, <1>2, <1>6, Zenon DEF samet_fund_create
  <2>3. funds' = Added(funds, fund_count + 1, new) /\ new \in Fund
    BY <1>4, <1>6, Zenon DEF samet_fund_create, Fund
  <2> HIDE DEF new
  <2>4. FundsOK'
    BY <2>3, Zenon DEF FundsOK, Added
  <2> QED
    BY <1>1, <2>2, <2>4, Zenon
<1>7. ASSUME NEW f \in DOMAIN funds, samet_fund_delete(f)
      PROVE  TypeInv'
  <2>1. /\ funds[f].owner_account \in Account /\ funds[f].asset_type \in Asset
        /\ funds[f].balance \in Int
        /\ balance[funds[f].owner_account][funds[f].asset_type] + funds[f].balance >= 0
    BY <1>3, <1>5 DEF Fund
  <2>2. AccountsOK'
    BY <2>1, <1>2, <1>7, Zenon DEF samet_fund_delete
  <2>3. FundsOK'
    BY <1>7, Zenon DEF FundsOK, samet_fund_delete, Removed, Restrict
  <2> QED
    BY <1>1, <2>2, <2>3, Zenon
<1>8. ASSUME NEW f \in DOMAIN funds, NEW x \in Delta, NEW r \in FundRate,
             samet_fund_update(f, x, r)
      PROVE  TypeInv'
  <2>1. x \in Int /\ -x \in Int
    BY <1>4 DEF Delta
  <2>2. funds[f] \in Fund
    BY <1>3, Zenon
  <2>3. balance[funds[f].owner_account][funds[f].asset_type] + (-x) >= 0
    BY <2>1, <2>2, <1>5, <1>8 DEF samet_fund_update, Covers, Fund
  <2>4. AccountsOK'
    BY <2>1, <2>2, <2>3, <1>2, <1>8, Zenon DEF samet_fund_update, Fund
  <2>5. FundsOK'
    BY <2>1, <2>2, <1>4, <1>8 DEF samet_fund_update, Fund, FundsOK
  <2> QED
    BY <1>1, <2>4, <2>5, Zenon
<1>9. ASSUME NEW f \in DOMAIN funds, NEW a \in Account, NEW x \in Amount,
             samet_fund_borrow(f, a, x)
      PROVE  TypeInv'
  <2>1. funds[f].asset_type \in Asset /\ x \in Nat
    BY <1>3, <1>4, Zenon DEF Fund
  <2>2. balance[a][funds[f].asset_type] + x >= 0
    BY <2>1, <1>5
  <2>3. AccountsOK'
    BY <2>1, <2>2, <1>2, <1>9 DEF samet_fund_borrow
  <2>4. FundsOK'
    BY <2>1, <1>3, <1>9 DEF samet_fund_borrow, Fund, FundsOK
  <2> QED
    BY <1>1, <2>3, <2>4, Zenon
<1>10. ASSUME NEW f \in DOMAIN funds, NEW a \in Account, NEW x \in Amount,
              NEW fee \in Amount \cup {0}, samet_fund_repay(f, a, x, fee)
       PROVE  TypeInv'
  <2>1. funds[f].asset_type \in Asset /\ x \in Nat /\ fee \in Nat /\ -(x + fee) \in Int
    BY <1>3, <1>4 DEF Fund
  <2>2. balance[a][funds[f].asset_type] + (-(x + fee)) >= 0
    BY <2>1, <1>5, <1>10 DEF samet_fund_repay, Covers
  <2>3. AccountsOK'
    BY <2>1, <2>2, <1>2, <1>10, Zenon DEF samet_fund_repay
  <2>4. /\ funds[f].balance + fee \in Nat
        /\ funds[f].unpaid_amount - x \in Nat
    BY <2>1, <1>3, <1>10 DEF samet_fund_repay, Fund
  <2>5. funds' = [funds EXCEPT ![f].balance = @ + fee, ![f].unpaid_amount = @ - x]
    BY <1>10, Zenon DEF samet_fund_repay
  <2>6. FundsOK'
    BY <2>4, <2>5, <1>3, Zenon DEF Fund, FundsOK
  <2> QED
    BY <1>1, <2>3, <2>6, Zenon
<1> QED
  BY <1>6, <1>7, <1>8, <1>9, <1>10, Zenon

(* The operations on credit offers.                                        *)
LEMMA OfferTypes ==
    ASSUME TypeInv, OnlyCredit
    PROVE  /\ \A a \in Account, s \in Asset, x \in Amount, t \in Terms :
                 credit_offer_create(a, s, x, t) => TypeInv'
           /\ \A o \in DOMAIN offers : credit_offer_delete(o) => TypeInv'
           /\ \A o \in DOMAIN offers, x \in Delta :
                 \A t \in Terms \cup {offers[o].terms} :
                    credit_offer_update(o, x, t) => TypeInv'
<1> USE DEF TypeInv
<1>1. HtlcsOK' /\ FundsOK'
  BY Zenon DEF OnlyCredit, HtlcsOK, FundsOK, htlc_vars, fund_vars
<1>2. ASSUME NEW a \in Account, NEW s \in Asset, NEW x \in Int,
             balance[a][s] + x >= 0, balance' = adjust_balance(balance, a, s, x),
             UNCHANGED <<now, barred, phase>>
      PROVE  AccountsOK'
  <2>1. balance' \in [Account -> [Asset -> Nat]]
    BY <1>2, AdjustFact, Zenon DEF AccountsOK
  <2> QED
    BY <1>2, <2>1, Zenon DEF AccountsOK
<1>3. Amount \subseteq Nat
  BY AccountAssumption, Zenon
<1>8. Terms \subseteq Term
  BY CreditAssumption, Zenon
<1>4. balance \in [Account -> [Asset -> Nat]]
  BY Zenon DEF AccountsOK
<1>5. ASSUME NEW a \in Account, NEW s \in Asset, NEW x \in Amount, NEW t \in Terms,
             credit_offer_create(a, s, x, t)
      PROVE  TypeInv'
  <2> DEFINE new == [owner_account |-> a, asset_type |-> s, total_balance |-> x,
                     current_balance |-> x, terms |-> t]
  <2>1. balance[a][s] + (-x) >= 0 /\ -x \in Int
    BY <1>3, <1>4, <1>5 DEF credit_offer_create, Covers
  <2>2. AccountsOK'
    BY <2>1, <1>2, <1>5, Zenon DEF credit_offer_create
  <2>3. /\ offers' = Added(offers, offer_count + 1, new)
        /\ offer_count' = offer_count + 1
    BY <1>5, Zenon DEF credit_offer_create
  <2>4. new \in Offer /\ new.asset_type \notin DOMAIN new.terms.acceptable_collateral
    BY <1>3, <1>5, <1>8 DEF credit_offer_create, Offer
  <2> HIDE DEF new
  <2>5. DOMAIN offers' = DOMAIN offers \cup {offer_count + 1}
    BY <2>3, Zenon DEF Added
  <2>6. \A o \in DOMAIN offers' :
           offers'[o] = new \/ (o \in DOMAIN offers /\ offers'[o] = offers[o])
    <3> DEFINE A == Added(offers, offer_count + 1, new)
    <3>1. \A o \in DOMAIN offers \cup {offer_count + 1} :
             A[o] = new \/ (o \in DOMAIN offers /\ A[o] = offers[o])
      BY Zenon DEF Added
    <3>2. offers' = A
      BY <2>3, Zenon
    <3> HIDE DEF A
    <3> QED
      BY <2>5, <3>1, <3>2, Zenon
  <2>7. OffersOK'
    BY <2>3, <2>4, <2>5, <2>6 DEF OffersOK
  <2>8. DealsOK'
    BY <1>5, Zenon DEF credit_offer_create, DealsOK
  <2> QED
    BY <1>1, <2>2, <2>7, <2>8, Zenon
<1>6. ASSUME NEW o \in DOMAIN offers, credit_offer_delete(o)
      PROVE  TypeInv'
  <2>1. offers[o] \in Offer
    BY Zenon DEF OffersOK
  <2>2. /\ offers[o].owner_account \in Account /\ offers[o].asset_type \in Asset
        /\ offers[o].current_balance \in Nat
    BY <2>1, Zenon DEF Offer
  <2>3. balance[offers[o].owner_account][offers[o].asset_type]
           + offers[o].current_balance >= 0
    BY <2>2, <1>4
  <2>4. AccountsOK'
    BY <2>2, <2>3, <1>2, <1>6 DEF credit_offer_delete
  <2>5. OffersOK'
    BY <1>6, Zenon DEF credit_offer_delete, OffersOK, Removed, Restrict
  <2>6. DealsOK'
    BY <1>6, Zenon DEF credit_offer_delete, DealsOK
  <2> QED
    BY <1>1, <2>4, <2>5, <2>6, Zenon
<1>7. ASSUME NEW o \in DOMAIN offers, NEW x \in Delta,
             NEW t \in Terms \cup {offers[o].terms}, credit_offer_update(o, x, t)
      PROVE  TypeInv'
  <2>1. x \in Int /\ -x \in Int
    BY <1>3 DEF Delta
  <2>2. offers[o] \in Offer /\ t \in Term
    BY <1>8, Zenon DEF OffersOK, Offer
  <2>3. /\ offers[o].owner_account \in Account /\ offers[o].asset_type \in Asset
        /\ offers[o].total_balance + x \in Int
        /\ offers[o].current_balance + x \in Nat
    BY <2>1, <2>2, <1>7 DEF credit_offer_update, Offer
  <2>4. balance[offers[o].owner_account][offers[o].asset_type] + (-x) >= 0
    BY <2>1, <2>3, <1>4, <1>7 DEF credit_offer_update, Covers
  <2>5. AccountsOK'
    BY <2>1, <2>3, <2>4, <1>2, <1>7, Zenon DEF credit_offer_update
  <2>6. /\ offers' = [offers EXCEPT ![o].total_balance = @ + x,
                                    ![o].current_balance = @ + x, ![o].terms = t]
        /\ offers[o].asset_type \notin DOMAIN t.acceptable_collateral
        /\ offer_count' = offer_count
    BY <1>7, Zenon DEF credit_offer_update
  <2>7. DOMAIN offers' = DOMAIN offers /\ \A p \in DOMAIN offers : p # o => offers'[p] = offers[p]
    BY <2>6, Zenon
  <2>8. offers'[o] = [offers[o] EXCEPT !.total_balance = @ + x,
                                       !.current_balance = @ + x, !.terms = t]
    BY <2>6, Zenon
  <2>9. /\ offers'[o] \in Offer
        /\ offers'[o].asset_type \notin DOMAIN offers'[o].terms.acceptable_collateral
    BY <2>2, <2>3, <2>6, <2>8, Zenon DEF Offer
  <2>10. OffersOK'
    BY <2>6, <2>7, <2>9, Zenon DEF OffersOK
  <2>11. DealsOK'
    BY <1>7, Zenon DEF credit_offer_update, DealsOK
  <2> QED
    BY <1>1, <2>5, <2>10, <2>11, Zenon
<1> QED
  BY <1>5, <1>6, <1>7, Zenon

(* A deal is made: the collateral is of another asset and there is some.   *)
LEMMA AcceptTypes ==
    ASSUME TypeInv, OnlyCredit, NEW o \in DOMAIN offers, NEW a \in Account,
           NEW s \in Asset, NEW x \in Amount, NEW c \in Amount,
           NEW auto \in auto_repay_type, credit_offer_accept(o, a, x, s, c, auto)
    PROVE  TypeInv'
<1> USE DEF TypeInv
<1> DEFINE offer == offers[o]
           t     == offer.terms
           new   == [borrower |-> a, offer_id |-> o, offer_owner |-> offer.owner_account,
                     debt_asset |-> offer.asset_type, debt_amount |-> x,
                     collateral_asset |-> s, collateral_amount |-> c,
                     fee_rate |-> t.fee_rate, auto_repay |-> auto,
                     latest_repay_time |-> now + t.max_duration_seconds]
<1>1. HtlcsOK' /\ FundsOK'
  BY Zenon DEF OnlyCredit, HtlcsOK, FundsOK, htlc_vars, fund_vars
<1>2. x \in Nat \ {0} /\ c \in Nat \ {0}
  BY AccountAssumption, Zenon
<1>3. offer \in Offer /\ offer.asset_type \notin DOMAIN t.acceptable_collateral /\ o \in Nat
  BY Zenon DEF OffersOK
<1>4. /\ offer.owner_account \in Account /\ offer.asset_type \in Asset
      /\ offer.current_balance \in Nat /\ t \in Term
  BY <1>3, Zenon DEF Offer
<1>5. t.fee_rate \in Nat /\ t.max_duration_seconds \in Nat
  BY <1>4, Zenon DEF Term
<1>6. now \in Nat /\ balance \in [Account -> [Asset -> Nat]]
  BY Zenon DEF AccountsOK
<1>7. /\ s \in DOMAIN t.acceptable_collateral
      /\ offer.current_balance >= x
      /\ balance[a][s] >= c
      /\ balance' = adjust_balance(adjust_balance(balance, a, s, -c), a,
                                   offer.asset_type, x)
      /\ offers' = [offers EXCEPT ![o].current_balance = @ - x]
      /\ deals' = Added(deals, deal_count + 1, new)
      /\ UNCHANGED <<now, phase, offer_count>>
  BY Zenon DEF credit_offer_accept, Covers
<1>8. AccountsOK'
  <2> DEFINE paid == adjust_balance(balance, a, s, -c)
  <2>1. balance[a][s] + (-c) >= 0 /\ -c \in Int
    BY <1>2, <1>6, <1>7
  <2>2. paid \in [Account -> [Asset -> Nat]]
    BY <2>1, <1>6, AdjustFact, Zenon
  <2>3. balance' = adjust_balance(paid, a, offer.asset_type, x)
    BY <1>7, Zenon
  <2> HIDE DEF paid
  <2>4. paid[a][offer.asset_type] + x >= 0
    BY <2>2, <1>2, <1>4
  <2>5. balance' \in [Account -> [Asset -> Nat]]
    BY <2>2, <2>3, <2>4, <1>2, <1>4, AdjustFact
  <2> QED
    BY <2>5, <1>7, Zenon DEF AccountsOK
<1>9. OffersOK'
  <2>1. offer.current_balance - x \in Nat
    BY <1>2, <1>4, <1>7
  <2>2. DOMAIN offers' = DOMAIN offers
    BY <1>7, Zenon
  <2>3. \A p \in DOMAIN offers : /\ offers'[p] \in Offer
                                 /\ offers'[p].terms = offers[p].terms
                                 /\ offers'[p].asset_type = offers[p].asset_type
    BY <2>1, <1>7, Zenon DEF OffersOK, Offer
  <2> QED
    BY <2>2, <2>3, <1>7, Zenon DEF OffersOK
<1>10. DealsOK'
  <2>1. now + t.max_duration_seconds \in Nat
    BY <1>5, <1>6
  <2>2. new \in Deal /\ new.debt_asset # new.collateral_asset
    BY <2>1, <1>2, <1>3, <1>4, <1>5, <1>7, Zenon DEF Deal
  <2> HIDE DEF new
  <2>3. DOMAIN deals' = DOMAIN deals \cup {deal_count + 1}
    BY <1>7, Zenon DEF Added
  <2>4. \A d \in DOMAIN deals' : deals'[d] = new \/ (d \in DOMAIN deals /\ deals'[d] = deals[d])
    <3> DEFINE A == Added(deals, deal_count + 1, new)
    <3>1. \A d \in DOMAIN deals \cup {deal_count + 1} :
             A[d] = new \/ (d \in DOMAIN deals /\ A[d] = deals[d])
      BY Zenon DEF Added
    <3>2. deals' = A
      BY <1>7, Zenon
    <3> HIDE DEF A
    <3> QED
      BY <2>3, <3>1, <3>2, Zenon
  <2> QED
    BY <2>2, <2>4, Zenon DEF DealsOK
<1> QED
  BY <1>1, <1>8, <1>9, <1>10, Zenon

(* Quotient and remainder.                                                 *)
LEMMA DivFact ==
    ASSUME NEW a \in Nat, NEW b \in Nat \ {0}
    PROVE  /\ a \div b \in Nat
           /\ (a \div b) * b <= a
           /\ a < (a \div b) * b + b
OBVIOUS

(* CeilDiv is the least q with a <= q * b.                                 *)
LEMMA CeilFact ==
    ASSUME NEW a \in Nat, NEW b \in Nat \ {0}
    PROVE  /\ CeilDiv(a, b) \in Nat
           /\ a <= CeilDiv(a, b) * b
           /\ CeilDiv(a, b) * b < a + b
<1>1. a + b - 1 \in Nat
  OBVIOUS
<1> QED
  BY <1>1, DivFact DEF CeilDiv

(* Comparing is comparing after a multiplication.                          *)
LEMMA TimesMonotone ==
    ASSUME NEW a \in Int, NEW c \in Int, NEW b \in Nat \ {0}
    PROVE  /\ a <= c <=> a * b <= c * b
           /\ a < c <=> a * b < c * b
OBVIOUS

(* A quotient rounded down or up against a bound.                          *)
LEMMA DivBound ==
    ASSUME NEW a \in Nat, NEW b \in Nat \ {0}, NEW q \in Nat
    PROVE  /\ q * b <= a => q <= a \div b
           /\ a < q * b => a \div b < q
           /\ a <= q * b => CeilDiv(a, b) <= q
           /\ q * b < a => q < CeilDiv(a, b)
<1> DEFINE d == a \div b  c == CeilDiv(a, b)
<1>1. d \in Nat /\ d * b <= a /\ a < d * b + b
  BY DivFact, Zenon
<1>2. c \in Nat /\ a <= c * b /\ c * b < a + b
  BY CeilFact, Zenon
<1> HIDE DEF d, c
<1>3. (d + 1) * b = d * b + b /\ (q + 1) * b = q * b + b
  BY <1>1
<1>4. q * b <= a => q <= d
  <2>1. q * b < (d + 1) * b => q < d + 1
    BY <1>1, TimesMonotone
  <2> QED
    BY <2>1, <1>1, <1>3
<1>5. a < q * b => d < q
  <2>1. d * b < q * b => d < q
    BY <1>1, TimesMonotone
  <2> QED
    BY <2>1, <1>1
<1>6. a <= q * b => c <= q
  <2>1. c * b < (q + 1) * b => c < q + 1
    BY <1>2, TimesMonotone
  <2> QED
    BY <2>1, <1>2, <1>3
<1>7. q * b < a => q < c
  <2>1. q * b < c * b => q < c
    BY <1>2, TimesMonotone
  <2> QED
    BY <2>1, <1>2
<1> QED
  BY <1>4, <1>5, <1>6, <1>7, Zenon DEF d, c

(* The fee on two parts is no less than the fee on the whole.              *)
LEMMA FeeOnParts ==
    ASSUME NEW x \in Nat, NEW y \in Nat, NEW f \in Nat
    PROVE  /\ required_fee(x, f) \in Nat
           /\ required_fee(x + y, f) <= required_fee(x, f) + required_fee(y, f)
<1> DEFINE D == FeeRateDenom  p == CeilDiv(x * f, D)  q == CeilDiv(y * f, D)
<1>1. D \in Nat \ {0}
  BY AccountAssumption, Zenon
<1> HIDE DEF D
<1>2. x * f \in Nat /\ y * f \in Nat /\ (x + y) * f \in Nat
  OBVIOUS
<1>3. (x + y) * f = x * f + y * f
  OBVIOUS
<1>4. p \in Nat /\ x * f <= p * D
  BY <1>1, <1>2, CeilFact, Zenon
<1>5. q \in Nat /\ y * f <= q * D
  BY <1>1, <1>2, CeilFact, Zenon
<1> HIDE DEF p, q
<1>6. (p + q) * D = p * D + q * D
  BY <1>1, <1>4, <1>5
<1>7. p * D \in Int /\ q * D \in Int
  BY <1>1, <1>4, <1>5
<1>8. (x + y) * f <= (p + q) * D
  BY <1>2, <1>3, <1>4, <1>5, <1>6, <1>7
<1>9. p + q \in Nat
  BY <1>4, <1>5
<1>10. CeilDiv((x + y) * f, D) <= p + q
  BY <1>1, <1>2, <1>8, <1>9, DivBound, Zenon
<1> QED
  BY <1>4, <1>10, Zenon DEF required_fee, p, q, D

(* Releasing in proportion, rounded down.                                  *)
LEMMA ReleaseBounds ==
    ASSUME NEW debt \in Nat \ {0}, NEW coll \in Nat \ {0}, NEW x \in Nat
    PROVE  LET rel == (x * coll) \div debt
           IN  /\ rel \in Nat
               /\ rel * debt <= x * coll
               /\ x < debt => rel < coll
               /\ x < debt => (coll - rel) * debt >= coll * (debt - x)
<1> DEFINE rel == (x * coll) \div debt
<1>1. x * coll \in Nat
  OBVIOUS
<1>2. rel \in Nat /\ rel * debt <= x * coll
  BY <1>1, DivFact, Zenon
<1>3. x < debt => x * coll < debt * coll
  BY TimesMonotone
<1>4. debt * coll = coll * debt
  OBVIOUS
<1>5. x < debt => rel < coll
  BY <1>1, <1>3, <1>4, DivBound, Zenon
<1> HIDE DEF rel
<1>6. (coll - rel) * debt = coll * debt - rel * debt
  BY <1>2
<1>7. coll * (debt - x) = coll * debt - x * coll
  OBVIOUS
<1>8. rel * debt \in Int /\ coll * debt \in Int
  BY <1>2
<1>9. (coll - rel) * debt >= coll * (debt - x)
  BY <1>1, <1>2, <1>6, <1>7, <1>8
<1> QED
  BY <1>2, <1>5, <1>9, Zenon DEF rel

(* What a partial automatic repayment works out, for a borrower who cannot *)
(* pay all: it is covered, it is less than the debt, and it is the least   *)
(* amount that releases as much.                                           *)
LEMMA PartialFits ==
    ASSUME NEW debt \in Nat \ {0}, NEW coll \in Nat \ {0}, NEW f \in Nat,
           NEW available \in Nat,
           available < debt + required_fee(debt, f)
    PROVE  LET aff == (available * FeeRateDenom) \div (FeeRateDenom + f)
               rel == (aff * coll) \div debt
               x   == CeilDiv(rel * debt, coll)
           IN  /\ x \in Nat
               /\ x < debt
               /\ x + required_fee(x, f) <= available
               /\ x > 0 => ((x - 1) * coll) \div debt < (x * coll) \div debt
<1> DEFINE D   == FeeRateDenom
           aff == (available * D) \div (D + f)
           rel == (aff * coll) \div debt
           x   == CeilDiv(rel * debt, coll)
           F   == CeilDiv(debt * f, D)
<1>1. D \in Nat \ {0} /\ D + f \in Nat \ {0}
  BY AccountAssumption
<1>2. available < debt + F
  BY Zenon DEF required_fee
<1> HIDE DEF D
<1>3. available * D \in Nat /\ debt * f \in Nat
  BY <1>1
<1>4. aff \in Nat /\ aff * (D + f) <= available * D
  BY <1>1, <1>3, DivFact, Zenon
<1>5. F \in Nat /\ F * D < debt * f + D
  BY <1>1, <1>3, CeilFact, Zenon
<1>6. aff < debt
  <2> HIDE DEF F
  <2>1. available <= debt + F - 1
    BY <1>2, <1>5
  <2>2. available * D <= (debt + F - 1) * D
    BY <2>1, <1>1, <1>5, TimesMonotone
  <2>3. (debt + F - 1) * D = debt * D + F * D - D
    BY <1>1, <1>5
  <2>4. debt * (D + f) = debt * D + debt * f
    BY <1>1
  <2>5. debt * D \in Nat /\ F * D \in Nat
    BY <1>1, <1>5
  <2>6. available * D < debt * (D + f)
    BY <2>2, <2>3, <2>4, <2>5, <1>1, <1>3, <1>5
  <2> QED
    BY <2>6, <1>1, <1>3, DivBound, Zenon
<1> HIDE DEF aff, F
<1>7. aff * coll \in Nat
  BY <1>4
<1>8. rel \in Nat /\ rel * debt <= aff * coll
  BY <1>7, DivFact, Zenon
<1> HIDE DEF rel
<1>9. rel * debt \in Nat
  BY <1>8
<1>10. x \in Nat /\ rel * debt <= x * coll /\ x * coll < rel * debt + coll
  BY <1>9, CeilFact, Zenon
<1>11. x <= aff
  BY <1>9, <1>8, <1>4, DivBound, Zenon
<1> HIDE DEF x
<1>12. x * (D + f) <= available * D
  <2>1. x * (D + f) <= aff * (D + f)
    BY <1>1, <1>4, <1>10, <1>11, TimesMonotone
  <2>2. x * (D + f) \in Int /\ aff * (D + f) \in Int
    BY <1>1, <1>4, <1>10
  <2> QED
    BY <2>1, <2>2, <1>3, <1>4
<1>13. x * (D + f) = x * D + x * f /\ x * D \in Nat /\ x * f \in Nat
  BY <1>1, <1>10
<1>14. x <= available
  <2>1. x * D <= available * D
    BY <1>3, <1>12, <1>13
  <2> QED
    BY <2>1, <1>1, <1>10, TimesMonotone
<1>15. CeilDiv(x * f, D) <= available - x
  <2>1. available - x \in Nat
    BY <1>10, <1>14
  <2>2. (available - x) * D = available * D - x * D
    BY <1>1, <1>10
  <2>3. x * f <= (available - x) * D
    BY <2>2, <1>3, <1>12, <1>13
  <2> QED
    BY <2>1, <2>3, <1>1, <1>13, DivBound, Zenon
<1>16. CeilDiv(x * f, D) \in Nat
  BY <1>1, <1>13, CeilFact, Zenon
<1>17. x > 0 => ((x - 1) * coll) \div debt < (x * coll) \div debt
  <2> SUFFICES ASSUME x > 0
               PROVE  ((x - 1) * coll) \div debt < (x * coll) \div debt
    OBVIOUS
  <2>1. x - 1 \in Nat
    BY <1>10
  <2>2. (x - 1) * coll = x * coll - coll /\ x * coll \in Nat /\ (x - 1) * coll \in Nat
    BY <2>1, <1>10
  <2>3. (x - 1) * coll < rel * debt
    BY <2>2, <1>9, <1>10
  <2>4. ((x - 1) * coll) \div debt < rel
    BY <2>2, <2>3, <1>8, DivBound, Zenon
  <2>5. rel <= (x * coll) \div debt
    BY <2>2, <1>8, <1>10, DivBound, Zenon
  <2>6. ((x - 1) * coll) \div debt \in Nat /\ (x * coll) \div debt \in Nat
    BY <2>2, DivFact, Zenon
  <2> QED
    BY <2>4, <2>5, <2>6, <1>8
<1>18. x < debt /\ x + CeilDiv(x * f, D) <= available
  BY <1>4, <1>6, <1>10, <1>11, <1>15, <1>16
<1> QED
  BY <1>10, <1>17, <1>18, Zenon DEF required_fee, D, aff, rel, x

(* What an automatic repayment works out: all that is owed, or a part that *)
(* the borrower can pay when all is too much.                              *)
LEMMA AutoRepaymentFact ==
    ASSUME TypeInv, NEW d \in DOMAIN deals
    PROVE  LET deal  == deals[d]
               r     == AutoRepayment(deal)
               total == deal.debt_amount + required_fee(deal.debt_amount, deal.fee_rate)
               have  == balance[deal.borrower][deal.debt_asset]
           IN  /\ r.amount \in Nat /\ r.fee \in Nat
               /\ \/ deal.auto_repay = "only_full"
                  \/ have >= total
                  => /\ r.amount = deal.debt_amount
                     /\ r.fee = required_fee(deal.debt_amount, deal.fee_rate)
               /\ deal.auto_repay # "only_full" /\ have < total
                  => /\ r.amount < deal.debt_amount
                     /\ r.fee = required_fee(r.amount, deal.fee_rate)
                     /\ r.amount + r.fee <= have
                     /\ r.amount > 0 => amount_to_release(deal, r.amount - 1)
                                           < amount_to_release(deal, r.amount)
<1> DEFINE deal  == deals[d]
           debt  == deal.debt_amount
           coll  == deal.collateral_amount
           f     == deal.fee_rate
           have  == balance[deal.borrower][deal.debt_asset]
           total == debt + required_fee(debt, f)
           r     == AutoRepayment(deal)
<1>1. deal \in Deal /\ balance \in [Account -> [Asset -> Nat]]
  BY Zenon DEF TypeInv, DealsOK, AccountsOK
<1>2. debt \in Nat \ {0} /\ coll \in Nat \ {0} /\ f \in Nat /\ have \in Nat
  BY <1>1, Zenon DEF Deal
<1>3. required_fee(debt, f) \in Nat
  BY <1>2, FeeOnParts, Zenon
<1>4. CASE deal.auto_repay = "only_full" \/ have >= total
  <2>1. r = [amount |-> debt, fee |-> required_fee(debt, f)]
    BY <1>4, Zenon DEF AutoRepayment
  <2>2. r.amount = debt /\ r.fee = required_fee(debt, f)
    BY <2>1
  <2>3. ~(deal.auto_repay # "only_full" /\ have < total)
    BY <1>2, <1>3, <1>4
  <2> QED
    BY <2>2, <2>3, <1>2, <1>3, Zenon
<1>5. CASE ~(deal.auto_repay = "only_full" \/ have >= total)
  <2>1. have < total
    BY <1>2, <1>3, <1>5
  <2>2. r = PartialRepayment(deal, have)
    BY <1>5, Zenon DEF AutoRepayment
  <2> DEFINE aff == (have * FeeRateDenom) \div (FeeRateDenom + f)
             rel == (aff * coll) \div debt
             x   == CeilDiv(rel * debt, coll)
  <2>3. r.amount = x /\ r.fee = required_fee(x, f)
    BY <2>2 DEF PartialRepayment
  <2>4. /\ x \in Nat /\ x < debt /\ x + required_fee(x, f) <= have
        /\ x > 0 => ((x - 1) * coll) \div debt < (x * coll) \div debt
    <3> HIDE DEF debt, coll, f, have
    <3> QED
      BY <2>1, <1>2, PartialFits, Zenon
  <2> HIDE DEF x
  <2>5. required_fee(x, f) \in Nat
    BY <2>4, <1>2, FeeOnParts, Zenon
  <2>6. x > 0 => amount_to_release(deal, x - 1) < amount_to_release(deal, x)
    BY <2>4, Zenon DEF amount_to_release
  <2> QED
    BY <2>1, <2>3, <2>4, <2>5, <2>6, <1>5, Zenon
<1> QED
  BY <1>4, <1>5, Zenon

(* A repayment, asked for or automatic.                                    *)
LEMMA RepayTypes ==
    ASSUME TypeInv, NEW d \in DOMAIN deals, NEW x \in Nat, NEW fee \in Nat,
           CanRepay(d, x, fee), Repay(d, x, fee),
           UNCHANGED <<now, barred, phase, offer_count>>, OnlyCredit
    PROVE  /\ TypeInv'
           /\ x # deals[d].debt_amount =>
                 /\ DOMAIN deals' = DOMAIN deals
                 /\ \A e \in DOMAIN deals : e # d => deals'[e] = deals[e]
                 /\ deals'[d].debt_amount = deals[d].debt_amount - x
                 /\ deals'[d].collateral_amount
                       = deals[d].collateral_amount - amount_to_release(deals[d], x)
                 /\ deals'[d].borrower = deals[d].borrower
                 /\ deals'[d].debt_asset = deals[d].debt_asset
                 /\ deals'[d].fee_rate = deals[d].fee_rate
                 /\ deals'[d].latest_repay_time = deals[d].latest_repay_time
                 /\ x < deals[d].debt_amount
                 /\ balance'[deals[d].borrower][deals[d].debt_asset]
                       = balance[deals[d].borrower][deals[d].debt_asset] - (x + fee)
           /\ x = deals[d].debt_amount =>
                 /\ DOMAIN deals' = DOMAIN deals \ {d}
                 /\ \A e \in DOMAIN deals' : deals'[e] = deals[e]
           /\ DOMAIN offers' = DOMAIN offers
           /\ \A o \in DOMAIN offers : offers'[o].terms = offers[o].terms
<1> DEFINE deal == deals[d]
           full == deal.debt_amount = x
           rel  == IF full THEN deal.collateral_amount ELSE amount_to_release(deal, x)
<1> USE DEF TypeInv
<1>1. /\ deal \in Deal /\ deal.debt_asset # deal.collateral_asset
      /\ balance \in [Account -> [Asset -> Nat]]
  BY Zenon DEF DealsOK, AccountsOK
<1>2. x <= deal.debt_amount /\ balance[deal.borrower][deal.debt_asset] >= x + fee
  BY Zenon DEF CanRepay, Covers
<1>3. /\ deal.borrower \in Account /\ deal.debt_asset \in Asset
      /\ deal.collateral_asset \in Asset
      /\ deal.debt_amount \in Nat \ {0} /\ deal.collateral_amount \in Nat \ {0}
  BY <1>1, Zenon DEF Deal
<1>4. rel \in Nat /\ (~full => rel < deal.collateral_amount)
  <2>1. CASE full
    BY <2>1, <1>3, Zenon
  <2>2. CASE ~full
    <3>1. x < deal.debt_amount
      BY <2>2, <1>2, <1>3
    <3> QED
      BY <2>2, <3>1, <1>3, ReleaseBounds, Zenon DEF amount_to_release
  <2> QED
    BY <2>1, <2>2, Zenon
<1>5. /\ balance' = adjust_balance(adjust_balance(balance, deal.borrower, deal.debt_asset,
                                                  -(x + fee)),
                                   deal.borrower, deal.collateral_asset, rel)
      /\ offers' = [offers EXCEPT ![deal.offer_id].total_balance = @ + fee,
                                  ![deal.offer_id].current_balance = @ + x + fee]
      /\ deals' = IF full THEN Removed(deals, d)
                  ELSE [deals EXCEPT ![d].debt_amount = @ - x,
                                     ![d].collateral_amount = @ - rel]
  BY Zenon DEF Repay
<1> HIDE DEF rel
<1> DEFINE paid == adjust_balance(balance, deal.borrower, deal.debt_asset, -(x + fee))
<1>6. /\ paid \in [Account -> [Asset -> Nat]]
      /\ paid[deal.borrower][deal.debt_asset]
            = balance[deal.borrower][deal.debt_asset] - (x + fee)
  <2>1. -(x + fee) \in Int
    OBVIOUS
  <2>2. balance[deal.borrower][deal.debt_asset] + (-(x + fee)) >= 0
    BY <1>1, <1>2, <1>3
  <2>3. /\ paid \in [Account -> [Asset -> Nat]]
        /\ paid[deal.borrower][deal.debt_asset]
              = balance[deal.borrower][deal.debt_asset] + (-(x + fee))
    BY <2>1, <2>2, <1>1, <1>3, AdjustFact
  <2>4. balance[deal.borrower][deal.debt_asset] \in Nat
    BY <1>1, <1>3, Zenon
  <2> QED
    BY <2>3, <2>4, Zenon
<1> HIDE DEF paid
<1>7. /\ balance' \in [Account -> [Asset -> Nat]]
      /\ balance'[deal.borrower][deal.debt_asset]
            = balance[deal.borrower][deal.debt_asset] - (x + fee)
  <2>1. balance' = adjust_balance(paid, deal.borrower, deal.collateral_asset, rel)
    BY <1>5, Zenon DEF paid
  <2>2. paid[deal.borrower][deal.collateral_asset] + rel >= 0
    BY <1>3, <1>4, <1>6
  <2>3. rel \in Int
    BY <1>4
  <2> QED
    BY <2>1, <2>2, <2>3, <1>1, <1>3, <1>6, AdjustFact
<1>8. AccountsOK'
  BY <1>7, Zenon DEF AccountsOK
<1>9. HtlcsOK' /\ FundsOK'
  BY Zenon DEF OnlyCredit, HtlcsOK, FundsOK, htlc_vars, fund_vars
<1>10. /\ OffersOK'
       /\ DOMAIN offers' = DOMAIN offers
       /\ \A o \in DOMAIN offers : offers'[o].terms = offers[o].terms
  <2>1. DOMAIN offers' = DOMAIN offers
    BY <1>5, Zenon
  <2>2. \A o \in DOMAIN offers : /\ offers'[o] \in Offer
                                 /\ offers'[o].terms = offers[o].terms
                                 /\ offers'[o].asset_type = offers[o].asset_type
    BY <1>5 DEF OffersOK, Offer
  <2> QED
    BY <2>1, <2>2, Zenon DEF OffersOK
<1>11. CASE full
  <2>1. DOMAIN deals' = DOMAIN deals \ {d} /\ \A e \in DOMAIN deals' : deals'[e] = deals[e]
    BY <1>5, <1>11, Zenon DEF Removed, Restrict
  <2>2. DealsOK'
    BY <2>1, Zenon DEF DealsOK
  <2> QED
    BY <2>1, <2>2, <1>8, <1>9, <1>10, <1>11, Zenon
<1>12. CASE ~full
  <2>1. deals' = [deals EXCEPT ![d] = [deal EXCEPT !.debt_amount = @ - x,
                                                    !.collateral_amount = @ - rel]]
    BY <1>5, <1>12, Zenon
  <2>2. DOMAIN deals' = DOMAIN deals /\ \A e \in DOMAIN deals : e # d => deals'[e] = deals[e]
    BY <2>1, Zenon
  <2>3. deals'[d] = [deal EXCEPT !.debt_amount = @ - x, !.collateral_amount = @ - rel]
    BY <2>1, Zenon
  <2>4. x < deal.debt_amount
    BY <1>2, <1>3, <1>12
  <2>5. deal.debt_amount - x \in Nat \ {0} /\ deal.collateral_amount - rel \in Nat \ {0}
    BY <2>4, <1>3, <1>4, <1>12
  <2>6. /\ deals'[d] \in Deal
        /\ deals'[d].debt_amount = deal.debt_amount - x
        /\ deals'[d].collateral_amount = deal.collateral_amount - rel
        /\ deals'[d].borrower = deal.borrower
        /\ deals'[d].debt_asset = deal.debt_asset
        /\ deals'[d].collateral_asset = deal.collateral_asset
        /\ deals'[d].fee_rate = deal.fee_rate
        /\ deals'[d].latest_repay_time = deal.latest_repay_time
    BY <2>3, <2>5, <1>1, Zenon DEF Deal
  <2>7. DealsOK'
    BY <2>2, <2>6, <1>1, Zenon DEF DealsOK
  <2>8. rel = amount_to_release(deal, x)
    BY <1>12, Zenon DEF rel
  <2>9. TypeInv'
    BY <2>7, <1>8, <1>9, <1>10, Zenon
  <2>10. x # deal.debt_amount
    BY <1>12, Zenon
  <2> QED
    BY <2>2, <2>4, <2>6, <2>8, <2>9, <2>10, <1>7, <1>10, Zenon
<1> QED
  BY <1>11, <1>12, Zenon

(* Repayments and expiries of deals.                                       *)
LEMMA DealTypes ==
    ASSUME TypeInv, OnlyCredit, NEW d \in DOMAIN deals
    PROVE  /\ \A x \in Amount, fee \in Amount \cup {0} :
                 credit_deal_repay(d, x, fee) => TypeInv'
           /\ \A auto \in auto_repay_type : credit_deal_update(d, auto) => TypeInv'
           /\ auto_repay(d) => TypeInv'
           /\ credit_deal_expired(d) => TypeInv'
<1> USE DEF TypeInv
<1>1. HtlcsOK' /\ FundsOK'
  BY Zenon DEF OnlyCredit, HtlcsOK, FundsOK, htlc_vars, fund_vars
<1>2. deals[d] \in Deal /\ balance \in [Account -> [Asset -> Nat]]
  BY Zenon DEF DealsOK, AccountsOK
<1>3. ASSUME NEW x \in Amount, NEW fee \in Amount \cup {0}, credit_deal_repay(d, x, fee)
      PROVE  TypeInv'
  <2>1. x \in Nat /\ fee \in Nat
    BY AccountAssumption
  <2> QED
    BY <2>1, <1>3, RepayTypes, Zenon DEF credit_deal_repay
<1>4. ASSUME NEW auto \in auto_repay_type, credit_deal_update(d, auto)
      PROVE  TypeInv'
  <2>1. AccountsOK' /\ OffersOK'
    BY <1>4, Zenon DEF credit_deal_update, AccountsOK, OffersOK, account_vars
  <2>2. deals' = [deals EXCEPT ![d].auto_repay = auto]
    BY <1>4, Zenon DEF credit_deal_update
  <2>3. [deals[d] EXCEPT !.auto_repay = auto] \in Deal
    BY <1>2, Zenon DEF Deal
  <2>4. DealsOK'
    BY <2>2, <2>3 DEF DealsOK
  <2> QED
    BY <2>1, <2>4, <1>1, Zenon
<1>5. ASSUME auto_repay(d)
      PROVE  TypeInv'
  <2> DEFINE r == AutoRepayment(deals[d])
  <2>1. r.amount \in Nat /\ r.fee \in Nat
    BY AutoRepaymentFact, Zenon
  <2>2. CASE CanRepay(d, r.amount, r.fee) /\ Repay(d, r.amount, r.fee)
    <3>1. UNCHANGED <<now, barred, phase, offer_count>>
      BY <1>5, Zenon DEF auto_repay
    <3> HIDE DEF r
    <3> QED
      BY <2>1, <2>2, <3>1, RepayTypes, Zenon
  <2>3. CASE UNCHANGED <<balance, offers, summaries, deals>>
    BY <2>3, <1>1, <1>5, Zenon DEF auto_repay, AccountsOK, OffersOK, DealsOK
  <2> QED
    BY <2>2, <2>3, <1>5, Zenon DEF auto_repay
<1>6. ASSUME credit_deal_expired(d)
      PROVE  TypeInv'
  <2> DEFINE deal == deals[d]
  <2>1. /\ deal.offer_owner \in Account /\ deal.collateral_asset \in Asset
        /\ deal.collateral_amount \in Nat /\ deal.debt_amount \in Nat
    BY <1>2, Zenon DEF Deal
  <2>2. balance[deal.offer_owner][deal.collateral_asset] + deal.collateral_amount >= 0
    BY <2>1, <1>2
  <2>3. balance' = adjust_balance(balance, deal.offer_owner, deal.collateral_asset,
                                  deal.collateral_amount)
    BY <1>6, Zenon DEF credit_deal_expired
  <2>4. balance' \in [Account -> [Asset -> Nat]]
    BY <2>1, <2>2, <2>3, <1>2, AdjustFact
  <2>5. AccountsOK'
    BY <2>4, <1>6, Zenon DEF AccountsOK, credit_deal_expired
  <2>6. /\ offers' = [offers EXCEPT ![deal.offer_id].total_balance = @ - deal.debt_amount]
        /\ offer_count' = offer_count
    BY <1>6, Zenon DEF credit_deal_expired
  <2>7. \A o \in DOMAIN offers : /\ offers'[o] \in Offer
                                 /\ offers'[o].terms = offers[o].terms
                                 /\ offers'[o].asset_type = offers[o].asset_type
    BY <2>1, <2>6 DEF OffersOK, Offer
  <2>8. OffersOK'
    BY <2>6, <2>7, Zenon DEF OffersOK
  <2>9. deals' = Removed(deals, d)
    BY <1>6, Zenon DEF credit_deal_expired
  <2>10. DealsOK'
    BY <2>9, Zenon DEF DealsOK, Removed, Restrict
  <2> QED
    BY <2>5, <2>8, <2>10, <1>1, Zenon
<1> QED
  BY <1>3, <1>4, <1>5, <1>6, Zenon

(* Every step keeps what is stored in shape.                               *)
LEMMA TypeStep == TypeInv /\ [Next]_vars => TypeInv'
<1> SUFFICES ASSUME TypeInv, [Next]_vars PROVE TypeInv'
  OBVIOUS
<1>1. CASE \E p \in MayBeBarred : /\ account_whitelist(p[1], p[2])
                                  /\ UNCHANGED <<htlc_vars, fund_vars, credit_vars>>
  BY <1>1 DEF account_whitelist, TypeInv, AccountsOK, HtlcsOK, FundsOK, OffersOK, DealsOK,
              htlc_vars, fund_vars, credit_vars
<1>2. CASE \/ \E from, to \in Account, s \in Asset, x \in Amount, t \in ClaimPeriod :
                 htlc_create(from, to, s, x, t) /\ OnlyHtlcs
           \/ \E h \in DOMAIN htlcs : htlc_redeem(h) /\ OnlyHtlcs
           \/ \E h \in DOMAIN htlcs, t \in ClaimPeriod : htlc_extend(h, t) /\ OnlyHtlcs
           \/ \E h \in DOMAIN htlcs : clear_expired_htlcs(h) /\ OnlyHtlcs
  BY <1>2, HtlcTypes, Zenon
<1>3. CASE \/ \E a \in Account, s \in Asset, x \in Amount, r \in FundRate :
                 samet_fund_create(a, s, x, r) /\ OnlyFunds
           \/ \E f \in DOMAIN funds : samet_fund_delete(f) /\ OnlyFunds
           \/ \E f \in DOMAIN funds, x \in Delta, r \in FundRate :
                 samet_fund_update(f, x, r) /\ OnlyFunds
           \/ \E f \in DOMAIN funds, a \in Account, x \in Amount :
                 samet_fund_borrow(f, a, x) /\ OnlyFunds
           \/ \E f \in DOMAIN funds, a \in Account, x \in Amount, fee \in Amount \cup {0} :
                 samet_fund_repay(f, a, x, fee) /\ OnlyFunds
  BY <1>3, FundTypes, Zenon
<1>4. CASE \/ \E a \in Account, s \in Asset, x \in Amount, t \in Terms :
                 credit_offer_create(a, s, x, t) /\ OnlyCredit
           \/ \E o \in DOMAIN offers : credit_offer_delete(o) /\ OnlyCredit
           \/ \E o \in DOMAIN offers, x \in Delta :
                 \E t \in Terms \cup {offers[o].terms} :
                    credit_offer_update(o, x, t) /\ OnlyCredit
  BY <1>4, OfferTypes, Zenon
<1>5. CASE \/ \E o \in DOMAIN offers, a \in Account, s \in Asset, x, c \in Amount,
                 auto \in auto_repay_type :
                    credit_offer_accept(o, a, x, s, c, auto) /\ OnlyCredit
           \/ \E d \in DOMAIN deals, x \in Amount, fee \in Amount \cup {0} :
                 credit_deal_repay(d, x, fee) /\ OnlyCredit
           \/ \E d \in DOMAIN deals, auto \in auto_repay_type :
                 credit_deal_update(d, auto) /\ OnlyCredit
           \/ \E d \in DOMAIN deals : auto_repay(d) /\ OnlyCredit
           \/ \E d \in DOMAIN deals : credit_deal_expired(d) /\ OnlyCredit
  BY <1>5, AcceptTypes, DealTypes, Zenon
<1>6. CASE end_transactions \/ finish_block \/ UNCHANGED vars
  <2>1. /\ UNCHANGED <<balance, barred, htlc_vars, fund_vars, credit_vars>>
        /\ now' = now \/ now' = now + 1
        /\ phase' \in {phase, "htlcs", "open"}
    BY <1>6, Zenon DEF end_transactions, finish_block, vars, account_vars
  <2> QED
    BY <2>1 DEF TypeInv, AccountsOK, HtlcsOK, FundsOK, OffersOK, DealsOK,
                htlc_vars, fund_vars, credit_vars
<1>7. CASE update_credit_offers
  <2>1. AccountsOK' /\ HtlcsOK' /\ FundsOK' /\ DealsOK'
    BY <1>7, Zenon DEF update_credit_offers, TypeInv, AccountsOK, HtlcsOK, FundsOK, DealsOK,
                 htlc_vars, fund_vars
  <2>2. offers' = AutoDisabled /\ offer_count' = offer_count
    BY <1>7, Zenon DEF update_credit_offers
  <2>3. \A o \in DOMAIN offers : offers[o] \in Offer
    BY Zenon DEF TypeInv, OffersOK
  <2>4. \A o \in DOMAIN offers :
           /\ offers'[o] \in Offer
           /\ offers'[o].asset_type = offers[o].asset_type
           /\ offers'[o].terms.acceptable_collateral = offers[o].terms.acceptable_collateral
    BY <2>2, <2>3, Zenon DEF AutoDisabled, Offer, Term
  <2>5. OffersOK'
    BY <2>2, <2>4, Zenon DEF OffersOK, TypeInv, AutoDisabled
  <2> QED
    BY <2>1, <2>5, Zenon DEF TypeInv
<1> QED
  BY <1>1, <1>2, <1>3, <1>4, <1>5, <1>6, <1>7, Zenon DEF Next, Housekeeping

(* Operations run before the time of the block moves; only the settlement  *)
(* of what is due runs afterwards.                                         *)
LEMMA Phases ==
    ASSUME [Next]_vars
    PROVE  \/ /\ phase = "open" /\ phase' \in {"open", "htlcs"}
              /\ past_due' = past_due
           \/ /\ phase = "htlcs" /\ phase' = "htlcs"
              /\ past_due' = past_due
           \/ update_credit_offers
           \/ \E d \in DOMAIN deals : auto_repay(d) /\ OnlyCredit
           \/ \E d \in DOMAIN deals : credit_deal_expired(d) /\ OnlyCredit
           \/ finish_block
           \/ UNCHANGED vars
<1> USE DEF account_vars, htlc_vars, fund_vars, credit_vars, OnlyHtlcs, OnlyFunds, OnlyCredit
<1>1. CASE \E p \in MayBeBarred : /\ account_whitelist(p[1], p[2])
                                  /\ UNCHANGED <<htlc_vars, fund_vars, credit_vars>>
  BY <1>1, Zenon DEF account_whitelist
<1>2. CASE \E from, to \in Account, s \in Asset, x \in Amount, t \in ClaimPeriod :
              htlc_create(from, to, s, x, t) /\ OnlyHtlcs
  BY <1>2 DEF htlc_create
<1>3. CASE \E h \in DOMAIN htlcs : htlc_redeem(h) /\ OnlyHtlcs
  BY <1>3, Zenon DEF htlc_redeem
<1>4. CASE \E h \in DOMAIN htlcs, t \in ClaimPeriod : htlc_extend(h, t) /\ OnlyHtlcs
  BY <1>4, Zenon DEF htlc_extend
<1>5. CASE \E a \in Account, s \in Asset, x \in Amount, r \in FundRate :
              samet_fund_create(a, s, x, r) /\ OnlyFunds
  BY <1>5, Zenon DEF samet_fund_create
<1>6. CASE \E f \in DOMAIN funds : samet_fund_delete(f) /\ OnlyFunds
  BY <1>6, Zenon DEF samet_fund_delete
<1>7. CASE \E f \in DOMAIN funds, x \in Delta, r \in FundRate :
              samet_fund_update(f, x, r) /\ OnlyFunds
  BY <1>7, Zenon DEF samet_fund_update
<1>8. CASE \E f \in DOMAIN funds, a \in Account, x \in Amount :
              samet_fund_borrow(f, a, x) /\ OnlyFunds
  BY <1>8, Zenon DEF samet_fund_borrow
<1>9. CASE \E f \in DOMAIN funds, a \in Account, x \in Amount, fee \in Amount \cup {0} :
              samet_fund_repay(f, a, x, fee) /\ OnlyFunds
  BY <1>9 DEF samet_fund_repay
<1>10. CASE \E a \in Account, s \in Asset, x \in Amount, t \in Terms :
              credit_offer_create(a, s, x, t) /\ OnlyCredit
  BY <1>10, Zenon DEF credit_offer_create
<1>11. CASE \E o \in DOMAIN offers : credit_offer_delete(o) /\ OnlyCredit
  BY <1>11, Zenon DEF credit_offer_delete
<1>12. CASE \E o \in DOMAIN offers, x \in Delta :
              \E t \in Terms \cup {offers[o].terms} :
                 credit_offer_update(o, x, t) /\ OnlyCredit
  BY <1>12 DEF credit_offer_update
<1>13. CASE \E o \in DOMAIN offers, a \in Account, s \in Asset, x, c \in Amount,
              auto \in auto_repay_type :
                 credit_offer_accept(o, a, x, s, c, auto) /\ OnlyCredit
  BY <1>13 DEF credit_offer_accept
<1>14. CASE \E d \in DOMAIN deals, x \in Amount, fee \in Amount \cup {0} :
              credit_deal_repay(d, x, fee) /\ OnlyCredit
  BY <1>14, Zenon DEF credit_deal_repay
<1>15. CASE \E d \in DOMAIN deals, auto \in auto_repay_type :
              credit_deal_update(d, auto) /\ OnlyCredit
  BY <1>15, Zenon DEF credit_deal_update
<1>16. CASE end_transactions
  BY <1>16, Zenon DEF end_transactions
<1>17. CASE \E h \in DOMAIN htlcs : clear_expired_htlcs(h) /\ OnlyHtlcs
  BY <1>17, Zenon DEF clear_expired_htlcs
<1>18. CASE \/ \E d \in DOMAIN deals : auto_repay(d) /\ OnlyCredit
            \/ \E d \in DOMAIN deals : credit_deal_expired(d) /\ OnlyCredit
            \/ update_credit_offers
            \/ finish_block
            \/ UNCHANGED vars
  BY <1>18, Zenon
<1> QED
  BY <1>1, <1>2, <1>3, <1>4, <1>5, <1>6, <1>7, <1>8, <1>9, <1>10, <1>11, <1>12, <1>13,
     <1>14, <1>15, <1>16, <1>17, <1>18, Zenon DEF Next, Housekeeping

(* The steps that change deals.                                            *)
LEMMA DealSteps ==
    ASSUME [Next]_vars
    PROVE  \/ UNCHANGED <<deals, deal_count>>
           \/ \E o \in DOMAIN offers, a \in Account, s \in Asset, x, c \in Amount,
                 auto \in auto_repay_type :
                    credit_offer_accept(o, a, x, s, c, auto) /\ OnlyCredit
           \/ \E d \in DOMAIN deals, x \in Amount, fee \in Amount \cup {0} :
                 credit_deal_repay(d, x, fee) /\ OnlyCredit
           \/ \E d \in DOMAIN deals, auto \in auto_repay_type :
                 credit_deal_update(d, auto) /\ OnlyCredit
           \/ \E d \in DOMAIN deals : auto_repay(d) /\ OnlyCredit
           \/ \E d \in DOMAIN deals : credit_deal_expired(d) /\ OnlyCredit
<1> USE DEF account_vars, htlc_vars, fund_vars, credit_vars, OnlyHtlcs, OnlyFunds
<1>1. CASE \/ \E p \in MayBeBarred : /\ account_whitelist(p[1], p[2])
                                     /\ UNCHANGED <<htlc_vars, fund_vars, credit_vars>>
           \/ \E from, to \in Account, s \in Asset, x \in Amount, t \in ClaimPeriod :
                 htlc_create(from, to, s, x, t) /\ OnlyHtlcs
           \/ \E h \in DOMAIN htlcs : htlc_redeem(h) /\ OnlyHtlcs
           \/ \E h \in DOMAIN htlcs, t \in ClaimPeriod : htlc_extend(h, t) /\ OnlyHtlcs
           \/ \E h \in DOMAIN htlcs : clear_expired_htlcs(h) /\ OnlyHtlcs
  BY <1>1, Zenon
<1>2. CASE \/ \E a \in Account, s \in Asset, x \in Amount, r \in FundRate :
                 samet_fund_create(a, s, x, r) /\ OnlyFunds
           \/ \E f \in DOMAIN funds : samet_fund_delete(f) /\ OnlyFunds
           \/ \E f \in DOMAIN funds, x \in Delta, r \in FundRate :
                 samet_fund_update(f, x, r) /\ OnlyFunds
           \/ \E f \in DOMAIN funds, a \in Account, x \in Amount :
                 samet_fund_borrow(f, a, x) /\ OnlyFunds
           \/ \E f \in DOMAIN funds, a \in Account, x \in Amount, fee \in Amount \cup {0} :
                 samet_fund_repay(f, a, x, fee) /\ OnlyFunds
  BY <1>2, Zenon
<1>3. CASE \/ \E a \in Account, s \in Asset, x \in Amount, t \in Terms :
                 credit_offer_create(a, s, x, t) /\ OnlyCredit
           \/ \E o \in DOMAIN offers : credit_offer_delete(o) /\ OnlyCredit
           \/ \E o \in DOMAIN offers, x \in Delta :
                 \E t \in Terms \cup {offers[o].terms} :
                    credit_offer_update(o, x, t) /\ OnlyCredit
  <2>1. \A a, s, x, t : credit_offer_create(a, s, x, t) => UNCHANGED <<deals, deal_count>>
    BY Zenon DEF credit_offer_create
  <2>2. \A o : credit_offer_delete(o) => UNCHANGED <<deals, deal_count>>
    BY Zenon DEF credit_offer_delete
  <2>3. \A o, x, t : credit_offer_update(o, x, t) => UNCHANGED <<deals, deal_count>>
    BY Zenon DEF credit_offer_update
  <2> QED
    BY <1>3, <2>1, <2>2, <2>3, Zenon
<1>4. CASE end_transactions \/ update_credit_offers \/ finish_block \/ UNCHANGED vars
  BY <1>4, Zenon DEF end_transactions, update_credit_offers, finish_block, vars
<1> QED
  BY <1>1, <1>2, <1>3, <1>4, Zenon DEF Next, Housekeeping

(* Every step gives a new deal a new id.                                   *)
LEMMA IdsStep == TypeInv /\ IdsOK /\ [Next]_vars => IdsOK'
<1> SUFFICES ASSUME TypeInv, IdsOK, [Next]_vars PROVE IdsOK'
  OBVIOUS
<1>1. ASSUME DOMAIN deals' \subseteq DOMAIN deals, deal_count' = deal_count
      PROVE  IdsOK'
  BY <1>1, Zenon DEF IdsOK
<1>2. ASSUME NEW o \in DOMAIN offers, NEW a \in Account, NEW s \in Asset,
             NEW x \in Amount, NEW c \in Amount, NEW auto \in auto_repay_type,
             credit_offer_accept(o, a, x, s, c, auto)
      PROVE  IdsOK'
  <2>1. DOMAIN deals' = DOMAIN deals \cup {deal_count + 1} /\ deal_count' = deal_count + 1
    BY <1>2, Zenon DEF credit_offer_accept, Added
  <2> QED
    BY <2>1 DEF IdsOK
<1>3. ASSUME NEW d \in DOMAIN deals, NEW x, NEW fee, Repay(d, x, fee)
      PROVE  DOMAIN deals' \subseteq DOMAIN deals
  BY <1>3, Zenon DEF Repay, Removed, Restrict
<1>4. ASSUME NEW d \in DOMAIN deals, NEW x, NEW fee, credit_deal_repay(d, x, fee)
      PROVE  IdsOK'
  BY <1>1, <1>3, <1>4, Zenon DEF credit_deal_repay
<1>5. ASSUME NEW d \in DOMAIN deals, NEW auto, credit_deal_update(d, auto)
      PROVE  IdsOK'
  BY <1>1, <1>5, Zenon DEF credit_deal_update
<1>6. ASSUME NEW d \in DOMAIN deals, auto_repay(d)
      PROVE  IdsOK'
  BY <1>1, <1>3, <1>6, Zenon DEF auto_repay
<1>7. ASSUME NEW d \in DOMAIN deals, credit_deal_expired(d)
      PROVE  IdsOK'
  BY <1>1, <1>7, Zenon DEF credit_deal_expired, Removed, Restrict
<1> QED
  BY <1>1, <1>2, <1>4, <1>5, <1>6, <1>7, DealSteps, Zenon

(* The invariant holds initially.                                          *)
LEMMA InitInv == Init => ContractInv
<1> SUFFICES ASSUME Init PROVE ContractInv
  OBVIOUS
<1> USE DEF Init, AccountInit, HtlcInit, FundInit, CreditInit
<1>1. AccountsOK
  BY AccountAssumption, Zenon DEF AccountsOK
<1>2. HtlcsOK /\ FundsOK /\ OffersOK /\ DealsOK
  BY DEF HtlcsOK, FundsOK, OffersOK, DealsOK
<1>3. Cleared /\ PastDueOK /\ IdsOK
  BY DEF Cleared, PastDueOK, SolventBorrowersKeepCollateral, IdsOK
<1> QED
  BY <1>1, <1>2, <1>3, Zenon DEF ContractInv, TypeInv

(* A step of the settlement of deals leaves the terms of the offers alone. *)
LEMMA ClearedStep == TypeInv /\ Cleared /\ [Next]_vars => Cleared'
<1> SUFFICES ASSUME TypeInv, Cleared, [Next]_vars PROVE Cleared'
  OBVIOUS
<1>1. CASE phase' # "deals"
  BY <1>1, Zenon DEF Cleared
<1>2. CASE update_credit_offers
  <2>1. /\ htlcs' = htlcs /\ now' = now /\ offers' = AutoDisabled
        /\ \A h \in DOMAIN htlcs : ~HtlcExpired(h)
    BY <1>2, Zenon DEF update_credit_offers, htlc_vars
  <2>2. \A o \in DOMAIN offers : /\ offers[o] \in Offer /\ offers[o].terms \in Term
                                 /\ offers[o].terms.auto_disable_time \in Nat
    BY Zenon DEF TypeInv, OffersOK, Offer, Term
  <2>3. now \in Nat
    BY Zenon DEF TypeInv, AccountsOK
  <2>4. \A o \in DOMAIN offers' :
           offers'[o].terms.enabled => offers'[o].terms.auto_disable_time > now
    BY <2>1, <2>2, <2>3 DEF AutoDisabled, Offer, Term
  <2> QED
    BY <2>1, <2>4, Zenon DEF Cleared, HtlcExpired
<1>3. ASSUME NEW d \in DOMAIN deals, auto_repay(d), OnlyCredit
      PROVE  Cleared'
  <2> DEFINE r == AutoRepayment(deals[d])
  <2>1. phase = "deals" /\ UNCHANGED <<htlcs, now>>
    BY <1>3, Zenon DEF auto_repay, OnlyCredit, htlc_vars
  <2>2. DOMAIN offers' = DOMAIN offers /\ \A o \in DOMAIN offers : offers'[o].terms = offers[o].terms
    <3>1. CASE CanRepay(d, r.amount, r.fee) /\ Repay(d, r.amount, r.fee)
      <4>1. r.amount \in Nat /\ r.fee \in Nat
        BY AutoRepaymentFact, Zenon
      <4>2. UNCHANGED <<now, barred, phase, offer_count>>
        BY <1>3, Zenon DEF auto_repay
      <4> HIDE DEF r
      <4> QED
        BY <4>1, <4>2, <3>1, <1>3, RepayTypes, Zenon
    <3>2. CASE UNCHANGED offers
      BY <3>2, Zenon
    <3> QED
      BY <3>1, <3>2, <1>3, Zenon DEF auto_repay
  <2> QED
    BY <2>1, <2>2, Zenon DEF Cleared, HtlcExpired
<1>4. ASSUME NEW d \in DOMAIN deals, credit_deal_expired(d), OnlyCredit
      PROVE  Cleared'
  <2>1. /\ phase = "deals" /\ UNCHANGED <<htlcs, now>>
        /\ offers' = [offers EXCEPT ![deals[d].offer_id].total_balance
                                       = @ - deals[d].debt_amount]
    BY <1>4, Zenon DEF credit_deal_expired, OnlyCredit, htlc_vars
  <2>2. \A o \in DOMAIN offers : offers[o] \in Offer
    BY Zenon DEF TypeInv, OffersOK
  <2>3. DOMAIN offers' = DOMAIN offers /\ \A o \in DOMAIN offers : offers'[o].terms = offers[o].terms
    BY <2>1, <2>2, Zenon DEF Offer
  <2> QED
    BY <2>1, <2>3, Zenon DEF Cleared, HtlcExpired
<1>5. CASE finish_block
  BY <1>5, Zenon DEF finish_block, Cleared
<1>6. CASE UNCHANGED vars
  BY <1>6, Zenon DEF vars, account_vars, htlc_vars, credit_vars, Cleared, HtlcExpired
<1> QED
  BY <1>1, <1>2, <1>3, <1>4, <1>5, <1>6, Phases, Zenon

(* After a partial repayment of x the borrower still cannot pay the rest.  *)
LEMMA StillShort ==
    ASSUME NEW debt \in Nat \ {0}, NEW f \in Nat, NEW have \in Nat, NEW x \in Nat,
           x < debt, have < debt + required_fee(debt, f)
    PROVE  ~(have - (x + required_fee(x, f)) >= (debt - x) + required_fee(debt - x, f))
<1> DEFINE p == required_fee(debt, f)  q == required_fee(x, f)
           r == required_fee(debt - x, f)
<1>1. debt - x \in Nat /\ x + (debt - x) = debt
  OBVIOUS
<1>2. q \in Nat /\ r \in Nat /\ p \in Nat /\ p <= q + r
  BY <1>1, FeeOnParts, Zenon
<1> HIDE DEF p, q, r
<1> QED
  BY <1>2 DEF p, q, r

(* A deal still there after its automatic repayment: either the repayment  *)
(* failed, and the whole cannot be paid either, or it was partial, and     *)
(* paying the rest would cost at least what the whole did.                 *)
LEMMA StillThere ==
    ASSUME TypeInv, NEW d \in DOMAIN deals, auto_repay(d), OnlyCredit, d \in DOMAIN deals'
    PROVE  /\ deals'[d].latest_repay_time <= now'
           /\ deals'[d].auto_repay # "none" =>
                 ~CanRepay(d, deals[d].debt_amount,
                           required_fee(deals[d].debt_amount, deals[d].fee_rate))'
<1> DEFINE deal  == deals[d]
           debt  == deal.debt_amount
           f     == deal.fee_rate
           have  == balance[deal.borrower][deal.debt_asset]
           total == debt + required_fee(debt, f)
           r     == AutoRepayment(deal)
           x     == r.amount
           fee   == r.fee
<1>1. deal \in Deal /\ balance \in [Account -> [Asset -> Nat]]
  BY Zenon DEF TypeInv, DealsOK, AccountsOK
<1>2. debt \in Nat \ {0} /\ f \in Nat /\ have \in Nat /\ required_fee(debt, f) \in Nat
  <2>1. debt \in Nat \ {0} /\ f \in Nat /\ have \in Nat
    BY <1>1, Zenon DEF Deal
  <2> QED
    BY <2>1, FeeOnParts, Zenon
<1>3. /\ x \in Nat /\ fee \in Nat
      /\ deal.auto_repay = "only_full" \/ have >= total
         => x = debt /\ fee = required_fee(debt, f)
      /\ deal.auto_repay # "only_full" /\ have < total
         => x < debt /\ fee = required_fee(x, f)
  BY AutoRepaymentFact, Zenon
<1>4. deal.latest_repay_time <= now /\ UNCHANGED <<now, barred, phase, offer_count>>
  BY Zenon DEF auto_repay, Due
<1>5. \/ deal.auto_repay # "none" /\ CanRepay(d, x, fee) /\ Repay(d, x, fee)
      \/ /\ ~(deal.auto_repay # "none" /\ CanRepay(d, x, fee))
         /\ UNCHANGED <<balance, deals>>
  BY Zenon DEF auto_repay
<1> HIDE DEF r
<1>6. CASE deal.auto_repay # "none" /\ CanRepay(d, x, fee) /\ Repay(d, x, fee)
  <2>1. x # debt
    <3> SUFFICES ASSUME x = debt PROVE FALSE
      OBVIOUS
    <3>1. DOMAIN deals' = DOMAIN deals \ {d}
      BY <1>3, <1>4, <1>6, RepayTypes, Zenon
    <3> QED
      BY <3>1, Zenon
  <2>2. ~(deal.auto_repay = "only_full" \/ have >= total)
    BY <2>1, <1>3, Zenon
  <2>3. have < total
    <3> DEFINE p == required_fee(debt, f)
    <3>1. ~(have >= debt + p) /\ have \in Nat /\ debt \in Nat /\ p \in Nat
      BY <2>2, <1>2, Zenon
    <3> HIDE DEF debt, have, p
    <3>2. have < debt + p
      BY <3>1
    <3> QED
      BY <3>2, Zenon DEF p
  <2>4. x < debt /\ fee = required_fee(x, f)
    BY <2>2, <2>3, <1>3, Zenon
  <2>5. /\ deals'[d].debt_amount = debt - x
        /\ deals'[d].borrower = deal.borrower
        /\ deals'[d].debt_asset = deal.debt_asset
        /\ deals'[d].fee_rate = f
        /\ deals'[d].latest_repay_time = deal.latest_repay_time
        /\ balance'[deal.borrower][deal.debt_asset] = have - (x + fee)
    BY <2>1, <1>3, <1>4, <1>6, RepayTypes, Zenon
  <2>6. ~(have - (x + fee) >= (debt - x) + required_fee(debt - x, f))
    <3> HIDE DEF debt, f, have, x, fee
    <3> QED
      BY <2>3, <2>4, <1>2, <1>3, StillShort, Zenon
  <2>7. required_fee(debt, f)' = required_fee(debt - x, f)
    BY <2>5, Zenon DEF required_fee
  <2>8. ~CanRepay(d, debt, required_fee(debt, f))'
    BY <2>5, <2>6, <2>7, Zenon DEF CanRepay, Covers
  <2> QED
    BY <2>8, <2>5, <1>4, Zenon
<1>7. CASE /\ ~(deal.auto_repay # "none" /\ CanRepay(d, x, fee))
           /\ UNCHANGED <<balance, deals>>
  <2>1. deal.auto_repay # "none" => ~CanRepay(d, debt, required_fee(debt, f))
    <3>1. CASE deal.auto_repay = "only_full" \/ have >= total
      <4>1. x = debt /\ fee = required_fee(debt, f)
        BY <3>1, <1>3, Zenon
      <4> HIDE DEF deal, debt, f, x, fee
      <4> QED
        BY <4>1, <1>7, Zenon
    <3>2. CASE ~(deal.auto_repay = "only_full" \/ have >= total)
      <4>1. CanRepay(d, debt, required_fee(debt, f)) => have >= total
        BY Zenon DEF CanRepay, Covers
      <4> QED
        BY <4>1, <3>2, Zenon
    <3> QED
      BY <3>1, <3>2, Zenon
  <2> QED
    BY <2>1, <1>4, <1>7, Zenon DEF CanRepay, Covers, is_authorized_asset
<1> QED
  BY <1>5, <1>6, <1>7, Zenon

(* Only deals that exist are noted as past due, and only while they are    *)
(* processed.                                                              *)
LEMMA PastDueStep == TypeInv /\ PastDueOK /\ [Next]_vars => PastDueOK'
<1> SUFFICES ASSUME TypeInv, PastDueOK, [Next]_vars PROVE PastDueOK'
  OBVIOUS
<1>1. CASE past_due' = {}
  BY <1>1, Zenon DEF PastDueOK, SolventBorrowersKeepCollateral
<1>2. CASE phase # "deals" /\ past_due' = past_due
  BY <1>1, <1>2, Zenon DEF PastDueOK
<1>3. ASSUME NEW d \in DOMAIN deals, auto_repay(d), OnlyCredit
      PROVE  PastDueOK'
  <2>1. past_due' = {d} \cap DOMAIN deals' /\ phase' = "deals"
    BY <1>3, Zenon DEF auto_repay
  <2>2. d \in DOMAIN deals' =>
           /\ deals'[d].latest_repay_time <= now'
           /\ deals'[d].auto_repay # "none" =>
                 ~CanRepay(d, deals[d].debt_amount,
                           required_fee(deals[d].debt_amount, deals[d].fee_rate))'
    BY <1>3, StillThere, Zenon
  <2> QED
    BY <2>1, <2>2, Zenon DEF PastDueOK, SolventBorrowersKeepCollateral
<1>4. ASSUME NEW d \in DOMAIN deals, credit_deal_expired(d)
      PROVE  PastDueOK'
  BY <1>1, <1>4, Zenon DEF credit_deal_expired
<1>5. CASE update_credit_offers
  BY <1>2, <1>5, Zenon DEF update_credit_offers
<1>6. CASE finish_block
  BY <1>1, <1>6, Zenon DEF finish_block, credit_vars
<1>7. CASE UNCHANGED vars
  BY <1>7, Zenon DEF PastDueOK, SolventBorrowersKeepCollateral, CanRepay, Covers,
              is_authorized_asset, vars, account_vars, credit_vars
<1> QED
  BY <1>2, <1>3, <1>4, <1>5, <1>6, <1>7, Phases, Zenon

(* Every step keeps the invariant.                                         *)
LEMMA InvStep == ContractInv /\ [Next]_vars => ContractInv'
BY TypeStep, ClearedStep, PastDueStep, IdsStep, Zenon DEF ContractInv

(* The invariant holds in every state the contracts reach.                 *)
THEOREM Invariance == Spec => []ContractInv
BY InitInv, InvStep, PTL DEF Spec

(* Whatever the amounts, rates and balances, the automatic repayment of a  *)
(* deal that allows partial ones (update_credit_offers_and_deals) works    *)
(* out an amount and a fee that the borrower has.                          *)
THEOREM AutoRepaymentIsCoveredAlways == Spec => []AutoRepaymentIsCovered
<1>1. ContractInv => AutoRepaymentIsCovered
  <2> SUFFICES ASSUME ContractInv, NEW d \in DOMAIN deals,
                      deals[d].auto_repay = "allow_partial"
               PROVE  LET deal == deals[d]
                          r    == AutoRepayment(deal)
                      IN  /\ r.amount + r.fee <= balance[deal.borrower][deal.debt_asset]
                          /\ r.amount <= deal.debt_amount
                          /\ r.amount > 0 => amount_to_release(deal, r.amount - 1)
                                                < amount_to_release(deal, r.amount)
    BY Zenon DEF AutoRepaymentIsCovered
  <2> DEFINE deal == deals[d]
             debt == deal.debt_amount
             coll == deal.collateral_amount
             f    == deal.fee_rate
             have == balance[deal.borrower][deal.debt_asset]
             r    == AutoRepayment(deal)
  <2>1. deal \in Deal /\ balance \in [Account -> [Asset -> Nat]] /\ TypeInv
    BY Zenon DEF ContractInv, TypeInv, DealsOK, AccountsOK
  <2>2. debt \in Nat \ {0} /\ coll \in Nat \ {0} /\ f \in Nat /\ have \in Nat
    BY <2>1, Zenon DEF Deal
  <2>3. required_fee(debt, f) \in Nat
    BY <2>2, FeeOnParts, Zenon
  <2>4. CASE have >= debt + required_fee(debt, f)
    <3>1. r.amount = debt /\ r.fee = required_fee(debt, f)
      BY <2>1, <2>4, AutoRepaymentFact, Zenon
    <3>2. ((debt - 1) * coll) \div debt < coll
      <4>1. debt - 1 \in Nat /\ debt - 1 < debt
        BY <2>2
      <4> HIDE DEF debt, coll
      <4> QED
        BY <4>1, <2>2, ReleaseBounds, Zenon
    <3>3. coll <= (debt * coll) \div debt
      <4>1. debt * coll \in Nat /\ coll * debt <= debt * coll
        BY <2>2
      <4> HIDE DEF debt, coll
      <4> QED
        BY <4>1, <2>2, DivBound, Zenon
    <3>4. ((debt - 1) * coll) \div debt \in Nat /\ (debt * coll) \div debt \in Nat
      <4>1. (debt - 1) * coll \in Nat /\ debt * coll \in Nat
        BY <2>2
      <4> HIDE DEF debt, coll
      <4> QED
        BY <4>1, <2>2, DivFact, Zenon
    <3>5. amount_to_release(deal, debt - 1) < amount_to_release(deal, debt)
      BY <3>2, <3>3, <3>4, <2>2 DEF amount_to_release
    <3>6. /\ debt + required_fee(debt, f) <= have /\ debt <= debt
          /\ debt > 0 => amount_to_release(deal, debt - 1) < amount_to_release(deal, debt)
      <4> DEFINE p == required_fee(debt, f)  m == amount_to_release(deal, debt - 1)
                 n == amount_to_release(deal, debt)
      <4>1. m < n /\ have >= debt + p /\ debt \in Nat /\ p \in Nat /\ have \in Nat
        BY <3>5, <2>2, <2>3, <2>4, Zenon
      <4> HIDE DEF debt, have, p, m, n
      <4>2. debt + p <= have /\ debt <= debt /\ (debt > 0 => m < n)
        BY <4>1
      <4> QED
        BY <4>2, Zenon DEF p, m, n
    <3>7. /\ r.amount + r.fee <= have /\ r.amount <= debt
          /\ r.amount > 0 => amount_to_release(deal, r.amount - 1)
                                < amount_to_release(deal, r.amount)
      <4> HIDE DEF r
      <4> QED
        BY <3>1, <3>6, Zenon
    <3> QED
      BY <3>7, Zenon
  <2>5. CASE have < debt + required_fee(debt, f)
    <3>1. /\ r.amount \in Nat /\ r.amount < debt /\ r.amount + r.fee <= have
          /\ r.amount > 0 => amount_to_release(deal, r.amount - 1)
                                < amount_to_release(deal, r.amount)
      BY <2>1, <2>5, AutoRepaymentFact, Zenon
    <3>2. r.amount <= debt
      <4> DEFINE x == r.amount
      <4>1. x \in Nat /\ x < debt /\ debt \in Nat
        BY <3>1, <2>2, Zenon
      <4> HIDE DEF x, debt
      <4>2. x <= debt
        BY <4>1
      <4> QED
        BY <4>2, Zenon DEF x
    <3> QED
      BY <3>1, <3>2, Zenon
  <2>6. have >= debt + required_fee(debt, f) \/ have < debt + required_fee(debt, f)
    <3> DEFINE p == required_fee(debt, f)
    <3>1. p \in Nat
      BY <2>3, Zenon
    <3> HIDE DEF debt, have, p
    <3>2. have >= debt + p \/ have < debt + p
      BY <3>1, <2>2
    <3> QED
      BY <3>2, Zenon DEF p
  <2> QED
    BY <2>4, <2>5, <2>6, Zenon
<1> QED
  BY <1>1, Invariance, PTL

(* Collateral goes to a lender only from borrowers who could not repay     *)
(* when their time was up, or did not ask for automatic repayment.         *)
THEOREM SolventBorrowersKeepCollateralAlways == Spec => []SolventBorrowersKeepCollateral
<1>1. ContractInv => SolventBorrowersKeepCollateral
  BY Zenon DEF ContractInv, PastDueOK
<1> QED
  BY <1>1, Invariance, PTL

(* _apply_block leaves no expired contract, overdue deal or offer enabled  *)
(* beyond its time.                                                        *)
THEOREM NothingOverdueAlways == Spec => NothingOverdue
<1> DEFINE A == phase # "open" /\ phase' = "open" =>
          /\ \A h \in DOMAIN htlcs' : htlcs'[h].expiration > now'
          /\ \A d \in DOMAIN deals' : deals'[d].latest_repay_time > now'
          /\ \A o \in DOMAIN offers' :
                offers'[o].terms.enabled => offers'[o].terms.auto_disable_time > now'
<1>1. ContractInv /\ [Next]_vars => [A]_vars
  <2> SUFFICES ASSUME ContractInv, [Next]_vars, phase # "open", phase' = "open"
               PROVE  A
    OBVIOUS
  <2>1. finish_block
    BY Phases, Zenon DEF update_credit_offers, auto_repay, credit_deal_expired, vars, account_vars
  <2>2. /\ \A h \in DOMAIN htlcs : ~HtlcExpired(h)
        /\ \A o \in DOMAIN offers :
              offers[o].terms.enabled => offers[o].terms.auto_disable_time > now
    BY <2>1, Zenon DEF ContractInv, Cleared, finish_block
  <2>3. \A h \in DOMAIN htlcs : htlcs[h].expiration > now
    BY <2>2 DEF HtlcExpired, ContractInv, TypeInv, AccountsOK, HtlcsOK, Htlc
  <2> QED
    BY <2>1, <2>2, <2>3, Zenon DEF finish_block, htlc_vars, credit_vars
<1>2. NothingOverdue <=> [][A]_vars
  BY Zenon DEF NothingOverdue
<1> HIDE DEF A
<1> QED
  BY <1>1, <1>2, Invariance, PTL DEF Spec

(* A deal that stays keeps its collateral per unit of debt.                *)
Secured(d) ==
    deals'[d].collateral_amount * deals[d].debt_amount
       >= deals[d].collateral_amount * deals'[d].debt_amount

(* What a repayment releases leaves the deal secured as it was, per unit   *)
(* of debt.                                                                *)
LEMMA RepaySecures ==
    ASSUME TypeInv, NEW d \in DOMAIN deals, NEW x \in Nat, NEW fee \in Nat,
           CanRepay(d, x, fee), Repay(d, x, fee),
           UNCHANGED <<now, barred, phase, offer_count>>, OnlyCredit
    PROVE  \A e \in DOMAIN deals' : e \in DOMAIN deals /\ Secured(e)
<1> DEFINE debt == deals[d].debt_amount
           coll == deals[d].collateral_amount
<1>1. \A e \in DOMAIN deals : deals[e].debt_amount \in Nat \ {0}
                              /\ deals[e].collateral_amount \in Nat \ {0}
  BY Zenon DEF TypeInv, DealsOK, Deal
<1>2. \A e \in DOMAIN deals : deals[e].collateral_amount * deals[e].debt_amount \in Int
  BY <1>1
<1>3. CASE x = debt
  <2>1. \A e \in DOMAIN deals' : e \in DOMAIN deals /\ deals'[e] = deals[e]
    BY <1>3, Zenon DEF Repay, Removed, Restrict
  <2> QED
    BY <2>1, <1>2 DEF Secured
<1>4. CASE x # debt
  <2>1. /\ DOMAIN deals' = DOMAIN deals
        /\ \A e \in DOMAIN deals : e # d => deals'[e] = deals[e]
        /\ deals'[d].debt_amount = debt - x
        /\ deals'[d].collateral_amount = coll - amount_to_release(deals[d], x)
        /\ x < debt
    BY <1>4, RepayTypes, Zenon
  <2>2. (coll - amount_to_release(deals[d], x)) * debt >= coll * (debt - x)
    BY <2>1, <1>1, ReleaseBounds, Zenon DEF amount_to_release
  <2>3. Secured(d)
    BY <2>1, <2>2, Zenon DEF Secured
  <2>4. \A e \in DOMAIN deals : e # d => Secured(e)
    BY <2>1, <1>2 DEF Secured
  <2> QED
    BY <2>1, <2>3, <2>4, Zenon
<1> QED
  BY <1>3, <1>4, Zenon

(* So does every step.                                                     *)
LEMMA StepSecures ==
    ASSUME TypeInv, IdsOK, [Next]_vars
    PROVE  \A d \in DOMAIN deals' : d \in DOMAIN deals => Secured(d)
<1>1. \A e \in DOMAIN deals :
         deals[e] \in Deal /\ deals[e].collateral_amount * deals[e].debt_amount \in Int
  <2>1. \A e \in DOMAIN deals : /\ deals[e] \in Deal
                                /\ deals[e].debt_amount \in Nat
                                /\ deals[e].collateral_amount \in Nat
    BY Zenon DEF TypeInv, DealsOK, Deal
  <2> QED
    BY <2>1
<1>2. ASSUME \A d \in DOMAIN deals' : d \in DOMAIN deals => deals'[d] = deals[d]
      PROVE  \A d \in DOMAIN deals' : d \in DOMAIN deals => Secured(d)
  BY <1>1, <1>2 DEF Secured
<1>3. ASSUME NEW o \in DOMAIN offers, NEW a \in Account, NEW s \in Asset,
             NEW x \in Amount, NEW c \in Amount, NEW auto \in auto_repay_type,
             credit_offer_accept(o, a, x, s, c, auto)
      PROVE  \A d \in DOMAIN deals' : d \in DOMAIN deals => Secured(d)
  <2>1. deal_count + 1 \notin DOMAIN deals
    BY DEF IdsOK
  <2>2. \A d \in DOMAIN deals' : d \in DOMAIN deals => deals'[d] = deals[d]
    BY <2>1, <1>3, Zenon DEF credit_offer_accept, Added
  <2> QED
    BY <2>2, <1>2, Zenon
<1>4. ASSUME NEW d \in DOMAIN deals, NEW x \in Amount, NEW fee \in Amount \cup {0},
             credit_deal_repay(d, x, fee), OnlyCredit
      PROVE  \A e \in DOMAIN deals' : e \in DOMAIN deals => Secured(e)
  <2>1. x \in Nat /\ fee \in Nat
    BY AccountAssumption
  <2> QED
    BY <2>1, <1>4, RepaySecures, Zenon DEF credit_deal_repay
<1>5. ASSUME NEW d \in DOMAIN deals, NEW auto \in auto_repay_type,
             credit_deal_update(d, auto)
      PROVE  \A e \in DOMAIN deals' : e \in DOMAIN deals => Secured(e)
  <2>1. \A e \in DOMAIN deals : /\ deals'[e].collateral_amount = deals[e].collateral_amount
                                /\ deals'[e].debt_amount = deals[e].debt_amount
    BY <1>1, <1>5, Zenon DEF credit_deal_update, Deal
  <2> QED
    BY <2>1, <1>1 DEF Secured
<1>6. ASSUME NEW d \in DOMAIN deals, auto_repay(d), OnlyCredit
      PROVE  \A e \in DOMAIN deals' : e \in DOMAIN deals => Secured(e)
  <2> DEFINE r == AutoRepayment(deals[d])
  <2>1. r.amount \in Nat /\ r.fee \in Nat
    BY AutoRepaymentFact, Zenon
  <2>2. CASE CanRepay(d, r.amount, r.fee) /\ Repay(d, r.amount, r.fee)
    <3>1. UNCHANGED <<now, barred, phase, offer_count>>
      BY <1>6, Zenon DEF auto_repay
    <3> HIDE DEF r
    <3> QED
      BY <2>1, <2>2, <3>1, <1>6, RepaySecures, Zenon
  <2>3. CASE UNCHANGED deals
    BY <2>3, <1>2, Zenon
  <2> QED
    BY <2>2, <2>3, <1>6, Zenon DEF auto_repay
<1>7. ASSUME NEW d \in DOMAIN deals, credit_deal_expired(d)
      PROVE  \A e \in DOMAIN deals' : e \in DOMAIN deals => Secured(e)
  BY <1>2, <1>7, Zenon DEF credit_deal_expired, Removed, Restrict
<1>8. CASE UNCHANGED deals
  BY <1>2, <1>8, Zenon
<1> QED
  BY <1>3, <1>4, <1>5, <1>6, <1>7, <1>8, DealSteps, Zenon

(* Repaying part of a deal, by an operation or automatically, never leaves *)
(* less collateral per unit of debt, and never a deal without either.      *)
THEOREM DealsStaySecuredAlways == Spec => DealsStaySecured
<1> DEFINE A == \A d \in DOMAIN deals' :
          /\ deals'[d].debt_amount > 0 /\ deals'[d].collateral_amount > 0
          /\ d \in DOMAIN deals =>
                deals'[d].collateral_amount * deals[d].debt_amount
                   >= deals[d].collateral_amount * deals'[d].debt_amount
<1>1. ContractInv /\ ContractInv' /\ [Next]_vars => [A]_vars
  <2> SUFFICES ASSUME ContractInv, ContractInv', [Next]_vars
               PROVE  A
    OBVIOUS
  <2>1. \A d \in DOMAIN deals' : deals'[d].debt_amount > 0 /\ deals'[d].collateral_amount > 0
    BY DEF ContractInv, TypeInv, DealsOK, Deal
  <2>2. \A d \in DOMAIN deals' : d \in DOMAIN deals => Secured(d)
    BY StepSecures, Zenon DEF ContractInv
  <2> QED
    BY <2>1, <2>2, Zenon DEF Secured
<1>2. DealsStaySecured <=> [][A]_vars
  BY Zenon DEF DealsStaySecured
<1> HIDE DEF A
<1> QED
  BY <1>1, <1>2, Invariance, PTL DEF Spec

-------------------------------------------------------------------------------
(* The tables of contracts, funds, offers and deals.                       *)

(* Ids are new, so that tables only grow by what is created and are        *)
(* finite.                                                                 *)
TablesOK ==
    /\ htlc_count \in Nat /\ DOMAIN htlcs \subseteq 1..htlc_count
    /\ fund_count \in Nat /\ DOMAIN funds \subseteq 1..fund_count
    /\ offer_count \in Nat /\ DOMAIN offers \subseteq 1..offer_count
    /\ deal_count \in Nat /\ DOMAIN deals \subseteq 1..deal_count

(* A table loses objects, or gets one with the next id.                    *)
TableStep(new, n, old, m) ==
    \/ DOMAIN new \subseteq DOMAIN old /\ n = m
    \/ DOMAIN new = DOMAIN old \cup {m + 1} /\ n = m + 1

(* What a step does to the four tables.                                    *)
TablesMove ==
    /\ TableStep(htlcs', htlc_count', htlcs, htlc_count)
    /\ TableStep(funds', fund_count', funds, fund_count)
    /\ TableStep(offers', offer_count', offers, offer_count)
    /\ TableStep(deals', deal_count', deals, deal_count)

(* No step gives an object an id that is not the next.                     *)
LEMMA NextMovesTables == [Next]_vars => TablesMove
<1> SUFFICES ASSUME [Next]_vars PROVE TablesMove
  OBVIOUS
<1>1. /\ UNCHANGED htlc_vars => TableStep(htlcs', htlc_count', htlcs, htlc_count)
      /\ UNCHANGED fund_vars => TableStep(funds', fund_count', funds, fund_count)
      /\ UNCHANGED <<offers, offer_count>> => TableStep(offers', offer_count', offers, offer_count)
      /\ UNCHANGED <<deals, deal_count>> => TableStep(deals', deal_count', deals, deal_count)
  BY Zenon DEF htlc_vars, fund_vars, TableStep
<1>2. UNCHANGED credit_vars => UNCHANGED <<offers, offer_count>> /\ UNCHANGED <<deals, deal_count>>
  BY Zenon DEF credit_vars
<1>3. ASSUME NEW from, NEW to, NEW s, NEW x, NEW t, htlc_create(from, to, s, x, t), OnlyHtlcs
      PROVE  TablesMove
  <2>1. TableStep(htlcs', htlc_count', htlcs, htlc_count)
    BY <1>3, Zenon DEF htlc_create, Added, TableStep
  <2> QED BY <1>1, <1>2, <1>3, <2>1, Zenon DEF OnlyHtlcs, TablesMove
<1>4. ASSUME NEW h, htlc_redeem(h) \/ clear_expired_htlcs(h), OnlyHtlcs
      PROVE  TablesMove
  <2>1. TableStep(htlcs', htlc_count', htlcs, htlc_count)
    BY <1>4, Zenon DEF htlc_redeem, clear_expired_htlcs, Removed, Restrict, TableStep
  <2> QED BY <1>1, <1>2, <1>4, <2>1, Zenon DEF OnlyHtlcs, TablesMove
<1>5. ASSUME NEW h, NEW t, htlc_extend(h, t), OnlyHtlcs
      PROVE  TablesMove
  <2>1. TableStep(htlcs', htlc_count', htlcs, htlc_count)
    BY <1>5, Zenon DEF htlc_extend, TableStep
  <2> QED BY <1>1, <1>2, <1>5, <2>1, Zenon DEF OnlyHtlcs, TablesMove
<1>6. ASSUME NEW a, NEW s, NEW x, NEW r, samet_fund_create(a, s, x, r), OnlyFunds
      PROVE  TablesMove
  <2>1. TableStep(funds', fund_count', funds, fund_count)
    BY <1>6, Zenon DEF samet_fund_create, Added, TableStep
  <2> QED BY <1>1, <1>2, <1>6, <2>1, Zenon DEF OnlyFunds, TablesMove
<1>7. ASSUME NEW f, OnlyFunds,
             \/ samet_fund_delete(f)
             \/ \E x, r : samet_fund_update(f, x, r)
             \/ \E a, x : samet_fund_borrow(f, a, x)
             \/ \E a, x, fee : samet_fund_repay(f, a, x, fee)
      PROVE  TablesMove
  <2>1. samet_fund_delete(f) => DOMAIN funds' \subseteq DOMAIN funds /\ fund_count' = fund_count
    BY Zenon DEF samet_fund_delete, Removed, Restrict
  <2>2. \A x, r : samet_fund_update(f, x, r) => DOMAIN funds' = DOMAIN funds /\ fund_count' = fund_count
    BY Zenon DEF samet_fund_update
  <2>3. \A a, x : samet_fund_borrow(f, a, x) => DOMAIN funds' = DOMAIN funds /\ fund_count' = fund_count
    BY Zenon DEF samet_fund_borrow
  <2>4. \A a, x, fee : samet_fund_repay(f, a, x, fee)
                          => DOMAIN funds' = DOMAIN funds /\ fund_count' = fund_count
    BY Zenon DEF samet_fund_repay
  <2>5. TableStep(funds', fund_count', funds, fund_count)
    BY <1>7, <2>1, <2>2, <2>3, <2>4, Zenon DEF TableStep
  <2> QED BY <1>1, <1>2, <1>7, <2>5, Zenon DEF OnlyFunds, TablesMove
<1>8. ASSUME NEW a, NEW s, NEW x, NEW t, credit_offer_create(a, s, x, t), OnlyCredit
      PROVE  TablesMove
  <2>1. /\ TableStep(offers', offer_count', offers, offer_count)
        /\ UNCHANGED <<deals, deal_count>>
    BY <1>8, Zenon DEF credit_offer_create, Added, TableStep
  <2> QED BY <1>1, <1>8, <2>1, Zenon DEF OnlyCredit, TablesMove
<1>9. ASSUME NEW o, OnlyCredit,
             credit_offer_delete(o) \/ \E x, t : credit_offer_update(o, x, t)
      PROVE  TablesMove
  <2>1. credit_offer_delete(o) => /\ DOMAIN offers' \subseteq DOMAIN offers
                                  /\ UNCHANGED <<offer_count, deals, deal_count>>
    BY Zenon DEF credit_offer_delete, Removed, Restrict
  <2>2. \A x, t : credit_offer_update(o, x, t) => /\ DOMAIN offers' = DOMAIN offers
                                                  /\ UNCHANGED <<offer_count, deals, deal_count>>
    BY Zenon DEF credit_offer_update
  <2>3. /\ TableStep(offers', offer_count', offers, offer_count)
        /\ UNCHANGED <<deals, deal_count>>
    BY <1>9, <2>1, <2>2, Zenon DEF TableStep
  <2> QED BY <1>1, <1>9, <2>3, Zenon DEF OnlyCredit, TablesMove
<1>10. ASSUME NEW o, NEW a, NEW x, NEW s, NEW c, NEW auto,
              credit_offer_accept(o, a, x, s, c, auto), OnlyCredit
       PROVE  TablesMove
  <2>1. TableStep(offers', offer_count', offers, offer_count)
    BY <1>10, Zenon DEF credit_offer_accept, TableStep
  <2>2. TableStep(deals', deal_count', deals, deal_count)
    BY <1>10, Zenon DEF credit_offer_accept, Added, TableStep
  <2> QED BY <1>1, <1>10, <2>1, <2>2, Zenon DEF OnlyCredit, TablesMove
<1>11. ASSUME NEW d, NEW x, NEW fee, Repay(d, x, fee), UNCHANGED <<offer_count, deal_count>>
       PROVE  /\ TableStep(offers', offer_count', offers, offer_count)
              /\ TableStep(deals', deal_count', deals, deal_count)
  <2>1. DOMAIN offers' = DOMAIN offers
    BY <1>11, Zenon DEF Repay
  <2>2. DOMAIN deals' \subseteq DOMAIN deals
    BY <1>11, Zenon DEF Repay, Removed, Restrict
  <2> QED BY <1>11, <2>1, <2>2, Zenon DEF TableStep
<1>12. ASSUME NEW d, NEW x, NEW fee, credit_deal_repay(d, x, fee), OnlyCredit
       PROVE  TablesMove
  BY <1>1, <1>11, <1>12, Zenon DEF credit_deal_repay, OnlyCredit, TablesMove
<1>13. ASSUME NEW d, NEW auto, credit_deal_update(d, auto), OnlyCredit
       PROVE  TablesMove
  <2>1. TableStep(deals', deal_count', deals, deal_count) /\ UNCHANGED <<offers, offer_count>>
    BY <1>13, Zenon DEF credit_deal_update, TableStep
  <2> QED BY <1>1, <1>13, <2>1, Zenon DEF OnlyCredit, TablesMove
<1>14. ASSUME NEW d, auto_repay(d), OnlyCredit
       PROVE  TablesMove
  <2>1. /\ UNCHANGED <<offer_count, deal_count>>
        /\ \/ \E x, fee : Repay(d, x, fee)
           \/ UNCHANGED <<offers, deals>>
    BY <1>14, Zenon DEF auto_repay
  <2> QED BY <1>1, <1>11, <1>14, <2>1, Zenon DEF OnlyCredit, TablesMove
<1>15. ASSUME NEW d, credit_deal_expired(d), OnlyCredit
       PROVE  TablesMove
  <2>1. TableStep(offers', offer_count', offers, offer_count)
    BY <1>15, Zenon DEF credit_deal_expired, TableStep
  <2>2. TableStep(deals', deal_count', deals, deal_count)
    BY <1>15, Zenon DEF credit_deal_expired, Removed, Restrict, TableStep
  <2> QED BY <1>1, <1>15, <2>1, <2>2, Zenon DEF OnlyCredit, TablesMove
<1>16. CASE update_credit_offers
  <2>1. /\ TableStep(offers', offer_count', offers, offer_count)
        /\ UNCHANGED <<deals, deal_count>>
    BY <1>16, Zenon DEF update_credit_offers, AutoDisabled, TableStep
  <2> QED BY <1>1, <1>16, <2>1, Zenon DEF update_credit_offers, TablesMove
<1>17. CASE UNCHANGED <<htlc_vars, fund_vars, credit_vars>>
  BY <1>1, <1>2, <1>17, Zenon DEF TablesMove
<1>18. end_transactions \/ finish_block \/ UNCHANGED vars
          => UNCHANGED <<htlc_vars, fund_vars, credit_vars>>
  BY Zenon DEF end_transactions, finish_block, vars
<1> QED
  BY <1>3, <1>4, <1>5, <1>6, <1>7, <1>8, <1>9, <1>10, <1>12, <1>13, <1>14, <1>15, <1>16,
     <1>17, <1>18, Zenon DEF Next, Housekeeping

(* So ids stay below the counters.                                         *)
LEMMA TablesStep == TablesOK /\ [Next]_vars => TablesOK'
<1> SUFFICES ASSUME TablesOK, TablesMove PROVE TablesOK'
  BY NextMovesTables, Zenon
<1>1. ASSUME NEW new, NEW n, NEW old, NEW m \in Nat, DOMAIN old \subseteq 1..m,
             TableStep(new, n, old, m)
      PROVE  n \in Nat /\ DOMAIN new \subseteq 1..n
  BY <1>1 DEF TableStep
<1> QED BY <1>1, Zenon DEF TablesOK, TablesMove

-------------------------------------------------------------------------------
(* What hash time locks and funds do to the sums of tokens.                *)

(* A table of objects with ids up to n is finite.                          *)
LEMMA FiniteTable ==
    ASSUME NEW n \in Nat, NEW D, D \subseteq 1..n
    PROVE  IsFiniteSet(D)
<1>1. IsFiniteSet(1..n)
  BY FiniteSetFacts, Zenon
<1> QED BY <1>1, FiniteSetFacts, Zenon

(* The functions that are summed have finite domains and integer values.   *)
LEMMA Weights ==
    ASSUME TypeInv, TablesOK
    PROVE  /\ \A s \in Asset : /\ IsWeight(Owned(s)) /\ IsWeight(Locked(s))
                               /\ IsWeight(Unborrowed(s)) /\ IsWeight(NotLent(s))
                               /\ IsWeight(Pledged(s))
           /\ \A o : IsWeight(DebtOn(o))
           /\ \A o, a : IsWeight(DebtOf(o, a))
<1>1. /\ IsFiniteSet(Account) /\ IsFiniteSet(DOMAIN htlcs) /\ IsFiniteSet(DOMAIN funds)
      /\ IsFiniteSet(DOMAIN offers) /\ IsFiniteSet(DOMAIN deals)
  BY AccountAssumption, FiniteTable, Zenon DEF TablesOK
<1>2. ASSUME NEW s \in Asset PROVE IsWeight(Owned(s)) /\ IsWeight(Locked(s))
  <2>1. \A a \in Account : balance[a][s] \in Int
    BY DEF TypeInv, AccountsOK
  <2>2. \A h \in DOMAIN htlcs : (IF htlcs[h].asset_id = s THEN htlcs[h].amount ELSE 0) \in Int
    BY DEF TypeInv, HtlcsOK, Htlc
  <2> QED BY <1>1, <2>1, <2>2, Zenon DEF IsWeight, Owned, Locked
<1>3. ASSUME NEW s \in Asset PROVE IsWeight(Unborrowed(s)) /\ IsWeight(NotLent(s))
  <2>1. \A f \in DOMAIN funds : (IF funds[f].asset_type = s
                   THEN funds[f].balance - funds[f].unpaid_amount ELSE 0) \in Int
    BY DEF TypeInv, FundsOK, Fund
  <2>2. \A o \in DOMAIN offers :
           (IF offers[o].asset_type = s THEN offers[o].current_balance ELSE 0) \in Int
    BY DEF TypeInv, OffersOK, Offer
  <2> QED BY <1>1, <2>1, <2>2, Zenon DEF IsWeight, Unborrowed, NotLent
<1>4. ASSUME NEW s \in Asset PROVE IsWeight(Pledged(s))
  <2>1. \A d \in DOMAIN deals : (IF deals[d].collateral_asset = s
                   THEN deals[d].collateral_amount ELSE 0) \in Int
    BY DEF TypeInv, DealsOK, Deal
  <2> QED BY <1>1, <2>1, Zenon DEF IsWeight, Pledged
<1>5. \A d \in DOMAIN deals : deals[d].debt_amount \in Int
  BY DEF TypeInv, DealsOK, Deal
<1>6. \A o : IsWeight(DebtOn(o))
  <2>1. \A o : \A d \in DOMAIN deals :
           (IF deals[d].offer_id = o THEN deals[d].debt_amount ELSE 0) \in Int
    BY <1>5
  <2> QED BY <1>1, <2>1, Zenon DEF IsWeight, DebtOn
<1>7. \A o, a : IsWeight(DebtOf(o, a))
  <2>1. \A o, a : \A d \in DOMAIN deals :
           (IF deals[d].offer_id = o /\ deals[d].borrower = a
            THEN deals[d].debt_amount ELSE 0) \in Int
    BY <1>5
  <2> QED BY <1>1, <2>1, Zenon DEF IsWeight, DebtOf
<1> QED BY <1>2, <1>3, <1>4, <1>6, <1>7, Zenon

(* One balance is adjusted.                                                *)
OwnedIn(b, s) == [c \in Account |-> b[c][s]]

(* adjust_balance moves the sum of the balances of its asset.              *)
LEMMA OwnedAdjusted ==
    ASSUME NEW b \in [Account -> [Asset -> Int]], NEW a \in Account, NEW t \in Asset,
           NEW x \in Int, NEW s \in Asset
    PROVE  /\ adjust_balance(b, a, t, x) \in [Account -> [Asset -> Int]]
           /\ SumFunction(OwnedIn(adjust_balance(b, a, t, x), s))
                 = SumFunction(OwnedIn(b, s)) + (IF t = s THEN x ELSE 0)
<1> DEFINE f == OwnedIn(b, s)
           g == OwnedIn(adjust_balance(b, a, t, x), s)
           e == IF t = s THEN x ELSE 0
<1>1. adjust_balance(b, a, t, x) \in [Account -> [Asset -> Int]]
  BY DEF adjust_balance
<1>2. DOMAIN f = Account /\ DOMAIN g = Account /\ \A c \in Account : f[c] \in Int
  BY Zenon DEF OwnedIn
<1>3. IsWeight(f)
  BY <1>2, AccountAssumption, Zenon DEF IsWeight
<1>4. g[a] = f[a] + e /\ e \in Int
  BY DEF adjust_balance, OwnedIn
<1>5. \A c \in Account : c # a => g[c] = f[c]
  BY Zenon DEF adjust_balance, OwnedIn
<1> HIDE DEF f, g, e
<1>6. SumFunction(g) = SumFunction(f) + e
  BY <1>2, <1>3, <1>4, <1>5, TotalChanged
<1> QED BY <1>1, <1>6, Zenon DEF f, g, e

(* The sums are integers.                                                  *)
LEMMA TotalsAreIntegers ==
    ASSUME TypeInv, TablesOK
    PROVE  \A s \in Asset : /\ SumFunction(Owned(s)) \in Int
                            /\ SumFunction(Locked(s)) \in Int
                            /\ SumFunction(Unborrowed(s)) \in Int
                            /\ SumFunction(NotLent(s)) \in Int
                            /\ SumFunction(Pledged(s)) \in Int
BY Weights, TotalType, Zenon

(* One balance is adjusted.                                                *)
LEMMA OwnedMoves ==
    ASSUME TypeInv, NEW a \in Account, NEW t \in Asset, NEW x \in Int,
           balance' = adjust_balance(balance, a, t, x)
    PROVE  \A s \in Asset :
              SumFunction(Owned(s)') = SumFunction(Owned(s)) + (IF t = s THEN x ELSE 0)
<1>1. balance \in [Account -> [Asset -> Int]]
  BY DEF TypeInv, AccountsOK
<1>2. \A s \in Asset : SumFunction(OwnedIn(balance', s))
                 = SumFunction(OwnedIn(balance, s)) + (IF t = s THEN x ELSE 0)
  BY <1>1, OwnedAdjusted
<1> QED BY <1>2, Zenon DEF Owned, OwnedIn

(* Creating, redeeming, extending and expiring a contract only moves       *)
(* tokens between balances and contracts.                                  *)
LEMMA HtlcsKeepTokens ==
    ASSUME TypeInv, TablesOK, OnlyHtlcs
    PROVE  /\ \A from, to \in Account, t \in Asset, x \in Amount, p \in ClaimPeriod :
                 htlc_create(from, to, t, x, p) => \A s \in Asset : Held(s)' = Held(s)
           /\ \A h \in DOMAIN htlcs :
                 htlc_redeem(h) \/ clear_expired_htlcs(h) => \A s \in Asset : Held(s)' = Held(s)
           /\ \A h \in DOMAIN htlcs, p \in ClaimPeriod :
                 htlc_extend(h, p) => \A s \in Asset : Held(s)' = Held(s)
<1>1. \A s : Unborrowed(s)' = Unborrowed(s) /\ NotLent(s)' = NotLent(s) /\ Pledged(s)' = Pledged(s)
  BY Zenon DEF OnlyHtlcs, fund_vars, credit_vars, Unborrowed, NotLent, Pledged
<1>2. ASSUME NEW s \in Asset, NEW e \in Int,
             SumFunction(Owned(s)') = SumFunction(Owned(s)) + e,
             SumFunction(Locked(s)') = SumFunction(Locked(s)) + (-e)
      PROVE  Held(s)' = Held(s)
  <2>1. Held(s)' = SumFunction(Owned(s)') + SumFunction(Locked(s)') + SumFunction(Unborrowed(s))
              + SumFunction(NotLent(s)) + SumFunction(Pledged(s))
    BY <1>1, Zenon DEF Held
  <2> QED BY <1>2, <2>1, TotalsAreIntegers DEF Held
<1>3. ASSUME NEW from \in Account, NEW to \in Account, NEW t \in Asset,
             NEW x \in Amount, NEW p \in ClaimPeriod, htlc_create(from, to, t, x, p),
             NEW s \in Asset
      PROVE  Held(s)' = Held(s)
  <2> DEFINE n == htlc_count + 1
             new == [from |-> from, to |-> to, asset_id |-> t, amount |-> x,
                     expiration |-> now + p]
             e == IF t = s THEN -x ELSE 0
  <2>1. /\ balance' = adjust_balance(balance, from, t, -x)
        /\ htlcs' = Added(htlcs, n, new)
    BY <1>3, Zenon DEF htlc_create
  <2>2. x \in Nat /\ -x \in Int /\ e \in Int /\ n \notin DOMAIN htlcs
    BY AccountAssumption DEF TablesOK
  <2>3. SumFunction(Owned(s)') = SumFunction(Owned(s)) + e
    BY <2>1, <2>2, OwnedMoves, Zenon
  <2>4. /\ DOMAIN Locked(s)' = DOMAIN Locked(s) \cup {n}
        /\ \A h \in DOMAIN Locked(s) : Locked(s)'[h] = Locked(s)[h]
        /\ Locked(s)'[n] = -e
    BY <2>1, <2>2 DEF Locked, Added
  <2>5. n \notin DOMAIN Locked(s) /\ -e \in Int
    BY <2>2 DEF Locked
  <2>6. IsWeight(Locked(s))
    BY Weights, Zenon
  <2> HIDE DEF n, e
  <2>7. SumFunction(Locked(s)') = SumFunction(Locked(s)) + (-e)
    BY <2>4, <2>5, <2>6, TotalAdded
  <2> QED BY <1>2, <2>2, <2>3, <2>7, Zenon
<1>4. ASSUME NEW h \in DOMAIN htlcs, htlc_redeem(h) \/ clear_expired_htlcs(h),
             NEW s \in Asset
      PROVE  Held(s)' = Held(s)
  <2> DEFINE t == htlcs[h].asset_id  x == htlcs[h].amount  e == IF t = s THEN x ELSE 0
  <2>1. PICK a \in Account : balance' = adjust_balance(balance, a, t, x)
    BY <1>4, Zenon DEF htlc_redeem, clear_expired_htlcs, TypeInv, HtlcsOK, Htlc
  <2>2. t \in Asset /\ x \in Int /\ e \in Int
    BY DEF TypeInv, HtlcsOK, Htlc
  <2>3. htlcs' = Removed(htlcs, h)
    BY <1>4, Zenon DEF htlc_redeem, clear_expired_htlcs
  <2>4. SumFunction(Owned(s)') = SumFunction(Owned(s)) + e
    <3> HIDE DEF t, x
    <3> QED BY <2>1, <2>2, OwnedMoves, Zenon
  <2>5. /\ DOMAIN Locked(s)' = DOMAIN Locked(s) \ {h}
        /\ \A g \in DOMAIN Locked(s)' : Locked(s)'[g] = Locked(s)[g]
        /\ Locked(s)[h] = -(-e) /\ h \in DOMAIN Locked(s) /\ -e \in Int
    BY <2>2, <2>3 DEF Locked, Removed, Restrict
  <2>6. IsWeight(Locked(s))
    BY Weights, Zenon
  <2> HIDE DEF e
  <2>7. SumFunction(Locked(s)') = SumFunction(Locked(s)) + (-e)
    BY <2>5, <2>6, TotalRemoved, Zenon
  <2> QED BY <1>2, <2>2, <2>4, <2>7, Zenon
<1>5. ASSUME NEW h \in DOMAIN htlcs, NEW p \in ClaimPeriod, htlc_extend(h, p),
             NEW s \in Asset
      PROVE  Held(s)' = Held(s)
  <2>1. Owned(s)' = Owned(s)
    BY <1>5, Zenon DEF htlc_extend, account_vars, Owned
  <2>2. \A i \in DOMAIN htlcs : htlcs[i] \in Htlc
    BY Zenon DEF TypeInv, HtlcsOK
  <2>3. DOMAIN htlcs' = DOMAIN htlcs
        /\ \A i \in DOMAIN htlcs : /\ htlcs'[i].asset_id = htlcs[i].asset_id
                                   /\ htlcs'[i].amount = htlcs[i].amount
    BY <1>5, <2>2, Zenon DEF htlc_extend, Htlc
  <2>4. Locked(s)' = Locked(s)
    BY <2>3, Zenon DEF Locked
  <2> QED BY <1>1, <2>1, <2>4, Zenon DEF Held
<1> QED BY <1>3, <1>4, <1>5, Zenon

(* Creating, deleting, updating, borrowing from and repaying a fund only   *)
(* moves tokens between balances and funds.                                *)
LEMMA FundsKeepTokens ==
    ASSUME TypeInv, TablesOK, OnlyFunds
    PROVE  /\ \A a \in Account, t \in Asset, x \in Amount, r \in FundRate :
                 samet_fund_create(a, t, x, r) => \A s \in Asset : Held(s)' = Held(s)
           /\ \A f \in DOMAIN funds :
                 samet_fund_delete(f) => \A s \in Asset : Held(s)' = Held(s)
           /\ \A f \in DOMAIN funds, x \in Delta, r \in FundRate :
                 samet_fund_update(f, x, r) => \A s \in Asset : Held(s)' = Held(s)
           /\ \A f \in DOMAIN funds, a \in Account, x \in Amount :
                 samet_fund_borrow(f, a, x) => \A s \in Asset : Held(s)' = Held(s)
           /\ \A f \in DOMAIN funds, a \in Account, x \in Amount, fee \in Amount \cup {0} :
                 samet_fund_repay(f, a, x, fee) => \A s \in Asset : Held(s)' = Held(s)
<1>1. \A s : Locked(s)' = Locked(s) /\ NotLent(s)' = NotLent(s) /\ Pledged(s)' = Pledged(s)
  BY Zenon DEF OnlyFunds, htlc_vars, credit_vars, Locked, NotLent, Pledged
<1>2. ASSUME NEW s \in Asset, NEW e \in Int,
             SumFunction(Owned(s)') = SumFunction(Owned(s)) + e,
             SumFunction(Unborrowed(s)') = SumFunction(Unborrowed(s)) + (-e)
      PROVE  Held(s)' = Held(s)
  <2>1. Held(s)' = SumFunction(Owned(s)') + SumFunction(Locked(s)) + SumFunction(Unborrowed(s)')
              + SumFunction(NotLent(s)) + SumFunction(Pledged(s))
    BY <1>1, Zenon DEF Held
  <2> QED BY <1>2, <2>1, TotalsAreIntegers DEF Held
<1>3. ASSUME NEW a \in Account, NEW t \in Asset, NEW x \in Amount, NEW r \in FundRate,
             samet_fund_create(a, t, x, r), NEW s \in Asset
      PROVE  Held(s)' = Held(s)
  <2> DEFINE n == fund_count + 1
             new == [owner_account |-> a, asset_type |-> t, balance |-> x,
                     fee_rate |-> r, unpaid_amount |-> 0]
             e == IF t = s THEN -x ELSE 0
  <2>1. balance' = adjust_balance(balance, a, t, -x) /\ funds' = Added(funds, n, new)
    BY <1>3, Zenon DEF samet_fund_create
  <2>2. x \in Nat /\ -x \in Int /\ e \in Int /\ n \notin DOMAIN funds
    BY AccountAssumption DEF TablesOK
  <2>3. SumFunction(Owned(s)') = SumFunction(Owned(s)) + e
    BY <2>1, <2>2, OwnedMoves, Zenon
  <2>4. /\ DOMAIN Unborrowed(s)' = DOMAIN Unborrowed(s) \cup {n}
        /\ \A f \in DOMAIN Unborrowed(s) : Unborrowed(s)'[f] = Unborrowed(s)[f]
        /\ Unborrowed(s)'[n] = -e
    BY <2>1, <2>2 DEF Unborrowed, Added
  <2>5. n \notin DOMAIN Unborrowed(s) /\ -e \in Int
    BY <2>2 DEF Unborrowed
  <2>6. IsWeight(Unborrowed(s))
    BY Weights, Zenon
  <2> HIDE DEF n, e
  <2>7. SumFunction(Unborrowed(s)') = SumFunction(Unborrowed(s)) + (-e)
    BY <2>4, <2>5, <2>6, TotalAdded
  <2> QED BY <1>2, <2>2, <2>3, <2>7, Zenon
<1>4. ASSUME NEW f \in DOMAIN funds, samet_fund_delete(f), NEW s \in Asset
      PROVE  Held(s)' = Held(s)
  <2> DEFINE t == funds[f].asset_type  x == funds[f].balance  a == funds[f].owner_account
             e == IF t = s THEN x ELSE 0
  <2>1. /\ balance' = adjust_balance(balance, a, t, x) /\ funds' = Removed(funds, f)
        /\ funds[f].unpaid_amount = 0
    BY <1>4, Zenon DEF samet_fund_delete
  <2>2. a \in Account /\ t \in Asset /\ x \in Int /\ e \in Int
    BY DEF TypeInv, FundsOK, Fund
  <2>3. /\ DOMAIN Unborrowed(s)' = DOMAIN Unborrowed(s) \ {f}
        /\ \A i \in DOMAIN Unborrowed(s)' : Unborrowed(s)'[i] = Unborrowed(s)[i]
        /\ Unborrowed(s)[f] = -(-e) /\ f \in DOMAIN Unborrowed(s) /\ -e \in Int
    BY <2>1, <2>2 DEF Unborrowed, Removed, Restrict
  <2>4. SumFunction(Owned(s)') = SumFunction(Owned(s)) + e
    <3> HIDE DEF t, x, a
    <3> QED BY <2>1, <2>2, OwnedMoves, Zenon
  <2>5. IsWeight(Unborrowed(s))
    BY Weights, Zenon
  <2> HIDE DEF e
  <2>6. SumFunction(Unborrowed(s)') = SumFunction(Unborrowed(s)) + (-e)
    BY <2>3, <2>5, TotalRemoved, Zenon
  <2> QED BY <1>2, <2>2, <2>4, <2>6, Zenon
<1>5. ASSUME NEW f \in DOMAIN funds, NEW a \in Account, NEW e \in Int,
             balance' = adjust_balance(balance, a, funds[f].asset_type, e),
             DOMAIN funds' = DOMAIN funds,
             \A i \in DOMAIN funds : i # f => funds'[i] = funds[i],
             funds'[f].asset_type = funds[f].asset_type,
             funds'[f].balance - funds'[f].unpaid_amount
                = (funds[f].balance - funds[f].unpaid_amount) - e,
             NEW s \in Asset
      PROVE  Held(s)' = Held(s)
  <2> DEFINE t == funds[f].asset_type
             d == IF t = s THEN e ELSE 0
  <2>1. t \in Asset /\ d \in Int /\ funds[f].balance - funds[f].unpaid_amount \in Int
    BY DEF TypeInv, FundsOK, Fund
  <2>2. SumFunction(Owned(s)') = SumFunction(Owned(s)) + d
    <3> HIDE DEF t
    <3> QED BY <2>1, <1>5, OwnedMoves DEF t
  <2>3. IsWeight(Unborrowed(s))
    BY Weights, Zenon
  <2>4. /\ DOMAIN Unborrowed(s)' = DOMAIN Unborrowed(s) /\ f \in DOMAIN Unborrowed(s)
        /\ \A i \in DOMAIN Unborrowed(s) : i # f => Unborrowed(s)'[i] = Unborrowed(s)[i]
    BY <1>5, Zenon DEF Unborrowed
  <2>5. Unborrowed(s)'[f] = Unborrowed(s)[f] + (-d) /\ -d \in Int
    BY <1>5, <2>1 DEF Unborrowed
  <2> HIDE DEF d
  <2>6. SumFunction(Unborrowed(s)') = SumFunction(Unborrowed(s)) + (-d)
    BY <2>3, <2>4, <2>5, TotalChanged, Zenon
  <2> QED BY <1>2, <2>1, <2>2, <2>6, Zenon
<1>6. \A f \in DOMAIN funds : funds[f] \in Fund
  BY Zenon DEF TypeInv, FundsOK
<1>7. ASSUME NEW f \in DOMAIN funds, NEW x \in Delta, NEW r \in FundRate,
             samet_fund_update(f, x, r), NEW s \in Asset
      PROVE  Held(s)' = Held(s)
  <2> DEFINE a == funds[f].owner_account
  <2>1. /\ balance' = adjust_balance(balance, a, funds[f].asset_type, -x)
        /\ funds' = [funds EXCEPT ![f].balance = @ + x, ![f].fee_rate = r]
    BY <1>7, Zenon DEF samet_fund_update
  <2>2. x \in Int /\ -x \in Int /\ a \in Account
    BY <1>6, AccountAssumption DEF Delta, Fund
  <2>3. /\ DOMAIN funds' = DOMAIN funds
        /\ \A i \in DOMAIN funds : i # f => funds'[i] = funds[i]
        /\ funds'[f].asset_type = funds[f].asset_type
        /\ funds'[f].balance = funds[f].balance + x
        /\ funds'[f].unpaid_amount = funds[f].unpaid_amount
        /\ funds[f].balance \in Int /\ funds[f].unpaid_amount \in Int
    BY <1>6, <2>1 DEF Fund
  <2>4. funds'[f].balance - funds'[f].unpaid_amount
           = (funds[f].balance - funds[f].unpaid_amount) - (-x)
    BY <2>2, <2>3
  <2> QED BY <1>5, <2>1, <2>2, <2>3, <2>4, Zenon
<1>8. ASSUME NEW f \in DOMAIN funds, NEW a \in Account, NEW x \in Amount,
             samet_fund_borrow(f, a, x), NEW s \in Asset
      PROVE  Held(s)' = Held(s)
  <2>1. /\ balance' = adjust_balance(balance, a, funds[f].asset_type, x)
        /\ funds' = [funds EXCEPT ![f].unpaid_amount = @ + x]
    BY <1>8, Zenon DEF samet_fund_borrow
  <2>2. x \in Int
    BY AccountAssumption
  <2>3. /\ DOMAIN funds' = DOMAIN funds
        /\ \A i \in DOMAIN funds : i # f => funds'[i] = funds[i]
        /\ funds'[f].asset_type = funds[f].asset_type
        /\ funds'[f].balance = funds[f].balance
        /\ funds'[f].unpaid_amount = funds[f].unpaid_amount + x
        /\ funds[f].balance \in Int /\ funds[f].unpaid_amount \in Int
    BY <1>6, <2>1 DEF Fund
  <2>4. funds'[f].balance - funds'[f].unpaid_amount
           = (funds[f].balance - funds[f].unpaid_amount) - x
    BY <2>2, <2>3
  <2> QED BY <1>5, <2>1, <2>2, <2>3, <2>4, Zenon
<1>9. ASSUME NEW f \in DOMAIN funds, NEW a \in Account, NEW x \in Amount,
             NEW fee \in Amount \cup {0}, samet_fund_repay(f, a, x, fee), NEW s \in Asset
      PROVE  Held(s)' = Held(s)
  <2>1. /\ balance' = adjust_balance(balance, a, funds[f].asset_type, -(x + fee))
        /\ funds' = [funds EXCEPT ![f].balance = @ + fee, ![f].unpaid_amount = @ - x]
    BY <1>9, Zenon DEF samet_fund_repay
  <2>2. x \in Int /\ fee \in Int /\ -(x + fee) \in Int
    BY AccountAssumption
  <2>3. /\ DOMAIN funds' = DOMAIN funds
        /\ \A i \in DOMAIN funds : i # f => funds'[i] = funds[i]
        /\ funds'[f].asset_type = funds[f].asset_type
        /\ funds'[f].balance = funds[f].balance + fee
        /\ funds'[f].unpaid_amount = funds[f].unpaid_amount - x
        /\ funds[f].balance \in Int /\ funds[f].unpaid_amount \in Int
    <3>1. funds[f] \in Fund
      BY <1>6, Zenon
    <3>2. /\ DOMAIN funds' = DOMAIN funds
          /\ \A i \in DOMAIN funds : i # f => funds'[i] = funds[i]
          /\ funds'[f] = [funds[f] EXCEPT !.balance = @ + fee, !.unpaid_amount = @ - x]
      BY <2>1, Zenon
    <3> QED BY <3>1, <3>2 DEF Fund
  <2>4. funds'[f].balance - funds'[f].unpaid_amount
           = (funds[f].balance - funds[f].unpaid_amount) - (-(x + fee))
    BY <2>2, <2>3
  <2> QED BY <1>5, <2>1, <2>2, <2>3, <2>4, Zenon
<1> QED BY <1>3, <1>4, <1>7, <1>8, <1>9, Zenon
================================================================================
