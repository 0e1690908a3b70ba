------------------------------ MODULE ContractSums ------------------------------
(***************************************************************************)
(* No token is created or lost, and the three records of what is owed on a *)
(* credit offer agree: for any finite set of accounts and any assets,      *)
(* amounts, rates and bounds.                                              *)
(*                                                                         *)
(* First the invariant, and how one change of an offer, a deal or a        *)
(* summary moves the sums it is part of; then that the handlers of credit  *)
(* offers and deals keep tokens and debts; then the theorems.              *)
(***************************************************************************)
EXTENDS ContractProofs

(* A step that names no prover is tried with the SMT solver, with Zenon,   *)
(* and with the SMT solver once more.                                      *)
USE SMTT(20), Zenon, SMTT(30)

(* A summary is of an offer and an account that exist, and of a debt.      *)
SummariesOK ==
    /\ DOMAIN summaries \subseteq (DOMAIN offers) \X Account
    /\ \A p \in DOMAIN summaries : summaries[p] \in Nat \ {0}

(* The debts: the property, and what its induction needs.                  *)
DebtsOK ==
    /\ OffersMatchDeals
    /\ SummariesOK
    /\ \A d \in DOMAIN deals : deals[d].debt_asset = offers[deals[d].offer_id].asset_type

(* The tokens held are those supplied.                                     *)
Conserved == \A s \in Asset : Held(s) = SumFunction([a \in Account |-> Supply[a][s]])

(* The inductive invariant.                                                *)
SumInv == TypeInv /\ TablesOK /\ DebtsOK /\ Conserved

(* An offer's current balance moves by e.                                  *)
LEMMA OfferMoves ==
    ASSUME TypeInv, TablesOK, NEW o \in DOMAIN offers, NEW e \in Int,
           DOMAIN offers' = DOMAIN offers,
           \A i \in DOMAIN offers : i # o => offers'[i] = offers[i],
           offers'[o].asset_type = offers[o].asset_type,
           offers'[o].current_balance = offers[o].current_balance + e,
           NEW s \in Asset
    PROVE  SumFunction(NotLent(s)')
              = SumFunction(NotLent(s)) + (IF offers[o].asset_type = s THEN e ELSE 0)
<1> DEFINE v == IF offers[o].asset_type = s THEN e ELSE 0
<1>1. IsWeight(NotLent(s))
  BY Weights, Zenon
<1>2. v \in Int /\ offers[o].current_balance \in Int
  BY DEF TypeInv, OffersOK, Offer
<1>3. /\ DOMAIN NotLent(s)' = DOMAIN NotLent(s) /\ o \in DOMAIN NotLent(s)
      /\ \A i \in DOMAIN NotLent(s) : i # o => NotLent(s)'[i] = NotLent(s)[i]
  BY Zenon DEF NotLent
<1>4. NotLent(s)'[o] = NotLent(s)[o] + v
  BY <1>2 DEF NotLent
<1> HIDE DEF v
<1>5. SumFunction(NotLent(s)') = SumFunction(NotLent(s)) + v
  BY <1>1, <1>2, <1>3, <1>4, TotalChanged, Zenon
<1> QED BY <1>5, Zenon DEF v

(* The collateral of asset t that is pledged moves by c, the debt of       *)
(* account b on offer o by e.                                              *)
DealSumsMove(t, c, o, b, e) ==
    /\ \A s \in Asset : SumFunction(Pledged(s)')
                          = SumFunction(Pledged(s)) + (IF t = s THEN c ELSE 0)
    /\ \A q : SumFunction(DebtOn(q)') = SumFunction(DebtOn(q)) + (IF o = q THEN e ELSE 0)
    /\ \A q, a : SumFunction(DebtOf(q, a)')
                    = SumFunction(DebtOf(q, a)) + (IF o = q /\ b = a THEN e ELSE 0)

(* A deal is repaid in part: the sums over the deals move by what its debt *)
(* and its collateral lose.                                                *)
LEMMA DealChanged ==
    ASSUME TypeInv, TablesOK, NEW d \in DOMAIN deals, NEW c \in Int, NEW e \in Int,
           DOMAIN deals' = DOMAIN deals,
           \A i \in DOMAIN deals : i # d => deals'[i] = deals[i],
           deals'[d].offer_id = deals[d].offer_id,
           deals'[d].borrower = deals[d].borrower,
           deals'[d].collateral_asset = deals[d].collateral_asset,
           deals'[d].debt_amount = deals[d].debt_amount + e,
           deals'[d].collateral_amount = deals[d].collateral_amount + c
    PROVE  DealSumsMove(deals[d].collateral_asset, c, deals[d].offer_id, deals[d].borrower, e)
<1>0. deals[d].debt_amount \in Int /\ deals[d].collateral_amount \in Int
  BY DEF TypeInv, DealsOK, Deal
<1>1. ASSUME NEW s \in Asset
      PROVE  SumFunction(Pledged(s)') = SumFunction(Pledged(s))
                + (IF deals[d].collateral_asset = s THEN c ELSE 0)
  <2> DEFINE v == IF deals[d].collateral_asset = s THEN c ELSE 0
  <2>1. IsWeight(Pledged(s)) /\ v \in Int
    BY Weights
  <2>2. /\ DOMAIN Pledged(s)' = DOMAIN Pledged(s) /\ d \in DOMAIN Pledged(s)
        /\ \A i \in DOMAIN Pledged(s) : i # d => Pledged(s)'[i] = Pledged(s)[i]
    BY Zenon DEF Pledged
  <2>3. Pledged(s)'[d] = Pledged(s)[d] + v
    BY <1>0 DEF Pledged
  <2> HIDE DEF v
  <2>4. SumFunction(Pledged(s)') = SumFunction(Pledged(s)) + v
    BY <2>1, <2>2, <2>3, TotalChanged, Zenon
  <2> QED BY <2>4, Zenon DEF v
<1>2. ASSUME NEW q
      PROVE  SumFunction(DebtOn(q)') = SumFunction(DebtOn(q))
                + (IF deals[d].offer_id = q THEN e ELSE 0)
  <2> DEFINE v == IF deals[d].offer_id = q THEN e ELSE 0
  <2>1. IsWeight(DebtOn(q)) /\ v \in Int
    BY Weights
  <2>2. /\ DOMAIN DebtOn(q)' = DOMAIN DebtOn(q) /\ d \in DOMAIN DebtOn(q)
        /\ \A i \in DOMAIN DebtOn(q) : i # d => DebtOn(q)'[i] = DebtOn(q)[i]
    BY Zenon DEF DebtOn
  <2>3. DebtOn(q)'[d] = DebtOn(q)[d] + v
    BY <1>0 DEF DebtOn
  <2> HIDE DEF v
  <2>4. SumFunction(DebtOn(q)') = SumFunction(DebtOn(q)) + v
    BY <2>1, <2>2, <2>3, TotalChanged, Zenon
  <2> QED BY <2>4, Zenon DEF v
<1>3. ASSUME NEW q, NEW a
      PROVE  SumFunction(DebtOf(q, a)') = SumFunction(DebtOf(q, a))
                + (IF deals[d].offer_id = q /\ deals[d].borrower = a THEN e ELSE 0)
  <2> DEFINE v == IF deals[d].offer_id = q /\ deals[d].borrower = a THEN e ELSE 0
  <2>1. IsWeight(DebtOf(q, a)) /\ v \in Int
    BY Weights
  <2>2. /\ DOMAIN DebtOf(q, a)' = DOMAIN DebtOf(q, a) /\ d \in DOMAIN DebtOf(q, a)
        /\ \A i \in DOMAIN DebtOf(q, a) : i # d => DebtOf(q, a)'[i] = DebtOf(q, a)[i]
    BY Zenon DEF DebtOf
  <2>3. DebtOf(q, a)'[d] = DebtOf(q, a)[d] + v
    BY <1>0 DEF DebtOf
  <2> HIDE DEF v
  <2>4. SumFunction(DebtOf(q, a)') = SumFunction(DebtOf(q, a)) + v
    BY <2>1, <2>2, <2>3, TotalChanged, Zenon
  <2> QED BY <2>4, Zenon DEF v
<1> QED BY <1>1, <1>2, <1>3, Zenon DEF DealSumsMove

(* A deal is closed or expires.                                            *)
LEMMA DealGone ==
    ASSUME TypeInv, TablesOK, NEW d \in DOMAIN deals,
           DOMAIN deals' = DOMAIN deals \ {d},
           \A i \in DOMAIN deals' : deals'[i] = deals[i]
    PROVE  DealSumsMove(deals[d].collateral_asset, -deals[d].collateral_amount,
                        deals[d].offer_id, deals[d].borrower, -deals[d].debt_amount)
<1> DEFINE c == -deals[d].collateral_amount  e == -deals[d].debt_amount
<1>0. deals[d].debt_amount \in Int /\ deals[d].collateral_amount \in Int
  BY DEF TypeInv, DealsOK, Deal
<1>1. ASSUME NEW s \in Asset
      PROVE  SumFunction(Pledged(s)') = SumFunction(Pledged(s))
                + (IF deals[d].collateral_asset = s THEN c ELSE 0)
  <2> DEFINE v == IF deals[d].collateral_asset = s THEN c ELSE 0
  <2>1. IsWeight(Pledged(s)) /\ v \in Int
    BY <1>0, Weights
  <2>2. /\ DOMAIN Pledged(s)' = DOMAIN Pledged(s) \ {d} /\ d \in DOMAIN Pledged(s)
        /\ \A i \in DOMAIN Pledged(s)' : Pledged(s)'[i] = Pledged(s)[i]
    BY Zenon DEF Pledged
  <2>3. Pledged(s)[d] = -v
    BY <1>0 DEF Pledged
  <2> HIDE DEF v
  <2>4. SumFunction(Pledged(s)') = SumFunction(Pledged(s)) + v
    BY <2>1, <2>2, <2>3, TotalRemoved
  <2> QED BY <2>4, Zenon DEF v
<1>2. ASSUME NEW q
      PROVE  SumFunction(DebtOn(q)') = SumFunction(DebtOn(q))
                + (IF deals[d].offer_id = q THEN e ELSE 0)
  <2> DEFINE v == IF deals[d].offer_id = q THEN e ELSE 0
  <2>1. IsWeight(DebtOn(q)) /\ v \in Int
    BY <1>0, Weights
  <2>2. /\ DOMAIN DebtOn(q)' = DOMAIN DebtOn(q) \ {d} /\ d \in DOMAIN DebtOn(q)
        /\ \A i \in DOMAIN DebtOn(q)' : DebtOn(q)'[i] = DebtOn(q)[i]
    BY Zenon DEF DebtOn
  <2>3. DebtOn(q)[d] = -v
    BY <1>0 DEF DebtOn
  <2> HIDE DEF v
  <2>4. SumFunction(DebtOn(q)') = SumFunction(DebtOn(q)) + v
    BY <2>1, <2>2, <2>3, TotalRemoved
  <2> QED BY <2>4, Zenon DEF v
<1>3. ASSUME NEW q, NEW a
      PROVE  SumFunction(DebtOf(q, a)') = SumFunction(DebtOf(q, a))
                + (IF deals[d].offer_id = q /\ deals[d].borrower = a THEN e ELSE 0)
  <2> DEFINE v == IF deals[d].offer_id = q /\ deals[d].borrower = a THEN e ELSE 0
  <2>1. IsWeight(DebtOf(q, a)) /\ v \in Int
    BY <1>0, Weights
  <2>2. /\ DOMAIN DebtOf(q, a)' = DOMAIN DebtOf(q, a) \ {d} /\ d \in DOMAIN DebtOf(q, a)
        /\ \A i \in DOMAIN DebtOf(q, a)' : DebtOf(q, a)'[i] = DebtOf(q, a)[i]
    BY Zenon DEF DebtOf
  <2>3. DebtOf(q, a)[d] = -v
    BY <1>0 DEF DebtOf
  <2> HIDE DEF v
  <2>4. SumFunction(DebtOf(q, a)') = SumFunction(DebtOf(q, a)) + v
    BY <2>1, <2>2, <2>3, TotalRemoved
  <2> QED BY <2>4, Zenon DEF v
<1> QED BY <1>1, <1>2, <1>3, Zenon DEF DealSumsMove

(* A deal is made.                                                         *)
LEMMA DealNew ==
    ASSUME TypeInv, TablesOK, NEW d, d \notin DOMAIN deals, NEW deal \in Deal,
           deals' = Added(deals, d, deal)
    PROVE  DealSumsMove(deal.collateral_asset, deal.collateral_amount,
                        deal.offer_id, deal.borrower, deal.debt_amount)
<1> DEFINE c == deal.collateral_amount  e == deal.debt_amount
<1>0. c \in Int /\ e \in Int
  BY DEF Deal
<1>1. ASSUME NEW s \in Asset
      PROVE  SumFunction(Pledged(s)') = SumFunction(Pledged(s))
                + (IF deal.collateral_asset = s THEN c ELSE 0)
  <2> DEFINE v == IF deal.collateral_asset = s THEN c ELSE 0
  <2>1. IsWeight(Pledged(s)) /\ v \in Int
    BY <1>0, Weights
  <2>2. /\ DOMAIN Pledged(s)' = DOMAIN Pledged(s) \cup {d} /\ d \notin DOMAIN Pledged(s)
        /\ \A i \in DOMAIN Pledged(s) : Pledged(s)'[i] = Pledged(s)[i]
    BY Zenon DEF Pledged, Added
  <2>3. Pledged(s)'[d] = v
    BY Zenon DEF Pledged, Added
  <2> HIDE DEF v
  <2>4. SumFunction(Pledged(s)') = SumFunction(Pledged(s)) + v
    BY <2>1, <2>2, <2>3, TotalAdded, Zenon
  <2> QED BY <2>4, Zenon DEF v
<1>2. ASSUME NEW q
      PROVE  SumFunction(DebtOn(q)') = SumFunction(DebtOn(q))
                + (IF deal.offer_id = q THEN e ELSE 0)
  <2> DEFINE v == IF deal.offer_id = q THEN e ELSE 0
  <2>1. IsWeight(DebtOn(q)) /\ v \in Int
    BY <1>0, Weights
  <2>2. /\ DOMAIN DebtOn(q)' = DOMAIN DebtOn(q) \cup {d} /\ d \notin DOMAIN DebtOn(q)
        /\ \A i \in DOMAIN DebtOn(q) : DebtOn(q)'[i] = DebtOn(q)[i]
    BY Zenon DEF DebtOn, Added
  <2>3. DebtOn(q)'[d] = v
    BY Zenon DEF DebtOn, Added
  <2> HIDE DEF v
  <2>4. SumFunction(DebtOn(q)') = SumFunction(DebtOn(q)) + v
    BY <2>1, <2>2, <2>3, TotalAdded, Zenon
  <2> QED BY <2>4, Zenon DEF v
<1>3. ASSUME NEW q, NEW a
      PROVE  SumFunction(DebtOf(q, a)') = SumFunction(DebtOf(q, a))
                + (IF deal.offer_id = q /\ deal.borrower = a THEN e ELSE 0)
  <2> DEFINE v == IF deal.offer_id = q /\ deal.borrower = a THEN e ELSE 0
  <2>1. IsWeight(DebtOf(q, a)) /\ v \in Int
    BY <1>0, Weights
  <2>2. /\ DOMAIN DebtOf(q, a)' = DOMAIN DebtOf(q, a) \cup {d} /\ d \notin DOMAIN DebtOf(q, a)
        /\ \A i \in DOMAIN DebtOf(q, a) : DebtOf(q, a)'[i] = DebtOf(q, a)[i]
    BY Zenon DEF DebtOf, Added
  <2>3. DebtOf(q, a)'[d] = v
    BY Zenon DEF DebtOf, Added
  <2> HIDE DEF v
  <2>4. SumFunction(DebtOf(q, a)') = SumFunction(DebtOf(q, a)) + v
    BY <2>1, <2>2, <2>3, TotalAdded, Zenon
  <2> QED BY <2>4, Zenon DEF v
<1> QED BY <1>1, <1>2, <1>3, Zenon DEF DealSumsMove

(* The summary of one borrower moves by x and stays a natural number.      *)
LEMMA SummaryMoves ==
    ASSUME SummariesOK, NEW o \in DOMAIN offers, NEW b \in Account, NEW x \in Int,
           Debt(o, b) + x \in Nat, summaries' = Summed(o, b, x)
    PROVE  /\ DOMAIN summaries' \subseteq (DOMAIN offers) \X Account
           /\ \A p \in DOMAIN summaries' : summaries'[p] \in Nat \ {0}
           /\ \A q, a : Debt(q, a)' = IF q = o /\ a = b THEN Debt(o, b) + x ELSE Debt(q, a)
<1> DEFINE n == Debt(o, b) + x
           k == <<o, b>>
<1>1. k \in (DOMAIN offers) \X Account
  BY Zenon
<1>2. \A q, a : <<q, a>> = k <=> q = o /\ a = b
  BY Zenon
<1>3. CASE n = 0
  <2>1. summaries' = Removed(summaries, k)
    BY <1>3, Zenon DEF Summed
  <2>2. DOMAIN summaries' = DOMAIN summaries \ {k}
        /\ \A p \in DOMAIN summaries' : summaries'[p] = summaries[p]
    BY <2>1, Zenon DEF Removed, Restrict
  <2>3. \A q, a : Debt(q, a)' = IF <<q, a>> = k THEN 0 ELSE Debt(q, a)
    <3> SUFFICES ASSUME NEW q, NEW a
                 PROVE  Debt(q, a)' = IF <<q, a>> = k THEN 0 ELSE Debt(q, a)
      OBVIOUS
    <3> DEFINE p == <<q, a>>
    <3>1. Debt(q, a)' = IF p \in DOMAIN summaries' THEN summaries'[p] ELSE 0
      BY Zenon DEF Debt
    <3>2. Debt(q, a) = IF p \in DOMAIN summaries THEN summaries[p] ELSE 0
      BY Zenon DEF Debt
    <3> HIDE DEF p, k
    <3>3. Debt(q, a)' = IF p = k THEN 0 ELSE Debt(q, a)
      BY <2>2, <3>1, <3>2, Zenon
    <3> QED BY <3>3, Zenon DEF p
  <2>4. \A p \in DOMAIN summaries' : summaries'[p] \in Nat \ {0}
    <3> HIDE DEF k
    <3> QED BY <2>2, Zenon DEF SummariesOK
  <2>5. DOMAIN summaries' \subseteq (DOMAIN offers) \X Account
    <3> HIDE DEF k
    <3> QED BY <2>2, Zenon DEF SummariesOK
  <2> HIDE DEF k
  <2> QED BY <1>2, <1>3, <2>3, <2>4, <2>5, Zenon
<1>4. CASE n # 0
  <2>1. summaries' = Added(summaries, k, n)
    BY <1>4, Zenon DEF Summed
  <2>2. DOMAIN summaries' = DOMAIN summaries \cup {k} /\ summaries'[k] = n
        /\ \A p \in DOMAIN summaries : p # k => summaries'[p] = summaries[p]
    <3> HIDE DEF k, n
    <3> QED BY <2>1, Zenon DEF Added
  <2>3. \A q, a : Debt(q, a)' = IF <<q, a>> = k THEN n ELSE Debt(q, a)
    <3> SUFFICES ASSUME NEW q, NEW a
                 PROVE  Debt(q, a)' = IF <<q, a>> = k THEN n ELSE Debt(q, a)
      OBVIOUS
    <3> DEFINE p == <<q, a>>
    <3>1. Debt(q, a)' = IF p \in DOMAIN summaries' THEN summaries'[p] ELSE 0
      BY Zenon DEF Debt
    <3>2. Debt(q, a) = IF p \in DOMAIN summaries THEN summaries[p] ELSE 0
      BY Zenon DEF Debt
    <3> HIDE DEF p, k, n
    <3>3. Debt(q, a)' = IF p = k THEN n ELSE Debt(q, a)
      BY <2>2, <3>1, <3>2, Zenon
    <3> QED BY <3>3, Zenon DEF p
  <2>4. \A p \in DOMAIN summaries' : summaries'[p] \in Nat \ {0}
    <3>1. n \in Nat \ {0}
      BY <1>4, Zenon
    <3> HIDE DEF k, n
    <3> QED BY <2>2, <3>1, Zenon DEF SummariesOK
  <2>5. DOMAIN summaries' \subseteq (DOMAIN offers) \X Account
    <3> HIDE DEF k
    <3> QED BY <1>1, <2>2, Zenon DEF SummariesOK
  <2> HIDE DEF k
  <2> QED BY <1>2, <2>3, <2>4, <2>5, Zenon
<1> QED BY <1>3, <1>4, Zenon

(* Total, current balance, summary and deals move together.                *)
LEMMA DebtMoves ==
    ASSUME DebtsOK, TypeInv, TypeInv', TablesOK, TablesOK',
           NEW o \in DOMAIN offers, NEW b \in Account, NEW e \in Int, NEW t, NEW c,
           DealSumsMove(t, c, o, b, e),
           DOMAIN offers' = DOMAIN offers,
           \A i \in DOMAIN offers : i # o => offers'[i] = offers[i],
           offers'[o].asset_type = offers[o].asset_type,
           offers'[o].total_balance - offers'[o].current_balance
              = (offers[o].total_balance - offers[o].current_balance) + e,
           summaries' = Summed(o, b, e),
           \A d \in DOMAIN deals' :
              /\ deals'[d].offer_id \in DOMAIN offers
              /\ deals'[d].debt_asset = offers[deals'[d].offer_id].asset_type
    PROVE  DebtsOK'
<1>1. \A q, a : SumFunction(DebtOf(q, a)') \in Nat
  <2> SUFFICES ASSUME NEW q, NEW a PROVE SumFunction(DebtOf(q, a)') \in Nat
    OBVIOUS
  <2>1. IsFiniteSet(DOMAIN deals')
    BY FiniteTable, Zenon DEF TablesOK
  <2>2. DOMAIN DebtOf(q, a)' = DOMAIN deals'
        /\ \A d \in DOMAIN deals' : DebtOf(q, a)'[d] \in Nat
    BY Zenon DEF DebtOf, TypeInv, DealsOK, Deal
  <2> QED BY <2>1, <2>2, TotalNat, Zenon
<1>2. /\ \A q \in DOMAIN offers :
            /\ offers[q].total_balance - offers[q].current_balance = SumFunction(DebtOn(q))
            /\ \A a \in Account : Debt(q, a) = SumFunction(DebtOf(q, a))
      /\ SummariesOK
  BY Zenon DEF DebtsOK, OffersMatchDeals
<1>3. /\ \A q : SumFunction(DebtOn(q)') = SumFunction(DebtOn(q)) + (IF o = q THEN e ELSE 0)
      /\ \A q, a : SumFunction(DebtOf(q, a)')
                      = SumFunction(DebtOf(q, a)) + (IF o = q /\ b = a THEN e ELSE 0)
  BY Zenon DEF DealSumsMove
<1>4. /\ \A q : SumFunction(DebtOn(q)) \in Int
      /\ \A q, a : SumFunction(DebtOf(q, a)) \in Int
  BY Weights, TotalType, Zenon
<1>5. Debt(o, b) + e = SumFunction(DebtOf(o, b)') /\ Debt(o, b) + e \in Nat
  <2>1. Debt(o, b) = SumFunction(DebtOf(o, b))
    BY <1>2, Zenon
  <2> QED BY <1>1, <1>3, <2>1, Zenon
<1>6. /\ DOMAIN summaries' \subseteq (DOMAIN offers) \X Account
      /\ \A p \in DOMAIN summaries' : summaries'[p] \in Nat \ {0}
      /\ \A q, a : Debt(q, a)' = IF q = o /\ a = b THEN Debt(o, b) + e ELSE Debt(q, a)
  BY <1>2, <1>5, SummaryMoves
<1>7. ASSUME NEW q \in DOMAIN offers', NEW a \in Account
      PROVE  Debt(q, a)' = SumFunction(DebtOf(q, a)')
  <2>1. CASE q = o /\ a = b
    BY <1>5, <1>6, <2>1, Zenon
  <2>2. CASE ~(q = o /\ a = b)
    <3>1. Debt(q, a)' = Debt(q, a) /\ Debt(q, a) = SumFunction(DebtOf(q, a))
      BY <1>2, <1>6, <2>2, Zenon
    <3>2. SumFunction(DebtOf(q, a)') = SumFunction(DebtOf(q, a))
      BY <1>3, <1>4, <2>2
    <3> QED BY <3>1, <3>2, Zenon
  <2> QED BY <2>1, <2>2, Zenon
<1>8. ASSUME NEW q \in DOMAIN offers'
      PROVE  offers'[q].total_balance - offers'[q].current_balance = SumFunction(DebtOn(q)')
  <2>1. CASE q = o
    BY <1>2, <1>3, <2>1, Zenon
  <2>2. CASE q # o
    BY <1>2, <1>3, <1>4, <2>2
  <2> QED BY <2>1, <2>2, Zenon
<1>9. \A q \in DOMAIN offers' : offers'[q].current_balance >= 0
  BY DEF TypeInv, OffersOK, Offer
<1>10. SummariesOK'
  BY <1>6, Zenon DEF SummariesOK
<1>11. \A p \in DOMAIN summaries' : p[1] \in DOMAIN offers' /\ summaries'[p] > 0
  BY <1>6
<1>12. \A d \in DOMAIN deals' : deals'[d].offer_id \in DOMAIN offers'
  BY Zenon
<1>13. \A d \in DOMAIN deals' : deals'[d].debt_asset = offers'[deals'[d].offer_id].asset_type
  OBVIOUS
<1>14. OffersMatchDeals'
  BY <1>7, <1>8, <1>9, <1>11, <1>12, Zenon DEF OffersMatchDeals
<1> QED BY <1>10, <1>13, <1>14, Zenon DEF DebtsOK

-------------------------------------------------------------------------------
(* Two balances are adjusted, as by a loan or a repayment.                 *)
LEMMA OwnedMovesTwice ==
    ASSUME TypeInv, NEW a \in Account, NEW t \in Asset, NEW x \in Int,
           NEW b \in Account, NEW u \in Asset, NEW y \in Int,
           balance' = adjust_balance(adjust_balance(balance, a, t, x), b, u, y)
    PROVE  \A s \in Asset :
              SumFunction(Owned(s)') = SumFunction(Owned(s)) + (IF t = s THEN x ELSE 0)
                                          + (IF u = s THEN y ELSE 0)
<1> DEFINE mid == adjust_balance(balance, a, t, x)
<1>1. balance \in [Account -> [Asset -> Int]]
  BY DEF TypeInv, AccountsOK
<1>2. mid = adjust_balance(balance, a, t, x) /\ balance' = adjust_balance(mid, b, u, y)
  OBVIOUS
<1>3. mid \in [Account -> [Asset -> Int]]
  BY <1>1 DEF adjust_balance
<1> HIDE DEF mid
<1>4. \A s \in Asset : SumFunction(OwnedIn(mid, s))
                 = SumFunction(OwnedIn(balance, s)) + (IF t = s THEN x ELSE 0)
  BY <1>1, <1>2, OwnedAdjusted
<1>5. \A s \in Asset : SumFunction(OwnedIn(balance', s))
                 = SumFunction(OwnedIn(mid, s)) + (IF u = s THEN y ELSE 0)
  BY <1>2, <1>3, OwnedAdjusted
<1>6. \A s : Owned(s)' = OwnedIn(balance', s) /\ Owned(s) = OwnedIn(balance, s)
  BY Zenon DEF Owned, OwnedIn
<1> QED BY <1>4, <1>5, <1>6, Zenon

(* The tokens of credit offers and deals change hands.                     *)
LEMMA CreditHeld ==
    ASSUME TypeInv, TablesOK, OnlyCredit, NEW s \in Asset,
           NEW x \in Int, NEW y \in Int, NEW z \in Int, x + y + z = 0,
           SumFunction(Owned(s)') = SumFunction(Owned(s)) + x,
           SumFunction(NotLent(s)') = SumFunction(NotLent(s)) + y,
           SumFunction(Pledged(s)') = SumFunction(Pledged(s)) + z
    PROVE  Held(s)' = Held(s)
<1>1. Locked(s)' = Locked(s) /\ Unborrowed(s)' = Unborrowed(s)
  BY Zenon DEF OnlyCredit, htlc_vars, fund_vars, Locked, Unborrowed
<1>2. Held(s)' = SumFunction(Owned(s)') + SumFunction(Locked(s)) + SumFunction(Unborrowed(s))
              + SumFunction(NotLent(s)') + SumFunction(Pledged(s)')
  BY <1>1, Zenon DEF Held
<1> QED BY <1>2, TotalsAreIntegers DEF Held

(* A deal is made or changed by e on offer o, which has y more to lend; c  *)
(* more of asset t is pledged; the accounts get what offer and deals lose. *)
OfferShifts(o, y, e) ==
    /\ DOMAIN offers' = DOMAIN offers
    /\ \A i \in DOMAIN offers : i # o => offers'[i] = offers[i]
    /\ offers'[o].asset_type = offers[o].asset_type
    /\ offers'[o].current_balance = offers[o].current_balance + y
    /\ offers'[o].total_balance = offers[o].total_balance + y + e

(* The balances lose c of t and y of u.                                    *)
OwnedShifts(t, c, u, y) ==
    \A s \in Asset : SumFunction(Owned(s)') = SumFunction(Owned(s))
       + (IF t = s THEN -c ELSE 0) + (IF u = s THEN -y ELSE 0)

(* After the step, too, each deal has an offer, in whose asset its debt    *)
(* is.                                                                     *)
DealsHaveOffers ==
    \A d \in DOMAIN deals' :
       /\ deals'[d].offer_id \in DOMAIN offers
       /\ deals'[d].debt_asset = offers[deals'[d].offer_id].asset_type

(* An offer, one of its deals and two balances move together: a loan, a    *)
(* repayment or an expiry.                                                 *)
LEMMA LendingMoves ==
    ASSUME TypeInv, TypeInv', TablesOK, TablesOK', DebtsOK, OnlyCredit,
           NEW o \in DOMAIN offers, NEW b \in Account, NEW t \in Asset,
           NEW c \in Int, NEW e \in Int, NEW y \in Int,
           DealSumsMove(t, c, o, b, e), OfferShifts(o, y, e),
           OwnedShifts(t, c, offers[o].asset_type, y),
           summaries' = Summed(o, b, e), DealsHaveOffers
    PROVE  DebtsOK' /\ \A s \in Asset : Held(s)' = Held(s)
<1>1. DebtsOK'
  <2>1. offers[o].total_balance \in Int /\ offers[o].current_balance \in Int
    BY DEF TypeInv, OffersOK, Offer
  <2>2. offers'[o].total_balance - offers'[o].current_balance
              = (offers[o].total_balance - offers[o].current_balance) + e
    BY <2>1 DEF OfferShifts
  <2> QED BY <2>2, DebtMoves, Zenon DEF OfferShifts, DealsHaveOffers
<1>2. ASSUME NEW s \in Asset PROVE Held(s)' = Held(s)
  <2> DEFINE p == IF t = s THEN c ELSE 0
             q == IF offers[o].asset_type = s THEN y ELSE 0
  <2>1. p \in Int /\ q \in Int /\ (-p) + (-q) \in Int /\ (-p) + (-q) + q + p = 0
    OBVIOUS
  <2>2. SumFunction(NotLent(s)') = SumFunction(NotLent(s)) + q
    BY OfferMoves, Zenon DEF OfferShifts
  <2>3. SumFunction(Pledged(s)') = SumFunction(Pledged(s)) + p
    BY Zenon DEF DealSumsMove
  <2>4. SumFunction(Owned(s)') = SumFunction(Owned(s)) + ((-p) + (-q))
    BY TotalsAreIntegers DEF OwnedShifts
  <2> HIDE DEF p, q
  <2> QED BY <2>1, <2>2, <2>3, <2>4, CreditHeld, Zenon
<1> QED BY <1>1, <1>2, Zenon

(* What every step of credit offers and deals must keep.                   *)
CreditKept == DebtsOK' /\ \A s \in Asset : Held(s)' = Held(s)

(* The offer of a deal exists.                                             *)
LEMMA DealOffers ==
    ASSUME DebtsOK, NEW d \in DOMAIN deals
    PROVE  /\ deals[d].offer_id \in DOMAIN offers
           /\ deals[d].debt_asset = offers[deals[d].offer_id].asset_type
BY Zenon DEF DebtsOK, OffersMatchDeals

(* credit_deal_repay, and the automatic repayment: the offer gets the debt *)
(* back and the fee, the borrower the collateral that is released.         *)
LEMMA RepayKeeps ==
    ASSUME TypeInv, TypeInv', TablesOK, TablesOK', DebtsOK, OnlyCredit,
           NEW d \in DOMAIN deals, NEW x \in Nat, NEW fee \in Nat,
           CanRepay(d, x, fee), Repay(d, x, fee), UNCHANGED <<now, barred, phase, offer_count>>
    PROVE  CreditKept
<1> DEFINE deal == deals[d]  o == deal.offer_id  b == deal.borrower
           t == deal.collateral_asset
           full == deal.debt_amount = x
           rel == IF full THEN deal.collateral_amount ELSE amount_to_release(deal, x)
<1>1. /\ o \in DOMAIN offers /\ deal.debt_asset = offers[o].asset_type
      /\ \A i \in DOMAIN deals : /\ deals[i].offer_id \in DOMAIN offers
                                 /\ deals[i].debt_asset = offers[deals[i].offer_id].asset_type
  BY DealOffers, Zenon
<1>2. /\ b \in Account /\ t \in Asset /\ deal.debt_asset \in Asset
      /\ deal.debt_amount \in Nat \ {0} /\ deal.collateral_amount \in Nat \ {0}
      /\ deal \in Deal /\ offers[o] \in Offer
  BY <1>1, Zenon DEF TypeInv, DealsOK, Deal, OffersOK
<1>3. /\ balance' = adjust_balance(adjust_balance(balance, b, deal.debt_asset, -(x + fee)),
                                   b, t, rel)
      /\ offers' = [offers EXCEPT ![o].total_balance = @ + fee,
                                  ![o].current_balance = @ + x + fee]
      /\ summaries' = Summed(o, b, -x)
      /\ deals' = IF full THEN Removed(deals, d)
                  ELSE [deals EXCEPT ![d].debt_amount = @ - x, ![d].collateral_amount = @ - rel]
  BY Zenon DEF Repay
<1>4. rel \in Int /\ -rel \in Int /\ -x \in Int /\ x + fee \in Int /\ -(x + fee) \in Int
  <2>1. x * deal.collateral_amount \in Nat
    BY <1>2
  <2>2. amount_to_release(deal, x) \in Nat
    BY <1>2, <2>1, DivFact, Zenon DEF amount_to_release
  <2>3. rel \in Int
    BY <1>2, <2>2
  <2> HIDE DEF rel
  <2> QED BY <2>3
<1> HIDE DEF rel
<1>5. /\ DOMAIN offers' = DOMAIN offers
      /\ \A i \in DOMAIN offers : i # o => offers'[i] = offers[i]
      /\ offers'[o] = [offers[o] EXCEPT !.total_balance = @ + fee,
                                        !.current_balance = @ + x + fee]
  <2> HIDE DEF o
  <2> QED BY <1>1, <1>3, Zenon
<1>6. /\ offers'[o].asset_type = offers[o].asset_type
      /\ offers'[o].current_balance = offers[o].current_balance + (x + fee)
      /\ offers'[o].total_balance = offers[o].total_balance + (x + fee) + (-x)
  <2> HIDE DEF o
  <2> QED BY <1>2, <1>5 DEF Offer
<1>7. \A s \in Asset : SumFunction(Owned(s)') = SumFunction(Owned(s))
         + (IF t = s THEN rel ELSE 0) + (IF offers[o].asset_type = s THEN -(x + fee) ELSE 0)
  <2> HIDE DEF t, b, deal, o
  <2>1. \A s \in Asset : SumFunction(Owned(s)') = SumFunction(Owned(s))
           + (IF deal.debt_asset = s THEN -(x + fee) ELSE 0) + (IF t = s THEN rel ELSE 0)
    BY <1>2, <1>3, <1>4, OwnedMovesTwice
  <2> QED BY <1>1, <1>4, <2>1, TotalsAreIntegers
<1>8. DealSumsMove(t, -rel, o, b, -x) /\ \A i \in DOMAIN deals' :
         /\ i \in DOMAIN deals /\ deals'[i].offer_id = deals[i].offer_id
         /\ deals'[i].debt_asset = deals[i].debt_asset
  <2>1. CASE full
    <3>1. rel = deal.collateral_amount /\ x = deal.debt_amount
      BY <2>1, Zenon DEF rel
    <3>2. DOMAIN deals' = DOMAIN deals \ {d} /\ \A i \in DOMAIN deals' : deals'[i] = deals[i]
      BY <1>3, <2>1, Zenon DEF Removed, Restrict
    <3>3. DealSumsMove(t, -deal.collateral_amount, o, b, -deal.debt_amount)
      BY <3>2, DealGone, Zenon
    <3> QED BY <3>1, <3>2, <3>3, Zenon
  <2>2. CASE ~full
    <3>1. /\ DOMAIN deals' = DOMAIN deals
          /\ \A i \in DOMAIN deals : i # d => deals'[i] = deals[i]
          /\ deals'[d] = [deal EXCEPT !.debt_amount = @ - x, !.collateral_amount = @ - rel]
      BY <1>3, <2>2, Zenon
    <3>2. /\ deals'[d].offer_id = o /\ deals'[d].borrower = b
          /\ deals'[d].collateral_asset = t
          /\ deals'[d].debt_asset = deal.debt_asset
          /\ deals'[d].debt_amount = deal.debt_amount + (-x)
          /\ deals'[d].collateral_amount = deal.collateral_amount + (-rel)
      <4> HIDE DEF deal
      <4> QED BY <1>2, <1>4, <3>1, Zenon DEF Deal, o, b, t
    <3>3. DealSumsMove(t, -rel, o, b, -x)
      <4> DEFINE v == -rel  w == -x
      <4>1. /\ v \in Int /\ w \in Int
            /\ deals'[d].debt_amount = deals[d].debt_amount + w
            /\ deals'[d].collateral_amount = deals[d].collateral_amount + v
        BY <1>4, <3>2, Zenon
      <4>2. /\ DOMAIN deals' = DOMAIN deals
            /\ \A i \in DOMAIN deals : i # d => deals'[i] = deals[i]
            /\ deals'[d].offer_id = deals[d].offer_id /\ deals'[d].borrower = deals[d].borrower
            /\ deals'[d].collateral_asset = deals[d].collateral_asset
        BY <3>1, <3>2, Zenon
      <4> HIDE DEF v, w
      <4>3. DealSumsMove(deals[d].collateral_asset, v, deals[d].offer_id, deals[d].borrower, w)
        BY <4>1, <4>2, DealChanged, Zenon
      <4> QED BY <4>3, Zenon DEF v, w
    <3>4. \A i \in DOMAIN deals' :
             /\ i \in DOMAIN deals /\ deals'[i].offer_id = deals[i].offer_id
             /\ deals'[i].debt_asset = deals[i].debt_asset
      BY <3>1, <3>2, Zenon
    <3> QED BY <3>3, <3>4, Zenon
  <2> QED BY <2>1, <2>2, Zenon
<1>9. \A s \in Asset : SumFunction(Owned(s)') = SumFunction(Owned(s))
         + (IF t = s THEN -(-rel) ELSE 0) + (IF offers[o].asset_type = s THEN -(x + fee) ELSE 0)
  BY <1>4, <1>7
<1>10. \A i \in DOMAIN deals' :
          /\ deals'[i].offer_id \in DOMAIN offers
          /\ deals'[i].debt_asset = offers[deals'[i].offer_id].asset_type
  BY <1>1, <1>8, Zenon
<1> HIDE DEF t, o, b, deal
<1>11. /\ OfferShifts(o, x + fee, -x) /\ DealsHaveOffers
       /\ OwnedShifts(t, -rel, offers[o].asset_type, x + fee)
  BY <1>5, <1>6, <1>9, <1>10, Zenon DEF OfferShifts, OwnedShifts, DealsHaveOffers
<1>12. DebtsOK' /\ \A s \in Asset : Held(s)' = Held(s)
  BY <1>1, <1>2, <1>3, <1>4, <1>8, <1>11, LendingMoves, Zenon
<1> QED BY <1>12, Zenon DEF CreditKept

(* credit_offer_accept: the debt leaves the offer, the collateral the      *)
(* borrower.                                                               *)
LEMMA AcceptKeeps ==
    ASSUME TypeInv, TypeInv', TablesOK, TablesOK', DebtsOK, OnlyCredit,
           NEW o \in DOMAIN offers, NEW a \in Account, NEW t \in Asset, NEW x \in Amount,
           NEW c \in Amount, NEW auto \in auto_repay_type,
           credit_offer_accept(o, a, x, t, c, auto)
    PROVE  CreditKept
<1> DEFINE n == deal_count + 1
           deal == [borrower |-> a, offer_id |-> o,
                    offer_owner |-> offers[o].owner_account,
                    debt_asset |-> offers[o].asset_type, debt_amount |-> x,
                    collateral_asset |-> t, collateral_amount |-> c,
                    fee_rate |-> offers[o].terms.fee_rate, auto_repay |-> auto,
                    latest_repay_time |-> now + offers[o].terms.max_duration_seconds]
<1>1. /\ balance' = adjust_balance(adjust_balance(balance, a, t, -c),
                                   a, offers[o].asset_type, x)
      /\ offers' = [offers EXCEPT ![o].current_balance = @ - x]
      /\ deals' = Added(deals, n, deal)
      /\ summaries' = Summed(o, a, x)
  BY Zenon DEF credit_offer_accept
<1>2. x \in Int /\ c \in Int /\ -x \in Int /\ -c \in Int /\ n \notin DOMAIN deals
  BY AccountAssumption DEF TablesOK
<1>3. offers[o] \in Offer /\ offers[o].asset_type \in Asset
  BY Zenon DEF TypeInv, OffersOK, Offer
<1>4. /\ deal.offer_id = o /\ deal.debt_asset = offers[o].asset_type
      /\ deal.borrower = a /\ deal.collateral_asset = t /\ deal.collateral_amount = c
      /\ deal.debt_amount = x
  OBVIOUS
<1> HIDE DEF deal
<1>5. /\ DOMAIN deals' = DOMAIN deals \cup {n} /\ deals'[n] = deal
      /\ \A i \in DOMAIN deals : deals'[i] = deals[i]
  BY <1>1, <1>2, Zenon DEF Added
<1>6. deal \in Deal
  <2> HIDE DEF n
  <2>1. n \in DOMAIN deals'
    BY <1>5, Zenon
  <2> QED BY <1>5, <2>1, Zenon DEF TypeInv, DealsOK
<1>7. DealSumsMove(t, c, o, a, x)
  <2> HIDE DEF n
  <2>1. DealSumsMove(deal.collateral_asset, deal.collateral_amount,
                     deal.offer_id, deal.borrower, deal.debt_amount)
    BY <1>1, <1>2, <1>6, DealNew, Zenon
  <2> QED BY <1>4, <2>1, Zenon
<1>8. /\ DOMAIN offers' = DOMAIN offers
      /\ \A i \in DOMAIN offers : i # o => offers'[i] = offers[i]
      /\ offers'[o].asset_type = offers[o].asset_type
      /\ offers'[o].current_balance = offers[o].current_balance + (-x)
      /\ offers'[o].total_balance = offers[o].total_balance + (-x) + x
  BY <1>1, <1>2, <1>3 DEF Offer
<1>9. \A s \in Asset : SumFunction(Owned(s)') = SumFunction(Owned(s))
         + (IF t = s THEN -c ELSE 0) + (IF offers[o].asset_type = s THEN -(-x) ELSE 0)
  <2>1. \A s \in Asset : SumFunction(Owned(s)') = SumFunction(Owned(s))
           + (IF t = s THEN -c ELSE 0) + (IF offers[o].asset_type = s THEN x ELSE 0)
    BY <1>1, <1>2, <1>3, OwnedMovesTwice
  <2> QED BY <1>2, <2>1
<1>10. \A i \in DOMAIN deals' :
          /\ deals'[i].offer_id \in DOMAIN offers
          /\ deals'[i].debt_asset = offers[deals'[i].offer_id].asset_type
  BY <1>4, <1>5, DealOffers, Zenon
<1>11. /\ OfferShifts(o, -x, x) /\ DealsHaveOffers
       /\ OwnedShifts(t, c, offers[o].asset_type, -x)
  BY <1>8, <1>9, <1>10, Zenon DEF OfferShifts, OwnedShifts, DealsHaveOffers
<1>12. DebtsOK' /\ \A s \in Asset : Held(s)' = Held(s)
  BY <1>1, <1>2, <1>7, <1>11, LendingMoves, Zenon
<1> QED BY <1>12, Zenon DEF CreditKept

(* An expired deal: the owner of the offer keeps the collateral, and the   *)
(* offer writes the debt off.                                              *)
LEMMA ExpiryKeeps ==
    ASSUME TypeInv, TypeInv', TablesOK, TablesOK', DebtsOK, OnlyCredit,
           NEW d \in DOMAIN deals, credit_deal_expired(d)
    PROVE  CreditKept
<1> DEFINE deal == deals[d]  o == deal.offer_id  b == deal.borrower
           t == deal.collateral_asset  c == deal.collateral_amount  x == deal.debt_amount
<1>1. /\ o \in DOMAIN offers
      /\ \A i \in DOMAIN deals : /\ deals[i].offer_id \in DOMAIN offers
                                 /\ deals[i].debt_asset = offers[deals[i].offer_id].asset_type
  BY DealOffers, Zenon
<1>2. /\ b \in Account /\ deal.offer_owner \in Account /\ t \in Asset
      /\ x \in Int /\ c \in Int /\ -x \in Int /\ -c \in Int /\ 0 \in Int
      /\ offers[o] \in Offer
  BY <1>1 DEF TypeInv, DealsOK, Deal, OffersOK
<1>3. /\ offers' = [offers EXCEPT ![o].total_balance = @ - x]
      /\ summaries' = Summed(o, b, -x)
      /\ balance' = adjust_balance(balance, deal.offer_owner, t, c)
      /\ deals' = Removed(deals, d)
  BY Zenon DEF credit_deal_expired
<1>4. DOMAIN deals' = DOMAIN deals \ {d} /\ \A i \in DOMAIN deals' : deals'[i] = deals[i]
  BY <1>3, Zenon DEF Removed, Restrict
<1>5. DealSumsMove(t, -c, o, b, -x)
  BY <1>4, DealGone, Zenon
<1>6. \A i \in DOMAIN deals' :
         /\ deals'[i].offer_id \in DOMAIN offers
         /\ deals'[i].debt_asset = offers[deals'[i].offer_id].asset_type
  BY <1>1, <1>4, Zenon
<1> HIDE DEF o, b, t, c, x
<1>7. /\ DOMAIN offers' = DOMAIN offers
      /\ \A i \in DOMAIN offers : i # o => offers'[i] = offers[i]
      /\ offers'[o].asset_type = offers[o].asset_type
      /\ offers'[o].current_balance = offers[o].current_balance + 0
      /\ offers'[o].total_balance = offers[o].total_balance + 0 + (-x)
  BY <1>1, <1>2, <1>3 DEF Offer
<1>8. \A s \in Asset : SumFunction(Owned(s)') = SumFunction(Owned(s))
         + (IF t = s THEN -(-c) ELSE 0) + (IF offers[o].asset_type = s THEN -0 ELSE 0)
  <2>1. \A s \in Asset : SumFunction(Owned(s)') = SumFunction(Owned(s)) + (IF t = s THEN c ELSE 0)
    <3> HIDE DEF deal
    <3> QED BY <1>2, <1>3, OwnedMoves, Zenon
  <2> QED BY <1>2, <2>1, TotalsAreIntegers
<1> HIDE DEF deal
<1>9. /\ OfferShifts(o, 0, -x) /\ DealsHaveOffers
      /\ OwnedShifts(t, -c, offers[o].asset_type, 0)
  BY <1>6, <1>7, <1>8, Zenon DEF OfferShifts, OwnedShifts, DealsHaveOffers
<1>10. DebtsOK' /\ \A s \in Asset : Held(s)' = Held(s)
  BY <1>1, <1>2, <1>3, <1>5, <1>9, LendingMoves, Zenon
<1> QED BY <1>10, Zenon DEF CreditKept

(* What is summed over deals stands if no deal changes.                    *)
LEMMA DealsStand ==
    ASSUME UNCHANGED <<deals, summaries>>
    PROVE  /\ \A q : DebtOn(q)' = DebtOn(q)
           /\ \A q, a : DebtOf(q, a)' = DebtOf(q, a) /\ Debt(q, a)' = Debt(q, a)
           /\ \A s : Pledged(s)' = Pledged(s)
BY Zenon DEF DebtOn, DebtOf, Debt, Pledged

(* An offer without deals owes nothing.                                    *)
LEMMA NoDealsNoDebt ==
    ASSUME TablesOK, NEW o, \A d \in DOMAIN deals : deals[d].offer_id # o
    PROVE  SumFunction(DebtOn(o)) = 0 /\ \A a : SumFunction(DebtOf(o, a)) = 0
<1>1. IsFiniteSet(DOMAIN deals)
  BY FiniteTable, Zenon DEF TablesOK
<1>2. IsFiniteSet(DOMAIN DebtOn(o)) /\ \A d \in DOMAIN DebtOn(o) : DebtOn(o)[d] = 0
  BY <1>1, Zenon DEF DebtOn
<1>3. \A a : IsFiniteSet(DOMAIN DebtOf(o, a)) /\ \A d \in DOMAIN DebtOf(o, a) : DebtOf(o, a)[d] = 0
  BY <1>1, Zenon DEF DebtOf
<1> QED BY <1>2, <1>3, TotalZero, Zenon

(* An offer that has lent nothing (Unlent) is the offer of no deal and of  *)
(* no summary.                                                             *)
LEMMA UnlentHasNoDeals ==
    ASSUME TypeInv, TablesOK, DebtsOK, NEW o \in DOMAIN offers, Unlent(o)
    PROVE  /\ \A d \in DOMAIN deals : deals[d].offer_id # o
           /\ \A p \in DOMAIN summaries : p[1] # o
<1>1. SumFunction(DebtOn(o)) = 0
  <2>1. /\ offers[o].total_balance - offers[o].current_balance = SumFunction(DebtOn(o))
        /\ offers[o].total_balance = offers[o].current_balance
    BY Zenon DEF DebtsOK, OffersMatchDeals, Unlent
  <2>2. offers[o].current_balance \in Int
    BY DEF TypeInv, OffersOK, Offer
  <2> QED BY <2>1, <2>2
<1>2. /\ IsFiniteSet(DOMAIN DebtOn(o)) /\ DOMAIN DebtOn(o) = DOMAIN deals
      /\ \A d \in DOMAIN DebtOn(o) : DebtOn(o)[d] \in Nat
      /\ \A d \in DOMAIN deals : deals[d].offer_id = o => DebtOn(o)[d] > 0
  <2>1. IsFiniteSet(DOMAIN deals)
    BY FiniteTable, Zenon DEF TablesOK
  <2> QED BY <2>1 DEF DebtOn, TypeInv, DealsOK, Deal
<1>3. \A d \in DOMAIN deals : DebtOn(o)[d] <= 0
  <2>1. \A d \in DOMAIN DebtOn(o) : DebtOn(o)[d] <= SumFunction(DebtOn(o))
    BY <1>2, TotalCovers, Zenon
  <2> QED BY <1>1, <1>2, <2>1, Zenon
<1>4. \A d \in DOMAIN deals : deals[d].offer_id # o
  BY <1>2, <1>3
<1>5. ASSUME NEW p \in DOMAIN summaries, p[1] = o PROVE FALSE
  <2>0. SummariesOK
    BY Zenon DEF DebtsOK
  <2>1. PICK q \in DOMAIN offers, a \in Account : p = <<q, a>>
    BY <1>5, <2>0 DEF SummariesOK
  <2>2. p = <<o, a>>
    BY <1>5, <2>1, Zenon
  <2>3. Debt(o, a) = summaries[p] /\ summaries[p] \in Nat \ {0}
    BY <2>2, Zenon DEF Debt, DebtsOK, SummariesOK
  <2>4. Debt(o, a) = SumFunction(DebtOf(o, a))
    BY Zenon DEF DebtsOK, OffersMatchDeals
  <2>5. SumFunction(DebtOf(o, a)) = 0
    BY <1>4, NoDealsNoDebt, Zenon
  <2> QED BY <2>3, <2>4, <2>5, Zenon
<1> QED BY <1>4, <1>5, Zenon

(* What the records of the debts say, when deals and summaries stay.       *)
LEMMA DebtsAgree ==
    ASSUME DebtsOK, UNCHANGED <<deals, summaries>>
    PROVE  \A q \in DOMAIN offers :
              /\ offers[q].total_balance - offers[q].current_balance = SumFunction(DebtOn(q)')
              /\ \A a \in Account : Debt(q, a)' = SumFunction(DebtOf(q, a)')
<1> SUFFICES ASSUME NEW q \in DOMAIN offers
             PROVE  /\ offers[q].total_balance - offers[q].current_balance = SumFunction(DebtOn(q)')
                    /\ \A a \in Account : Debt(q, a)' = SumFunction(DebtOf(q, a)')
  OBVIOUS
<1>1. /\ offers[q].total_balance - offers[q].current_balance = SumFunction(DebtOn(q))
      /\ \A a \in Account : Debt(q, a) = SumFunction(DebtOf(q, a))
  BY Zenon DEF DebtsOK, OffersMatchDeals
<1>2. /\ DebtOn(q)' = DebtOn(q)
      /\ \A a : DebtOf(q, a)' = DebtOf(q, a) /\ Debt(q, a)' = Debt(q, a)
  BY DealsStand, Zenon
<1> QED BY <1>1, <1>2, Zenon

(* Deals and what is owed on each offer stay as they are.                  *)
LEMMA DebtsStand ==
    ASSUME TypeInv', DebtsOK, UNCHANGED <<deals, summaries>>,
           DOMAIN offers' = DOMAIN offers,
           \A i \in DOMAIN offers :
              /\ offers'[i].asset_type = offers[i].asset_type
              /\ offers'[i].total_balance - offers'[i].current_balance
                    = offers[i].total_balance - offers[i].current_balance
    PROVE  DebtsOK'
<1>1. \A q \in DOMAIN offers' : offers'[q].current_balance >= 0
  BY DEF TypeInv, OffersOK, Offer
<1>2. \A q \in DOMAIN offers' :
         /\ offers'[q].total_balance - offers'[q].current_balance = SumFunction(DebtOn(q)')
         /\ \A a \in Account : Debt(q, a)' = SumFunction(DebtOf(q, a)')
  BY DebtsAgree, Zenon
<1>3. /\ \A d \in DOMAIN deals' : deals'[d].offer_id \in DOMAIN offers'
      /\ \A p \in DOMAIN summaries' : p[1] \in DOMAIN offers' /\ summaries'[p] > 0
      /\ SummariesOK'
  BY Zenon DEF DebtsOK, OffersMatchDeals, SummariesOK
<1>4. \A d \in DOMAIN deals' : deals'[d].debt_asset = offers'[deals'[d].offer_id].asset_type
  BY DealOffers, Zenon
<1> QED BY <1>1, <1>2, <1>3, <1>4, Zenon DEF DebtsOK, OffersMatchDeals

(* credit_offer_update, which moves tokens between the owner and the       *)
(* offer.                                                                  *)
LEMMA UpdateKeeps ==
    ASSUME TypeInv, TypeInv', TablesOK, DebtsOK, OnlyCredit,
           NEW o \in DOMAIN offers, NEW x \in Delta, NEW t, credit_offer_update(o, x, t)
    PROVE  CreditKept
<1> DEFINE a == offers[o].owner_account  u == offers[o].asset_type
<1>1. /\ balance' = adjust_balance(balance, a, u, -x)
      /\ offers' = [offers EXCEPT ![o].total_balance = @ + x,
                                  ![o].current_balance = @ + x, ![o].terms = t]
      /\ UNCHANGED <<deals, summaries>>
  BY Zenon DEF credit_offer_update
<1>2. x \in Int /\ -x \in Int
  BY AccountAssumption DEF Delta
<1>3. offers[o] \in Offer /\ a \in Account /\ u \in Asset
  BY Zenon DEF TypeInv, OffersOK, Offer
<1>4. /\ DOMAIN offers' = DOMAIN offers
      /\ \A i \in DOMAIN offers : i # o => offers'[i] = offers[i]
      /\ offers'[o] = [offers[o] EXCEPT !.total_balance = @ + x,
                                        !.current_balance = @ + x, !.terms = t]
  BY <1>1, Zenon
<1>5. /\ offers'[o].asset_type = offers[o].asset_type
      /\ offers'[o].current_balance = offers[o].current_balance + x
      /\ offers'[o].total_balance = offers[o].total_balance + x
      /\ offers[o].current_balance \in Int /\ offers[o].total_balance \in Int
  BY <1>3, <1>4 DEF Offer
<1>6. offers'[o].total_balance - offers'[o].current_balance
         = offers[o].total_balance - offers[o].current_balance
  BY <1>2, <1>5
<1>7. DebtsOK'
  BY <1>1, <1>4, <1>5, <1>6, DebtsStand, Zenon
<1>8. ASSUME NEW s \in Asset PROVE Held(s)' = Held(s)
  <2> DEFINE q == IF u = s THEN x ELSE 0
             z == 0
  <2>1. q \in Int /\ -q \in Int /\ z \in Int /\ (-q) + q + z = 0
    BY <1>2
  <2>2. SumFunction(NotLent(s)') = SumFunction(NotLent(s)) + q
    <3>1. \A i \in DOMAIN offers : i # o => offers'[i] = offers[i]
      BY <1>4, Zenon
    <3>2. DOMAIN offers' = DOMAIN offers
      BY <1>4, Zenon
    <3> QED BY <1>2, <3>1, <3>2, <1>5, OfferMoves, Zenon
  <2>3. SumFunction(Owned(s)') = SumFunction(Owned(s)) + (-q)
    <3> HIDE DEF a, u
    <3>1. SumFunction(Owned(s)') = SumFunction(Owned(s)) + (IF u = s THEN -x ELSE 0)
      BY <1>1, <1>2, <1>3, OwnedMoves, Zenon
    <3> QED BY <1>2, <3>1
  <2>4. SumFunction(Pledged(s)') = SumFunction(Pledged(s)) + z
    BY <1>1, DealsStand, TotalsAreIntegers
  <2> HIDE DEF q, z
  <2> QED BY <2>1, <2>2, <2>3, <2>4, CreditHeld, Zenon
<1> QED BY <1>7, <1>8, Zenon DEF CreditKept

(* credit_offer_create: a new offer has no deals.                          *)
LEMMA CreateKeeps ==
    ASSUME TypeInv, TypeInv', TablesOK, DebtsOK, OnlyCredit,
           NEW a \in Account, NEW u \in Asset, NEW x \in Amount, NEW t,
           credit_offer_create(a, u, x, t)
    PROVE  CreditKept
<1>0. PICK n : n = offer_count + 1
  OBVIOUS
<1> DEFINE new == [owner_account |-> a, asset_type |-> u, total_balance |-> x,
                   current_balance |-> x, terms |-> t]
<1>1. /\ balance' = adjust_balance(balance, a, u, -x)
      /\ offers' = Added(offers, n, new)
      /\ UNCHANGED <<deals, summaries>>
  BY <1>0, Zenon DEF credit_offer_create
<1>2. x \in Int /\ -x \in Int /\ n \notin DOMAIN offers
  BY <1>0, AccountAssumption DEF TablesOK
<1>3. /\ DOMAIN offers' = DOMAIN offers \cup {n}
      /\ \A i \in DOMAIN offers : offers'[i] = offers[i]
      /\ offers'[n].asset_type = u /\ offers'[n].current_balance = x
      /\ offers'[n].total_balance = x
  BY <1>1, <1>2, Zenon DEF Added
<1> HIDE DEF new
<1>4. DebtsOK'
  <2>1. \A d \in DOMAIN deals : deals[d].offer_id # n
    BY <1>2, DealOffers, Zenon
  <2>2. SumFunction(DebtOn(n)) = 0 /\ \A b : SumFunction(DebtOf(n, b)) = 0
    BY <2>1, NoDealsNoDebt, Zenon
  <2>3. \A b : Debt(n, b) = 0
    BY <1>2, Zenon DEF DebtsOK, SummariesOK, Debt
  <2>4. \A q \in DOMAIN offers' : offers'[q].current_balance >= 0
    BY DEF TypeInv, OffersOK, Offer
  <2>5. \A q \in DOMAIN offers' :
           offers'[q].total_balance - offers'[q].current_balance = SumFunction(DebtOn(q)')
    <3>1. \A q \in DOMAIN offers :
             offers'[q].total_balance - offers'[q].current_balance = SumFunction(DebtOn(q)')
      BY <1>1, <1>3, DebtsAgree, Zenon
    <3>2. offers'[n].total_balance - offers'[n].current_balance = 0
      BY <1>2, <1>3
    <3>3. SumFunction(DebtOn(n)') = 0
      BY <1>1, <2>2, DealsStand, Zenon
    <3> QED BY <1>3, <3>1, <3>2, <3>3, Zenon
  <2>6. \A q \in DOMAIN offers' : \A b \in Account : Debt(q, b)' = SumFunction(DebtOf(q, b)')
    <3>1. \A q \in DOMAIN offers : \A b \in Account : Debt(q, b)' = SumFunction(DebtOf(q, b)')
      BY <1>1, DebtsAgree, Zenon
    <3>2. \A b \in Account : Debt(n, b)' = SumFunction(DebtOf(n, b)')
      BY <1>1, <2>2, <2>3, DealsStand, Zenon
    <3> QED BY <1>3, <3>1, <3>2, Zenon
  <2>7. /\ \A d \in DOMAIN deals' : deals'[d].offer_id \in DOMAIN offers'
        /\ \A p \in DOMAIN summaries' : p[1] \in DOMAIN offers' /\ summaries'[p] > 0
        /\ SummariesOK'
    BY <1>1, <1>3, Zenon DEF DebtsOK, OffersMatchDeals, SummariesOK
  <2>8. \A d \in DOMAIN deals' : deals'[d].debt_asset = offers'[deals'[d].offer_id].asset_type
    BY <1>1, <1>3, DealOffers, Zenon
  <2> QED BY <2>4, <2>5, <2>6, <2>7, <2>8, Zenon DEF DebtsOK, OffersMatchDeals
<1>5. ASSUME NEW s \in Asset PROVE Held(s)' = Held(s)
  <2> DEFINE q == IF u = s THEN x ELSE 0
             z == 0
  <2>1. q \in Int /\ -q \in Int /\ z \in Int /\ (-q) + q + z = 0
    BY <1>2
  <2>2. /\ DOMAIN NotLent(s)' = DOMAIN NotLent(s) \cup {n} /\ n \notin DOMAIN NotLent(s)
        /\ \A i \in DOMAIN NotLent(s) : NotLent(s)'[i] = NotLent(s)[i]
        /\ NotLent(s)'[n] = q
    BY <1>2, <1>3, Zenon DEF NotLent
  <2>3. IsWeight(NotLent(s))
    BY Weights, Zenon
  <2>4. SumFunction(Owned(s)') = SumFunction(Owned(s)) + (-q)
    <3>1. SumFunction(Owned(s)') = SumFunction(Owned(s)) + (IF u = s THEN -x ELSE 0)
      BY <1>1, <1>2, OwnedMoves, Zenon
    <3> QED BY <1>2, <3>1
  <2>5. SumFunction(Pledged(s)') = SumFunction(Pledged(s)) + z
    BY <1>1, DealsStand, TotalsAreIntegers
  <2> HIDE DEF q, z
  <2>6. SumFunction(NotLent(s)') = SumFunction(NotLent(s)) + q
    BY <2>1, <2>2, <2>3, TotalAdded, Zenon
  <2> QED BY <2>1, <2>4, <2>5, <2>6, CreditHeld, Zenon
<1> QED BY <1>4, <1>5, Zenon DEF CreditKept

(* credit_offer_delete, which needs an offer that has lent nothing.        *)
LEMMA DeleteKeeps ==
    ASSUME TypeInv, TypeInv', TablesOK, DebtsOK, OnlyCredit,
           NEW o \in DOMAIN offers, credit_offer_delete(o)
    PROVE  CreditKept
<1> DEFINE a == offers[o].owner_account  u == offers[o].asset_type
           x == offers[o].current_balance
<1>1. /\ balance' = adjust_balance(balance, a, u, x)
      /\ offers' = Removed(offers, o)
      /\ UNCHANGED <<deals, summaries>> /\ Unlent(o)
  BY Zenon DEF credit_offer_delete
<1>2. a \in Account /\ u \in Asset /\ x \in Int /\ -x \in Int
  BY DEF TypeInv, OffersOK, Offer
<1>3. DOMAIN offers' = DOMAIN offers \ {o} /\ \A i \in DOMAIN offers' : offers'[i] = offers[i]
  BY <1>1, Zenon DEF Removed, Restrict
<1>4. /\ \A d \in DOMAIN deals : deals[d].offer_id # o
      /\ \A p \in DOMAIN summaries : p[1] # o
  BY <1>1, UnlentHasNoDeals, Zenon
<1>5. DebtsOK'
  <2>1. \A q \in DOMAIN offers' : offers'[q].current_balance >= 0
    BY DEF TypeInv, OffersOK, Offer
  <2>2. \A q \in DOMAIN offers' :
         /\ offers'[q].total_balance - offers'[q].current_balance = SumFunction(DebtOn(q)')
         /\ \A b \in Account : Debt(q, b)' = SumFunction(DebtOf(q, b)')
    BY <1>1, <1>3, DebtsAgree, Zenon
  <2>3. \A d \in DOMAIN deals' : /\ deals'[d].offer_id \in DOMAIN offers'
                                 /\ deals'[d].debt_asset = offers'[deals'[d].offer_id].asset_type
    BY <1>1, <1>3, <1>4, DealOffers, Zenon
  <2>4. \A p \in DOMAIN summaries' : p[1] \in DOMAIN offers' /\ summaries'[p] > 0
    BY <1>1, <1>3, <1>4, Zenon DEF DebtsOK, OffersMatchDeals
  <2>5. SummariesOK'
    <3>1. SummariesOK
      BY Zenon DEF DebtsOK
    <3>2. ASSUME NEW p \in DOMAIN summaries PROVE p \in (DOMAIN offers') \X Account
      BY <1>3, <1>4, <3>1, Zenon DEF SummariesOK
    <3> QED BY <1>1, <3>1, <3>2, Zenon DEF SummariesOK
  <2> QED BY <2>1, <2>2, <2>3, <2>4, <2>5, Zenon DEF DebtsOK, OffersMatchDeals
<1>6. ASSUME NEW s \in Asset PROVE Held(s)' = Held(s)
  <2> DEFINE q == IF u = s THEN x ELSE 0
             z == 0
  <2>1. q \in Int /\ -q \in Int /\ z \in Int /\ q + (-q) + z = 0
    BY <1>2
  <2>2. /\ DOMAIN NotLent(s)' = DOMAIN NotLent(s) \ {o} /\ o \in DOMAIN NotLent(s)
        /\ \A i \in DOMAIN NotLent(s)' : NotLent(s)'[i] = NotLent(s)[i]
        /\ NotLent(s)[o] = -(-q)
    BY <1>2, <1>3 DEF NotLent
  <2>3. IsWeight(NotLent(s))
    BY Weights, Zenon
  <2>4. SumFunction(Owned(s)') = SumFunction(Owned(s)) + q
    <3> HIDE DEF a, u, x
    <3> QED BY <1>1, <1>2, OwnedMoves, Zenon
  <2>5. SumFunction(Pledged(s)') = SumFunction(Pledged(s)) + z
    BY <1>1, DealsStand, TotalsAreIntegers
  <2> HIDE DEF q, z
  <2>6. SumFunction(NotLent(s)') = SumFunction(NotLent(s)) + (-q)
    BY <2>1, <2>2, <2>3, TotalRemoved, Zenon
  <2> QED BY <2>1, <2>4, <2>5, <2>6, CreditHeld, Zenon
<1> QED BY <1>5, <1>6, Zenon DEF CreditKept

(* Steps that change no balance and no table but the terms of offers and   *)
(* deals.                                                                  *)
LEMMA TermsKeep ==
    ASSUME TypeInv, TypeInv', TablesOK, DebtsOK
    PROVE  /\ \A d \in DOMAIN deals : \A auto : credit_deal_update(d, auto) /\ OnlyCredit => CreditKept
           /\ update_credit_offers => CreditKept
           /\ UNCHANGED <<balance, htlc_vars, fund_vars, credit_vars>> => CreditKept
<1>1. ASSUME UNCHANGED <<balance, htlcs, funds>>,
             \A s \in Asset : NotLent(s)' = NotLent(s) /\ Pledged(s)' = Pledged(s)
      PROVE  \A s \in Asset : Held(s)' = Held(s)
  <2>1. \A s : Owned(s)' = Owned(s) /\ Locked(s)' = Locked(s) /\ Unborrowed(s)' = Unborrowed(s)
    BY <1>1, Zenon DEF Owned, Locked, Unborrowed
  <2> QED BY <1>1, <2>1, Zenon DEF Held
<1>2. ASSUME NEW d \in DOMAIN deals, NEW auto, credit_deal_update(d, auto), OnlyCredit
      PROVE  CreditKept
  <2>1. /\ UNCHANGED <<balance, offers, summaries, htlcs, funds>>
        /\ deals' = [deals EXCEPT ![d].auto_repay = auto]
    BY <1>2, Zenon DEF credit_deal_update, OnlyCredit, account_vars, htlc_vars, fund_vars
  <2>2. /\ DOMAIN deals' = DOMAIN deals
        /\ \A i \in DOMAIN deals : /\ deals'[i].offer_id = deals[i].offer_id
                                   /\ deals'[i].borrower = deals[i].borrower
                                   /\ deals'[i].debt_asset = deals[i].debt_asset
                                   /\ deals'[i].debt_amount = deals[i].debt_amount
                                   /\ deals'[i].collateral_asset = deals[i].collateral_asset
                                   /\ deals'[i].collateral_amount = deals[i].collateral_amount
    BY <2>1, Zenon DEF TypeInv, DealsOK, Deal
  <2>3. \A q : DebtOn(q)' = DebtOn(q)
    BY <2>2, Zenon DEF DebtOn
  <2>4. \A q, a : DebtOf(q, a)' = DebtOf(q, a)
    BY <2>2, Zenon DEF DebtOf
  <2>5. \A q, a : Debt(q, a)' = Debt(q, a)
    BY <2>1, Zenon DEF Debt
  <2>6. \A s \in Asset : NotLent(s)' = NotLent(s) /\ Pledged(s)' = Pledged(s)
    BY <2>1, <2>2 DEF NotLent, Pledged
  <2>7. DebtsOK'
    <3>1. \A q \in DOMAIN offers' :
         /\ offers'[q].current_balance >= 0
         /\ offers'[q].total_balance - offers'[q].current_balance = SumFunction(DebtOn(q)')
         /\ \A a \in Account : Debt(q, a)' = SumFunction(DebtOf(q, a)')
      <4> SUFFICES ASSUME NEW q \in DOMAIN offers
                   PROVE  /\ offers[q].current_balance >= 0
                          /\ offers[q].total_balance - offers[q].current_balance = SumFunction(DebtOn(q)')
                          /\ \A a \in Account : Debt(q, a)' = SumFunction(DebtOf(q, a)')
        BY <2>1, Zenon
      <4>1. /\ offers[q].current_balance >= 0
            /\ offers[q].total_balance - offers[q].current_balance = SumFunction(DebtOn(q))
            /\ \A a \in Account : Debt(q, a) = SumFunction(DebtOf(q, a))
        BY Zenon DEF DebtsOK, OffersMatchDeals
      <4> QED BY <4>1, <2>3, <2>4, <2>5, Zenon
    <3>2. /\ \A p \in DOMAIN summaries' : p[1] \in DOMAIN offers' /\ summaries'[p] > 0
          /\ SummariesOK'
      BY <2>1, Zenon DEF DebtsOK, OffersMatchDeals, SummariesOK
    <3>3. \A i \in DOMAIN deals' : /\ deals'[i].offer_id \in DOMAIN offers'
                                   /\ deals'[i].debt_asset = offers'[deals'[i].offer_id].asset_type
      BY <2>1, <2>2, DealOffers
    <3> QED BY <3>1, <3>2, <3>3, Zenon DEF DebtsOK, OffersMatchDeals
  <2> QED BY <1>1, <2>1, <2>6, <2>7, Zenon DEF CreditKept
<1>3. ASSUME update_credit_offers PROVE CreditKept
  <2>1. /\ UNCHANGED <<balance, deals, summaries, htlcs, funds>>
        /\ offers' = AutoDisabled
    BY <1>3, Zenon DEF update_credit_offers, htlc_vars, fund_vars
  <2>2. /\ DOMAIN offers' = DOMAIN offers
        /\ \A i \in DOMAIN offers : /\ offers'[i].asset_type = offers[i].asset_type
                                    /\ offers'[i].total_balance = offers[i].total_balance
                                    /\ offers'[i].current_balance = offers[i].current_balance
    BY <2>1, Zenon DEF AutoDisabled, TypeInv, OffersOK, Offer
  <2>3. DebtsOK'
    BY <2>1, <2>2, DebtsStand, Zenon
  <2>4. \A s \in Asset : NotLent(s)' = NotLent(s)
    BY <2>2, Zenon DEF NotLent
  <2>5. \A s \in Asset : Pledged(s)' = Pledged(s)
    BY <2>1, DealsStand, Zenon
  <2> QED BY <1>1, <2>1, <2>3, <2>4, <2>5, Zenon DEF CreditKept
<1>4. ASSUME UNCHANGED <<balance, htlc_vars, fund_vars, credit_vars>> PROVE CreditKept
  <2>1. UNCHANGED <<balance, deals, summaries, htlcs, funds, offers>>
    BY <1>4, Zenon DEF htlc_vars, fund_vars, credit_vars
  <2>2. DebtsOK'
    BY <2>1, DebtsStand, Zenon
  <2>3. \A s \in Asset : NotLent(s)' = NotLent(s) /\ Pledged(s)' = Pledged(s)
    BY <2>1, Zenon DEF NotLent, Pledged
  <2> QED BY <1>1, <2>1, <2>2, <2>3, Zenon DEF CreditKept
<1> QED BY <1>2, <1>3, <1>4, Zenon

(* Every operation on credit offers and deals keeps tokens and debts.      *)
LEMMA CreditStep ==
    ASSUME TypeInv, TypeInv', TablesOK, TablesOK', DebtsOK, OnlyCredit
    PROVE  /\ \A a \in Account, s \in Asset, x \in Amount, t \in Terms :
                 credit_offer_create(a, s, x, t) => CreditKept
           /\ \A o \in DOMAIN offers : credit_offer_delete(o) => CreditKept
           /\ \A o \in DOMAIN offers, x \in Delta : \A t :
                 credit_offer_update(o, x, t) => CreditKept
           /\ \A o \in DOMAIN offers, a \in Account, s \in Asset, x, c \in Amount,
                 auto \in auto_repay_type : credit_offer_accept(o, a, x, s, c, auto) => CreditKept
           /\ \A d \in DOMAIN deals, x \in Amount, fee \in Amount \cup {0} :
                 credit_deal_repay(d, x, fee) => CreditKept
           /\ \A d \in DOMAIN deals : auto_repay(d) \/ credit_deal_expired(d) => CreditKept
<1>1. ASSUME NEW d \in DOMAIN deals, NEW x \in Amount, NEW fee \in Amount \cup {0},
             credit_deal_repay(d, x, fee)
      PROVE  CreditKept
  <2>1. x \in Nat /\ fee \in Nat
    BY AccountAssumption
  <2>2. /\ CanRepay(d, x, fee) /\ Repay(d, x, fee)
        /\ UNCHANGED <<now, barred, phase, offer_count>>
    BY <1>1, Zenon DEF credit_deal_repay
  <2> QED BY <2>1, <2>2, RepayKeeps, Zenon
<1>2. ASSUME NEW d \in DOMAIN deals, auto_repay(d)
      PROVE  CreditKept
  <2> DEFINE r == AutoRepayment(deals[d])  x == r.amount  fee == r.fee
  <2>1. x \in Nat /\ fee \in Nat
    BY AutoRepaymentFact, Zenon
  <2>2. /\ \/ CanRepay(d, x, fee) /\ Repay(d, x, fee)
           \/ UNCHANGED <<balance, offers, summaries, deals>>
        /\ UNCHANGED <<now, barred, phase, offer_count, deal_count>>
    BY <1>2, Zenon DEF auto_repay
  <2> HIDE DEF x, fee
  <2>3. CASE CanRepay(d, x, fee) /\ Repay(d, x, fee)
    BY <2>1, <2>2, <2>3, RepayKeeps, Zenon
  <2>4. CASE UNCHANGED <<balance, offers, summaries, deals>>
    <3>1. DebtsOK'
      BY <2>4, DebtsStand, Zenon
    <3>2. \A s : /\ Owned(s)' = Owned(s) /\ Locked(s)' = Locked(s)
                 /\ Unborrowed(s)' = Unborrowed(s)
                 /\ NotLent(s)' = NotLent(s) /\ Pledged(s)' = Pledged(s)
      BY <2>4, Zenon DEF OnlyCredit, htlc_vars, fund_vars, Owned, Locked, Unborrowed,
                         NotLent, Pledged
    <3> QED BY <3>1, <3>2, Zenon DEF CreditKept, Held
  <2> QED BY <2>2, <2>3, <2>4, Zenon
<1> QED BY <1>1, <1>2, CreateKeeps, DeleteKeeps, UpdateKeeps, AcceptKeeps, ExpiryKeeps, Zenon

(* Every step does.                                                        *)
LEMMA SumStep ==
    ASSUME TypeInv, TypeInv', TablesOK, TablesOK', DebtsOK, [Next]_vars
    PROVE  CreditKept
<1>1. UNCHANGED credit_vars => DebtsOK'
  <2> SUFFICES ASSUME UNCHANGED credit_vars PROVE DebtsOK'
    OBVIOUS
  <2>1. UNCHANGED <<deals, summaries, offers>>
    BY Zenon DEF credit_vars
  <2> QED BY <2>1, DebtsStand, Zenon
<1>2. ASSUME OnlyHtlcs,
             \/ \E from, to \in Account, s \in Asset, x \in Amount, t \in ClaimPeriod :
                   htlc_create(from, to, s, x, t)
             \/ \E h \in DOMAIN htlcs : htlc_redeem(h) \/ clear_expired_htlcs(h)
             \/ \E h \in DOMAIN htlcs, t \in ClaimPeriod : htlc_extend(h, t)
      PROVE  CreditKept
  <2>1. \A s \in Asset : Held(s)' = Held(s)
    BY <1>2, HtlcsKeepTokens, Zenon
  <2> QED BY <1>1, <1>2, <2>1, Zenon DEF OnlyHtlcs, CreditKept
<1>3. ASSUME OnlyFunds,
             \/ \E a \in Account, s \in Asset, x \in Amount, r \in FundRate :
                   samet_fund_create(a, s, x, r)
             \/ \E f \in DOMAIN funds : samet_fund_delete(f)
             \/ \E f \in DOMAIN funds, x \in Delta, r \in FundRate : samet_fund_update(f, x, r)
             \/ \E f \in DOMAIN funds, a \in Account, x \in Amount : samet_fund_borrow(f, a, x)
             \/ \E f \in DOMAIN funds, a \in Account, x \in Amount, fee \in Amount \cup {0} :
                   samet_fund_repay(f, a, x, fee)
      PROVE  CreditKept
  <2>1. \A s \in Asset : Held(s)' = Held(s)
    BY <1>3, FundsKeepTokens, Zenon
  <2> QED BY <1>1, <1>3, <2>1, Zenon DEF OnlyFunds, CreditKept
<1>4. /\ end_transactions \/ finish_block \/ UNCHANGED vars
            => UNCHANGED <<balance, htlc_vars, fund_vars, credit_vars>>
      /\ \A a, s : account_whitelist(a, s) => UNCHANGED balance
  BY Zenon DEF end_transactions, finish_block, vars, account_vars, account_whitelist
<1>5. CASE \/ \E p \in MayBeBarred : /\ account_whitelist(p[1], p[2])
                                     /\ UNCHANGED <<htlc_vars, fund_vars, credit_vars>>
           \/ end_transactions \/ finish_block \/ UNCHANGED vars
  BY <1>4, <1>5, TermsKeep, Zenon
<1>6. CASE update_credit_offers
  BY <1>6, TermsKeep, Zenon
<1>7. CASE \E d \in DOMAIN deals, auto \in auto_repay_type :
              credit_deal_update(d, auto) /\ OnlyCredit
  BY <1>7, TermsKeep, Zenon
<1>8. CASE \/ \E a \in Account, s \in Asset, x \in Amount, t \in Terms :
                 credit_offer_create(a, s, x, t) /\ OnlyCredit
           \/ \E o \in DOMAIN offers : credit_offer_delete(o) /\ OnlyCredit
           \/ \E o \in DOMAIN offers, x \in Delta :
                 \E t \in Terms \cup {offers[o].terms} :
                    credit_offer_update(o, x, t) /\ OnlyCredit
           \/ \E o \in DOMAIN offers, a \in Account, s \in Asset, x, c \in Amount,
                 auto \in auto_repay_type :
                    credit_offer_accept(o, a, x, s, c, auto) /\ OnlyCredit
           \/ \E d \in DOMAIN deals, x \in Amount, fee \in Amount \cup {0} :
                 credit_deal_repay(d, x, fee) /\ OnlyCredit
           \/ \E d \in DOMAIN deals : auto_repay(d) /\ OnlyCredit
           \/ \E d \in DOMAIN deals : credit_deal_expired(d) /\ OnlyCredit
  BY <1>8, CreditStep, Zenon
<1>9. CASE \/ \E from, to \in Account, s \in Asset, x \in Amount, t \in ClaimPeriod :
                 htlc_create(from, to, s, x, t) /\ OnlyHtlcs
           \/ \E h \in DOMAIN htlcs : htlc_redeem(h) /\ OnlyHtlcs
           \/ \E h \in DOMAIN htlcs : clear_expired_htlcs(h) /\ OnlyHtlcs
           \/ \E h \in DOMAIN htlcs, t \in ClaimPeriod : htlc_extend(h, t) /\ OnlyHtlcs
  BY <1>2, <1>9, Zenon
<1>10. CASE \/ \E a \in Account, s \in Asset, x \in Amount, r \in FundRate :
                  samet_fund_create(a, s, x, r) /\ OnlyFunds
            \/ \E f \in DOMAIN funds : samet_fund_delete(f) /\ OnlyFunds
            \/ \E f \in DOMAIN funds, x \in Delta, r \in FundRate :
                  samet_fund_update(f, x, r) /\ OnlyFunds
            \/ \E f \in DOMAIN funds, a \in Account, x \in Amount :
                  samet_fund_borrow(f, a, x) /\ OnlyFunds
            \/ \E f \in DOMAIN funds, a \in Account, x \in Amount, fee \in Amount \cup {0} :
                  samet_fund_repay(f, a, x, fee) /\ OnlyFunds
  BY <1>3, <1>10, Zenon
<1> QED
  BY <1>5, <1>6, <1>7, <1>8, <1>9, <1>10, Zenon DEF Next, Housekeeping

(* The invariant holds initially and is kept by every step.                *)
LEMMA SumInit == Init => SumInv
<1> SUFFICES ASSUME Init PROVE SumInv
  OBVIOUS
<1>1. TypeInv
  BY InitInv, Zenon DEF ContractInv
<1>2. /\ DOMAIN htlcs = {} /\ DOMAIN funds = {} /\ DOMAIN offers = {}
      /\ DOMAIN deals = {} /\ DOMAIN summaries = {}
      /\ htlc_count = 0 /\ fund_count = 0 /\ offer_count = 0 /\ deal_count = 0
      /\ balance = Supply
  BY DEF Init, AccountInit, HtlcInit, FundInit, CreditInit
<1>3. TablesOK
  BY <1>2, Zenon DEF TablesOK
<1>4. DebtsOK
  BY <1>2, Zenon DEF DebtsOK, OffersMatchDeals, SummariesOK
<1>5. ASSUME NEW s \in Asset PROVE Held(s) = SumFunction([a \in Account |-> Supply[a][s]])
  <2>1. /\ SumFunction(Locked(s)) = 0 /\ SumFunction(Unborrowed(s)) = 0
        /\ SumFunction(NotLent(s)) = 0 /\ SumFunction(Pledged(s)) = 0
    <3>1. /\ DOMAIN Locked(s) = {} /\ DOMAIN Unborrowed(s) = {}
          /\ DOMAIN NotLent(s) = {} /\ DOMAIN Pledged(s) = {}
      BY <1>2, Zenon DEF Locked, Unborrowed, NotLent, Pledged
    <3> QED BY <3>1, TotalNone, Zenon
  <2>2. Owned(s) = [a \in Account |-> Supply[a][s]]
    BY <1>2, Zenon DEF Owned
  <2>3. SumFunction(Owned(s)) \in Int
    BY <1>1, <1>3, TotalsAreIntegers, Zenon
  <2> HIDE DEF Owned
  <2>4. Held(s) = SumFunction(Owned(s))
    BY <2>1, <2>3 DEF Held
  <2> QED BY <2>2, <2>4, Zenon
<1> QED BY <1>1, <1>3, <1>4, <1>5, Zenon DEF SumInv, Conserved

(* The step of the induction.                                              *)
LEMMA SumInvStep == SumInv /\ [Next]_vars => SumInv'
<1> SUFFICES ASSUME SumInv, [Next]_vars PROVE SumInv'
  OBVIOUS
<1>1. TypeInv' /\ TablesOK'
  BY TypeStep, TablesStep, Zenon DEF SumInv
<1>2. TypeInv
  BY Zenon DEF SumInv
<1>3. CreditKept
  BY <1>1, <1>2, SumStep, Zenon DEF SumInv
<1>4. Conserved'
  BY <1>3, Zenon DEF SumInv, Conserved, CreditKept
<1> QED BY <1>1, <1>3, <1>4, Zenon DEF SumInv, CreditKept

(* The records of tokens and debts agree in every state the contracts      *)
(* reach.                                                                  *)
THEOREM SumInvariance == Spec => []SumInv
BY SumInit, SumInvStep, PTL DEF Spec

(* No operation, settlement or refund of htlc_evaluator,                   *)
(* samet_fund_evaluator, credit_offer_evaluator or                         *)
(* update_credit_offers_and_deals creates or destroys tokens, whatever the *)
(* accounts, assets, amounts, rates and terms.                             *)
THEOREM SupplyIsConservedAlways == Spec => []SupplyIsConserved
<1>1. SumInv => SupplyIsConserved
  <2> SUFFICES ASSUME SumInv PROVE SupplyIsConserved
    OBVIOUS
  <2>1. \A s \in Asset : \A a \in Account : balance[a][s] >= 0
    BY DEF SumInv, TypeInv, AccountsOK
  <2> QED BY <2>1, Zenon DEF SumInv, Conserved, SupplyIsConserved
<1> QED BY <1>1, SumInvariance, PTL

(* The total and the current balance of a credit offer, the summaries of   *)
(* its borrowers and its deals agree, and the offer of a deal exists.      *)
THEOREM OffersMatchDealsAlways == Spec => []OffersMatchDeals
<1>1. SumInv => OffersMatchDeals
  BY Zenon DEF SumInv, DebtsOK
<1> QED BY <1>1, SumInvariance, PTL
================================================================================
