----------------------------- MODULE TicketProofs -----------------------------
(***************************************************************************)
(* Tickets keep consistent schedules and values, nothing is overdue        *)
(* between handlers, ticket_update processes only its own tickets, the     *)
(* statistics of the accounts and of the chain, which are only changed by  *)
(* differences, are the sums over the tickets, and no ticket is refunded   *)
(* before its terms are served: for any accounts, amounts, numbers of      *)
(* tickets, times and terms.                                               *)
(***************************************************************************)
EXTENDS TicketTerms, ArithmeticProofs, FiniteSetTheorems

(* A step that names no prover is tried with the SMT solver, with Zenon,   *)
(* and with the SMT solver once more.                                      *)
USE SMTT(20), Zenon, SMTT(30)

(* What holds of every single ticket under version v.                      *)
TicketOK(t, v) == t \in Ticket /\ Scheduled(t) /\ ValueFits(t, v)

(* The inductive invariant.  Its last conjunct carries the argument of     *)
(* UpdateProcessesOwnTickets through the loop.                             *)
TicketInv ==
    /\ TypeOK
    /\ \A i \in DOMAIN tickets : TicketOK(tickets[i], version)
    /\ NothingOverdue
    /\ loop = "update" =>
          \A i \in DOMAIN tickets \ touched : tickets[i].next_auto_update_time > now

(* The multipliers of the types are natural numbers; of lock_forever, 8.   *)
LEMMA Multipliers ==
    ASSUME NEW k \in ticket_type, NEW v
    PROVE  /\ value_multiplier(k, v) \in Nat
           /\ value_multiplier(lock_forever, v) = 8
BY DEF ticket_type, liquid, lock_forever, value_multiplier

(* A new ticket is well formed and charges in the future.                  *)
LEMMA InitNewOK ==
    ASSUME NEW a \in Account, NEW type \in ticket_type, NEW amount \in Nat \ {0},
           now \in 0..MaxTime, version \in {1, 2}, type # liquid
    PROVE  /\ TicketOK(init_new(a, type, amount), version)
           /\ init_new(a, type, amount).next_auto_update_time > now
           /\ init_new(a, type, amount).account = a
           /\ init_new(a, type, amount).amount = amount
           /\ init_new(a, type, amount).current_type # lock_forever
<1> DEFINE raw == [account |-> a, target_type |-> type, amount |-> amount,
                  current_type |-> liquid, status |-> "charging", value |-> 0,
                  next_auto_update_time |-> now + ChargingStep,
                  next_type_downgrade_time |-> Never]
           m == value_multiplier(liquid, version)
<1>1. init_new(a, type, amount) = [raw EXCEPT !.value = amount * m]
  BY DEF init_new, update_value, liquid, lock_forever
<1>2. m \in Nat
  BY Multipliers DEF ticket_type, liquid, lock_forever
<1>3. amount * m \in Nat
  BY <1>2
<1> QED
  BY <1>1, <1>3, TicketAssumption
     DEF TicketOK, Ticket, Scheduled, ValueFits, ticket_type, liquid, lock_forever

(* Recomputing the value of a well-formed term ticket whose amount or type *)
(* has just been changed makes it fit again.                               *)
LEMMA UpdateValueOK ==
    ASSUME NEW t \in Ticket, NEW v, Scheduled(t), t.current_type # lock_forever
    PROVE  /\ TicketOK(update_value(t, v), v)
           /\ update_value(t, v).next_auto_update_time = t.next_auto_update_time
           /\ update_value(t, v).account = t.account
           /\ update_value(t, v).amount = t.amount
           /\ update_value(t, v).current_type = t.current_type
<1> DEFINE m == value_multiplier(t.current_type, v)
<1>1. t.amount \in Nat /\ t.current_type \in ticket_type
  BY Zenon DEF Ticket
<1>2. m \in Nat
  BY <1>1, Multipliers, Zenon
<1>3. t.amount * m \in Nat
  BY <1>1, <1>2
<1>4. update_value(t, v) = [t EXCEPT !.value = t.amount * m]
  BY Zenon DEF update_value
<1> QED
  BY <1>3, <1>4, Zenon DEF TicketOK, Ticket, Scheduled, ValueFits

(* Setting a new target keeps a term ticket well formed.                   *)
LEMMA UpdateTargetOK ==
    ASSUME NEW t \in Ticket, Scheduled(t), NEW type \in ticket_type,
           now \in 0..MaxTime, version \in {1, 2},
           t.current_type # lock_forever, t.target_type # type
    PROVE  /\ TicketOK(update_target_type(t, type), version)
           /\ update_target_type(t, type).account = t.account
           /\ update_target_type(t, type).amount = t.amount
           /\ update_target_type(t, type).current_type # lock_forever
<1> DEFINE s == IF t.current_type < type THEN start_charging(t)
                ELSE start_withdrawing(t, type)
           u == [s EXCEPT !.target_type = type]
<1>1. update_target_type(t, type) = update_value(u, version)
  BY Zenon DEF update_target_type
<1>2. /\ u \in Ticket /\ Scheduled(u) /\ u.current_type # lock_forever
      /\ u.account = t.account /\ u.amount = t.amount
  <2>1. CASE t.current_type < type /\ t.status = "charging"
    <3>1. u = [t EXCEPT !.target_type = type]
      BY <2>1, Zenon DEF start_charging
    <3> QED
      BY <2>1, <3>1, Zenon DEF Ticket, Scheduled
  <2>2. CASE t.current_type < type /\ t.status # "charging"
    <3> DEFINE due == now + ChargingStep
    <3>1. u = [t EXCEPT !.status = "charging", !.next_auto_update_time = due,
                        !.target_type = type]
      BY <2>2, Zenon DEF start_charging, Ticket
    <3>2. due \in Nat /\ due # Never
      BY TicketAssumption
    <3> HIDE DEF due, s, u
    <3> QED
      BY <2>2, <3>1, <3>2, Zenon DEF Ticket, Scheduled
  <2>3. CASE ~ (t.current_type < type)
    <3>0. t.current_type \in 0..3 /\ type \in 0..3 /\ type <= t.current_type
      BY <2>3 DEF Ticket, ticket_type, liquid, lock_forever
    <3>1. PICK lower \in 0..3, due \in Nat :
             /\ due # Never
             /\ type <= lower
             /\ start_withdrawing(t, type) =
                   [t EXCEPT !.status = "withdrawing", !.current_type = lower,
                             !.next_type_downgrade_time = due,
                             !.next_auto_update_time = due]
      <4>1. CASE t.next_type_downgrade_time # Never
        <5>1. start_withdrawing(t, type) =
                [t EXCEPT !.status = "withdrawing", !.current_type = t.current_type,
                          !.next_type_downgrade_time = t.next_type_downgrade_time,
                          !.next_auto_update_time = t.next_type_downgrade_time]
          BY <4>1, Zenon DEF start_withdrawing
        <5>2. t.next_type_downgrade_time \in Nat
          BY Zenon DEF Ticket
        <5> QED
          BY <3>0, <4>1, <5>1, <5>2, Zenon
      <4>2. CASE t.next_type_downgrade_time = Never /\ t.current_type = type
        <5>1. now + CancelCharging \in Nat /\ now + CancelCharging # Never
          BY TicketAssumption
        <5> QED
          BY <3>0, <4>2, <5>1, Zenon DEF start_withdrawing
      <4>3. CASE t.next_type_downgrade_time = Never /\ t.current_type # type
        <5>1. t.current_type - 1 \in 0..2 /\ type <= t.current_type - 1
          BY <3>0, <4>3
        <5>2. /\ now + SecondsToDowngrade[t.current_type - 1] \in Nat
              /\ now + SecondsToDowngrade[t.current_type - 1] # Never
          BY <5>1, TicketAssumption
        <5>3. start_withdrawing(t, type) =
                [t EXCEPT !.status = "withdrawing",
                          !.current_type = t.current_type - 1,
                          !.next_type_downgrade_time =
                              now + SecondsToDowngrade[t.current_type - 1],
                          !.next_auto_update_time =
                              now + SecondsToDowngrade[t.current_type - 1]]
          BY <4>3, Zenon DEF start_withdrawing
        <5>4. t.current_type - 1 \in 0..3
          BY <5>1
        <5> QED
          BY <5>1, <5>2, <5>3, <5>4, Zenon
      <4> QED
        BY <4>1, <4>2, <4>3, Zenon
    <3>2. u = [t EXCEPT !.status = "withdrawing", !.current_type = lower,
                        !.next_type_downgrade_time = due,
                        !.next_auto_update_time = due, !.target_type = type]
      BY <2>3, <3>1, Zenon DEF Ticket
    <3> HIDE DEF s, u
    <3>3. lower \in ticket_type /\ lower # lock_forever
      BY <3>1 DEF ticket_type, liquid, lock_forever
    <3>4. u \in Ticket
      BY <3>1, <3>2, <3>3, Zenon DEF Ticket
    <3>5. /\ u.status = "withdrawing" /\ u.current_type = lower
          /\ u.next_type_downgrade_time = due /\ u.next_auto_update_time = due
          /\ u.target_type = type /\ u.account = t.account /\ u.amount = t.amount
      BY <3>2, Zenon DEF Ticket
    <3> QED
      BY <3>0, <3>1, <3>3, <3>4, <3>5, Zenon DEF Scheduled
  <2> QED
    BY <2>1, <2>2, <2>3, Zenon
<1> HIDE DEF s, u
<1> QED
  BY <1>1, <1>2, UpdateValueOK

(* Taking an amount out of a term ticket leaves its schedule alone.        *)
LEMMA AdjustAmountOK ==
    ASSUME NEW t \in Ticket, Scheduled(t), NEW d \in Nat \ {0}, d < t.amount,
           t.current_type # lock_forever
    PROVE  /\ TicketOK(adjust_amount(t, -d), version)
           /\ adjust_amount(t, -d).next_auto_update_time = t.next_auto_update_time
           /\ adjust_amount(t, -d).account = t.account
           /\ adjust_amount(t, -d).amount = t.amount - d
           /\ adjust_amount(t, -d).current_type # lock_forever
<1> DEFINE u == [t EXCEPT !.amount = @ + (-d)]
<1>1. u \in Ticket /\ Scheduled(u) /\ u.current_type # lock_forever
      /\ u.next_auto_update_time = t.next_auto_update_time
      /\ u.account = t.account /\ u.amount = t.amount - d
  BY DEF Ticket, Scheduled
<1> QED
  BY <1>1, UpdateValueOK, Zenon DEF adjust_amount

(* Splitting off a part makes a well-formed ticket of it.                  *)
LEMMA InitSplitOK ==
    ASSUME NEW t \in Ticket, Scheduled(t), NEW type \in ticket_type,
           NEW d \in Nat \ {0},
           now \in 0..MaxTime, version \in {1, 2},
           t.current_type # lock_forever, t.target_type # type
    PROVE  /\ TicketOK(init_split(t, type, d), version)
           /\ init_split(t, type, d).account = t.account
           /\ init_split(t, type, d).amount = d
           /\ init_split(t, type, d).current_type # lock_forever
<1> DEFINE u == [t EXCEPT !.amount = d]
<1>1. u \in Ticket /\ Scheduled(u) /\ u.current_type # lock_forever
      /\ u.target_type # type /\ u.account = t.account /\ u.amount = d
  BY Zenon DEF Ticket, Scheduled
<1> QED
  BY <1>1, UpdateTargetOK, Zenon DEF init_split

(* An automatic update of a due ticket keeps it well formed; one that is   *)
(* locked for ever keeps its type and amount, and loses value.             *)
LEMMA AutoUpdateOK ==
    ASSUME NEW t, TicketOK(t, version), ~ Refundable(t),
           t.next_auto_update_time <= now, now \in 0..MaxTime, version \in {1, 2}
    PROVE  /\ TicketOK(auto_update(t), version)
           /\ t.current_type = lock_forever =>
                 /\ auto_update(t).current_type = lock_forever
                 /\ auto_update(t).amount = t.amount
                 /\ auto_update(t).value <= t.value
           /\ auto_update(t).account = t.account /\ auto_update(t).amount = t.amount
           /\ t.current_type = lock_forever => t.value > 0
           /\ t.current_type # lock_forever /\ auto_update(t).current_type = lock_forever
                 => auto_update(t).value > 0
<1> DEFINE due == t.next_auto_update_time
           type == t.current_type
<1>1. /\ t \in Ticket /\ Scheduled(t) /\ ValueFits(t, version)
      /\ t.amount \in Nat \ {0} /\ t.value \in Nat /\ due \in Nat
      /\ t.current_type \in 0..4 /\ t.target_type \in 0..4
      /\ t.status \in {"charging", "stable", "withdrawing"}
      /\ t.next_type_downgrade_time \in Nat
  BY Zenon DEF TicketOK, Ticket, ticket_type, liquid, lock_forever
<1>2. due # Never /\ t.status # "stable"
  BY <1>1, TicketAssumption DEF Scheduled
<1>a. t.current_type = lock_forever => t.value > 0
  BY <1>1, <1>2 DEF ValueFits
<1>3. CASE t.status = "charging"
  <2>1. t.current_type < t.target_type
    BY <1>1, <1>3, Zenon DEF Scheduled
  <2>2. t.current_type # lock_forever /\ t.current_type + 1 \in ticket_type
    BY <1>1, <2>1 DEF ticket_type, liquid, lock_forever
  <2>3. auto_update(t) = update_value(auto_charge(t), version)
    BY <1>3, Zenon DEF auto_update
  <2>4. CASE t.current_type + 1 < t.target_type
    <3> DEFINE u == [t EXCEPT !.current_type = t.current_type + 1,
                              !.next_type_downgrade_time = Never,
                              !.next_auto_update_time = due + ChargingStep]
    <3>1. auto_charge(t) = u
      BY <1>1, <2>4, Zenon DEF auto_charge, Ticket
    <3>2. due + ChargingStep \in Nat /\ due + ChargingStep # Never /\ Never \in Nat
      BY <1>1, TicketAssumption
    <3>a. t.current_type + 1 # lock_forever
      BY <1>1, <2>4 DEF lock_forever
    <3>b. /\ u.status = "charging" /\ u.current_type = t.current_type + 1
          /\ u.target_type = t.target_type
          /\ u.next_auto_update_time = due + ChargingStep
      BY <1>1, <1>3, Zenon DEF Ticket
    <3>c. u \in Ticket
      BY <1>1, <2>2, <3>2, Zenon DEF Ticket
    <3>3. u \in Ticket /\ Scheduled(u) /\ u.current_type # lock_forever
      BY <1>1, <2>4, <3>2, <3>a, <3>b, <3>c, Zenon DEF Scheduled
    <3>d. u.account = t.account /\ u.amount = t.amount
      BY <1>1, Zenon DEF Ticket
    <3> HIDE DEF u
    <3> QED
      BY <2>2, <2>3, <3>1, <3>3, <3>d, UpdateValueOK
  <2>5. CASE t.current_type + 1 = t.target_type /\ t.target_type # lock_forever
    <3> DEFINE u == [t EXCEPT !.current_type = t.current_type + 1,
                              !.next_type_downgrade_time = Never,
                              !.status = "stable",
                              !.next_auto_update_time = Never]
    <3>1. auto_charge(t) = u
      BY <1>1, <2>5 DEF auto_charge, Ticket
    <3>2. Never \in Nat
      BY TicketAssumption, Zenon
    <3>3. u \in Ticket /\ Scheduled(u) /\ u.current_type # lock_forever
      BY <1>1, <2>2, <2>5, <3>2, Zenon DEF Ticket, Scheduled
    <3>d. u.account = t.account /\ u.amount = t.amount
      BY <1>1, Zenon DEF Ticket
    <3> HIDE DEF u
    <3> QED
      BY <2>2, <2>3, <3>1, <3>3, <3>d, UpdateValueOK
  <2>6. CASE t.current_type + 1 = t.target_type /\ t.target_type = lock_forever
    <3> DEFINE u == [t EXCEPT !.current_type = lock_forever,
                              !.next_type_downgrade_time = Never,
                              !.status = "withdrawing",
                              !.next_auto_update_time = due + ForeverStep,
                              !.value = 8 * t.amount]
    <3>1. t.amount * value_multiplier(lock_forever, version) = 8 * t.amount
      BY <1>1, Multipliers DEF ticket_type, liquid, lock_forever
    <3>a. t.current_type + 1 = lock_forever /\ ~ (lock_forever < t.target_type)
      BY <1>1, <2>6 DEF lock_forever
    <3>b. [t EXCEPT !.current_type = t.current_type + 1].current_type = lock_forever
      BY <1>1, <3>a, Zenon DEF Ticket
    <3>2. auto_charge(t) = u
      BY <1>1, <3>a, <3>b, <3>1, Zenon DEF auto_charge, Ticket
    <3>3. due + ForeverStep \in Nat /\ due + ForeverStep # Never /\ Never \in Nat
      BY <1>1, TicketAssumption
    <3>4. /\ u.current_type = lock_forever /\ u.target_type = lock_forever
          /\ u.status = "withdrawing" /\ u.next_auto_update_time # Never
          /\ u.next_type_downgrade_time = Never
          /\ u.value = 8 * u.amount /\ u.amount = t.amount
          /\ u.account = t.account
      BY <1>1, <2>6, <3>3, Zenon DEF Ticket
    <3>c. 8 * t.amount \in Nat /\ lock_forever \in ticket_type
      BY <1>1 DEF ticket_type, liquid, lock_forever
    <3>5. u \in Ticket
      BY <1>1, <3>3, <3>c, Zenon DEF Ticket
    <3> HIDE DEF u
    <3>6. update_value(u, version) = u
      BY <3>4, Zenon DEF update_value
    <3>7. Scheduled(u) /\ ValueFits(u, version)
      BY <1>1, <3>4 DEF Scheduled, ValueFits, lock_forever
    <3>8. u.value > 0
      BY <1>1, <3>4
    <3> QED
      BY <2>2, <2>3, <3>2, <3>4, <3>5, <3>6, <3>7, <3>8, Zenon DEF TicketOK
  <2> QED
    BY <1>1, <2>1, <2>4, <2>5, <2>6
<1>4. CASE t.status = "withdrawing" /\ t.current_type = lock_forever
  <2>1. (t.amount * value_multiplier(lock_forever, version))
            \div lock_forever_update_steps = 2 * t.amount
    <3>1. t.amount * value_multiplier(lock_forever, version) = 8 * t.amount
      BY <1>1, Multipliers DEF ticket_type, liquid, lock_forever
    <3>2. (8 * t.amount) \div 4 = 2 * t.amount
      BY <1>1
    <3> QED
      BY <3>1, <3>2, Zenon DEF lock_forever_update_steps
  <2>2. auto_update(t) = update_value(auto_fade(t), version)
    BY <1>4, Zenon DEF auto_update
  <2>3. CASE t.value <= 2 * t.amount
    <3> DEFINE u == [t EXCEPT !.value = 0, !.status = "stable",
                              !.next_auto_update_time = Never]
    <3>1. auto_fade(t) = u
      BY <1>1, <2>1, <2>3 DEF auto_fade
    <3>2. Never \in Nat
      BY TicketAssumption, Zenon
    <3>3. /\ u \in Ticket /\ u.current_type = lock_forever /\ u.value = 0
          /\ u.amount = t.amount /\ u.account = t.account /\ u.status = "stable"
          /\ u.target_type = t.target_type /\ u.next_auto_update_time = Never
          /\ u.next_type_downgrade_time = t.next_type_downgrade_time
      BY <1>1, <1>4, <3>2, Zenon DEF Ticket
    <3> HIDE DEF u
    <3>4. update_value(u, version) = u
      BY <3>3, Zenon DEF update_value
    <3>5. Scheduled(u) /\ ValueFits(u, version)
      BY <1>1, <1>4, <3>3, Zenon DEF Scheduled, ValueFits
    <3> QED
      BY <1>1, <1>4, <1>a, <2>2, <3>1, <3>3, <3>4, <3>5 DEF TicketOK
  <2>4. CASE ~ (t.value <= 2 * t.amount)
    <3> DEFINE u == [t EXCEPT !.value = t.value - 2 * t.amount,
                              !.next_auto_update_time = due + ForeverStep]
    <3>1. auto_fade(t) = u
      <4>1. ~ (2 * t.amount <= 0)
        BY <1>1
      <4> QED
        BY <2>1, <2>4, <4>1, Zenon DEF auto_fade
    <3>2. due + ForeverStep \in Nat /\ due + ForeverStep # Never
      BY <1>1, TicketAssumption
    <3>3. /\ t.value - 2 * t.amount \in Nat /\ t.value - 2 * t.amount # 0
          /\ t.value - 2 * t.amount \in {2 * t.amount, 4 * t.amount, 6 * t.amount}
      BY <1>1, <1>4, <2>4 DEF ValueFits
    <3>4. /\ u \in Ticket /\ u.current_type = lock_forever
          /\ u.value = t.value - 2 * t.amount
          /\ u.amount = t.amount /\ u.account = t.account /\ u.status = "withdrawing"
          /\ u.target_type = t.target_type /\ u.next_auto_update_time # Never
          /\ u.next_type_downgrade_time = t.next_type_downgrade_time
      BY <1>1, <1>4, <3>2, <3>3, Zenon DEF Ticket
    <3> HIDE DEF u
    <3>5. update_value(u, version) = u
      BY <3>4, Zenon DEF update_value
    <3>6. Scheduled(u) /\ ValueFits(u, version)
      BY <1>1, <1>4, <3>3, <3>4, Zenon DEF Scheduled, ValueFits, lock_forever
    <3>7. u.value <= t.value
      BY <1>1, <3>4
    <3> QED
      BY <1>4, <1>a, <2>2, <3>1, <3>4, <3>5, <3>6, <3>7, Zenon DEF TicketOK
  <2> QED
    BY <2>3, <2>4, Zenon
<1>5. CASE t.status = "withdrawing" /\ t.current_type # lock_forever
  <2>1. /\ t.current_type # liquid /\ t.target_type <= t.current_type
        /\ t.next_type_downgrade_time = due
    BY <1>1, <1>5, Zenon DEF Refundable, Scheduled
  <2>2. auto_update(t) = update_value(auto_downgrade(t), version)
    BY <1>5, Zenon DEF auto_update
  <2>3. CASE t.current_type = t.target_type
    <3> DEFINE u == [t EXCEPT !.status = "stable",
                              !.next_type_downgrade_time = Never,
                              !.next_auto_update_time = Never]
    <3>1. auto_downgrade(t) = u
      BY <2>3, Zenon DEF auto_downgrade
    <3>2. Never \in Nat
      BY TicketAssumption, Zenon
    <3>3. u \in Ticket /\ Scheduled(u) /\ u.current_type # lock_forever
      BY <1>1, <1>5, <2>3, <3>2, Zenon DEF Ticket, Scheduled
    <3>d. u.account = t.account /\ u.amount = t.amount
      BY <1>1, Zenon DEF Ticket
    <3> HIDE DEF u
    <3> QED
      BY <1>5, <2>2, <3>1, <3>3, <3>d, UpdateValueOK
  <2>4. CASE t.current_type # t.target_type
    <3> DEFINE lower == t.current_type - 1
               next == due + SecondsToDowngrade[lower]
               u == [t EXCEPT !.current_type = lower,
                              !.next_type_downgrade_time = next,
                              !.next_auto_update_time = next]
    <3>1. auto_downgrade(t) = u
      BY <2>1, <2>4, Zenon DEF auto_downgrade
    <3>2. lower \in 0..2 /\ t.target_type <= lower
      BY <1>1, <1>5, <2>1, <2>4 DEF liquid, lock_forever
    <3>3. next \in Nat /\ next # Never
      BY <1>1, <3>2, TicketAssumption
    <3>4. lower \in ticket_type /\ lower # lock_forever
      BY <3>2 DEF ticket_type, liquid, lock_forever
    <3> HIDE DEF lower, next
    <3>5. u \in Ticket /\ Scheduled(u) /\ u.current_type # lock_forever
      BY <1>1, <1>5, <3>2, <3>3, <3>4, Zenon DEF Ticket, Scheduled
    <3>d. u.account = t.account /\ u.amount = t.amount
      BY <1>1, Zenon DEF Ticket
    <3> HIDE DEF u
    <3> QED
      BY <1>5, <2>2, <3>1, <3>5, <3>d, UpdateValueOK
  <2> QED
    BY <2>3, <2>4, Zenon
<1> QED
  BY <1>1, <1>2, <1>3, <1>4, <1>5, Zenon

(* The invariant holds at the start.                                       *)
LEMMA TicketInit == HInit => TicketInv
BY TicketAssumption DEF HInit, Init, TicketInv, TypeOK, NothingOverdue

(* Every step keeps the invariant.                                         *)
LEMMA TicketStep == TicketInv /\ [HNext]_hvars => TicketInv'
<1> SUFFICES ASSUME TicketInv, [HNext]_hvars PROVE TicketInv'
  OBVIOUS
<1> USE DEF TicketInv
<1>0. /\ now \in 0..MaxTime /\ MaxTime \in Nat /\ version \in {1, 2}
      /\ next_id \in Nat /\ MaxTickets \in Nat
      /\ \A i \in DOMAIN tickets :
            /\ tickets[i] \in Ticket /\ Scheduled(tickets[i])
            /\ TicketOK(tickets[i], version) /\ i \in 1..(next_id - 1)
            /\ tickets[i].account \in Account /\ tickets[i].amount \in Nat \ {0}
            /\ tickets[i].next_auto_update_time \in Nat
  BY TicketAssumption DEF TypeOK, Ticket, TicketOK
<1>1. ASSUME NEW a \in Account, NEW type \in ticket_type, NEW amount \in Amount,
             ticket_create(a, type, amount)
      PROVE  TicketInv'
  <2> DEFINE t == init_new(a, type, amount)
  <2>1. amount \in Nat \ {0}
    BY TicketAssumption, Zenon
  <2>2. TicketOK(t, version) /\ t.next_auto_update_time > now /\ t \in Ticket
    BY <1>0, <1>1, <2>1, InitNewOK, Zenon DEF ticket_create, TicketOK
  <2> HIDE DEF t
  <2>3. /\ DOMAIN tickets' = DOMAIN tickets \cup {next_id}
        /\ \A i \in DOMAIN tickets' : tickets'[i] = IF i = next_id THEN t ELSE tickets[i]
        /\ UNCHANGED <<now, version, loop>> /\ loop = "idle"
        /\ next_id' = next_id + 1 /\ next_id <= MaxTickets
    BY <1>1, Zenon DEF ticket_create, With, t
  <2>4. balance' \in [Account -> Nat]
    BY <1>1, <2>1 DEF ticket_create, TypeOK
  <2> QED
    BY <1>0, <2>2, <2>3, <2>4 DEF TypeOK, NothingOverdue
<1>2. ASSUME NEW id \in DOMAIN tickets, NEW type \in ticket_type,
             ticket_update(id, type), touched' = Changed
      PROVE  TicketInv'
  <2> DEFINE u == update_target_type(tickets[id], type)
  <2>1. TicketOK(u, version) /\ u \in Ticket
    BY <1>0, <1>2, UpdateTargetOK, Zenon DEF ticket_update, CanUpdate, TicketOK
  <2> HIDE DEF u
  <2>2. /\ tickets' = [tickets EXCEPT ![id] = u]
        /\ UNCHANGED <<now, version, balance, next_id>>
        /\ loop = "idle" /\ loop' = "update"
    BY <1>2, Zenon DEF ticket_update, CanUpdate, u
  <2>3. /\ DOMAIN tickets' = DOMAIN tickets
        /\ \A i \in DOMAIN tickets' : tickets'[i] = IF i = id THEN u ELSE tickets[i]
    BY <2>2, Zenon
  <2>4. \A i \in DOMAIN tickets' \ touched' : tickets'[i] = tickets[i]
    BY <1>2, <2>3, Zenon DEF Changed
  <2> QED
    BY <1>0, <2>1, <2>2, <2>3, <2>4, Zenon DEF TypeOK, NothingOverdue
<1>3. ASSUME NEW id \in DOMAIN tickets, NEW type \in ticket_type,
             NEW amount \in Amount, ticket_split(id, type, amount),
             touched' = Changed
      PROVE  TicketInv'
  <2> DEFINE new == init_split(tickets[id], type, amount)
             rest == adjust_amount(tickets[id], -amount)
  <2>0. amount \in Nat \ {0}
    BY TicketAssumption, Zenon
  <2>1. TicketOK(new, version) /\ new \in Ticket
    BY <1>0, <1>3, <2>0, InitSplitOK, Zenon DEF ticket_split, CanUpdate, TicketOK
  <2>2. TicketOK(rest, version) /\ rest \in Ticket
    BY <1>0, <1>3, <2>0, AdjustAmountOK, Zenon DEF ticket_split, CanUpdate, TicketOK
  <2> HIDE DEF new, rest
  <2>3. /\ DOMAIN tickets' = DOMAIN tickets \cup {next_id}
        /\ \A i \in DOMAIN tickets' :
              tickets'[i] = CASE i = next_id -> new
                              [] i = id      -> rest
                              [] OTHER       -> tickets[i]
        /\ UNCHANGED <<now, version, balance>>
        /\ next_id' = next_id + 1 /\ next_id <= MaxTickets
        /\ loop = "idle" /\ loop' = "update"
    BY <1>3, Zenon DEF ticket_split, CanUpdate, new, rest
  <2>4. \A i \in DOMAIN tickets' \ touched' :
           i \in DOMAIN tickets /\ tickets'[i] = tickets[i]
    BY <1>3, <2>3, Zenon DEF Changed
  <2>5. \A i \in DOMAIN tickets' : TicketOK(tickets'[i], version) /\ tickets'[i] \in Ticket
    BY <1>0, <2>1, <2>2, <2>3, Zenon
  <2>6. DOMAIN tickets' \subseteq 1..(next_id' - 1) /\ next_id' \in 1..(MaxTickets + 1)
    BY <1>0, <2>3
  <2> QED
    BY <1>0, <2>3, <2>4, <2>5, <2>6, Zenon DEF TypeOK, NothingOverdue
<1>4. ASSUME NEW d \in Steps, apply_block(d) PROVE TicketInv'
  <2>1. d \in Nat
    BY TicketAssumption, Zenon
  <2> QED
    BY <1>0, <1>4, <2>1 DEF apply_block, TypeOK, NothingOverdue
<1>5. ASSUME NEW id \in DOMAIN tickets, refund_ticket(id), touched' = touched
      PROVE  TicketInv'
  <2>1. balance' \in [Account -> Nat]
    BY <1>0, <1>5 DEF refund_ticket, TypeOK
  <2>2. /\ DOMAIN tickets' = DOMAIN tickets \ {id}
        /\ \A i \in DOMAIN tickets' : tickets'[i] = tickets[i]
        /\ UNCHANGED <<now, version, next_id, loop>>
        /\ loop \in {"block", "update"}
    BY <1>5, Zenon DEF refund_ticket, Without, Due
  <2> QED
    BY <1>0, <1>5, <2>1, <2>2, Zenon DEF TypeOK, NothingOverdue
<1>6. ASSUME NEW id \in DOMAIN tickets, update_ticket(id), touched' = touched
      PROVE  TicketInv'
  <2> DEFINE u == auto_update(tickets[id])
  <2>1. TicketOK(u, version) /\ u \in Ticket
    BY <1>0, <1>6, AutoUpdateOK, Zenon DEF update_ticket, Due, TicketOK
  <2> HIDE DEF u
  <2>2. /\ tickets' = [tickets EXCEPT ![id] = u]
        /\ UNCHANGED <<now, version, balance, next_id, loop>>
        /\ loop \in {"block", "update"} /\ tickets[id].next_auto_update_time <= now
    BY <1>6, Zenon DEF update_ticket, Due, u
  <2>3. /\ DOMAIN tickets' = DOMAIN tickets
        /\ \A i \in DOMAIN tickets' : tickets'[i] = IF i = id THEN u ELSE tickets[i]
    BY <2>2, Zenon
  <2>4. loop = "update" => id \in touched
    BY <1>0, <2>2
  <2> QED
    BY <1>0, <1>6, <2>1, <2>2, <2>3, <2>4, Zenon DEF TypeOK, NothingOverdue
<1>7. CASE end_process_tickets
  BY <1>0, <1>7, Zenon DEF end_process_tickets, TypeOK, NothingOverdue
<1>8. CASE process_hf_2262
  <2>1. /\ DOMAIN tickets' = DOMAIN tickets /\ version' = 2 /\ version = 1
        /\ \A i \in DOMAIN tickets' :
              tickets'[i] = IF tickets[i].current_type = liquid
                            THEN [tickets[i] EXCEPT !.value = 0] ELSE tickets[i]
        /\ UNCHANGED <<now, balance, next_id>>
        /\ loop = "maintenance" /\ loop' = "idle"
    BY <1>8, Zenon DEF process_hf_2262
  <2>2. ASSUME NEW i \in DOMAIN tickets
        PROVE  /\ TicketOK(tickets'[i], 2) /\ tickets'[i] \in Ticket
               /\ tickets'[i].next_auto_update_time = tickets[i].next_auto_update_time
    <3> DEFINE t == tickets[i]
    <3>1. t \in Ticket /\ Scheduled(t) /\ ValueFits(t, 1) /\ t.amount \in Nat
      BY <1>0, <2>1, Zenon DEF TicketOK
    <3>2. CASE t.current_type = liquid
      <4> DEFINE u == [t EXCEPT !.value = 0]
      <4>1. u \in Ticket /\ Scheduled(u) /\ u.current_type = liquid
            /\ u.value = 0 /\ u.amount = t.amount
            /\ u.next_auto_update_time = t.next_auto_update_time
        BY <3>1, <3>2, Zenon DEF Ticket, Scheduled
      <4>2. ValueFits(u, 2)
        BY <3>1, <4>1 DEF ValueFits, value_multiplier, liquid, lock_forever
      <4> QED
        BY <2>1, <3>2, <4>1, <4>2, Zenon DEF TicketOK
    <3>3. CASE t.current_type # liquid
      <4>1. ValueFits(t, 2)
        BY <3>1, <3>3, Zenon DEF ValueFits, value_multiplier, liquid
      <4> QED
        BY <2>1, <3>1, <3>3, <4>1, Zenon DEF TicketOK
    <3> QED
      BY <3>2, <3>3, Zenon
  <2> QED
    BY <1>0, <2>1, <2>2, Zenon DEF TypeOK, NothingOverdue
<1>9. CASE end_block
  BY <1>0, <1>9, Zenon DEF end_block, TypeOK, NothingOverdue
<1>10. CASE UNCHANGED hvars
  BY <1>10, Zenon DEF hvars, vars, TypeOK, NothingOverdue
<1>11. HNext => /\ Next
                /\ loop = "idle" => touched' = Changed
                /\ loop # "idle" => touched' = touched
  BY Zenon DEF HNext
<1> QED
  <2>1. \A id, type : ticket_update(id, type) => loop = "idle"
    BY Zenon DEF ticket_update, CanUpdate
  <2>2. \A id, type, amount : ticket_split(id, type, amount) => loop = "idle"
    BY Zenon DEF ticket_split, CanUpdate
  <2>3. \A id : refund_ticket(id) \/ update_ticket(id) => loop # "idle"
    BY Zenon DEF refund_ticket, update_ticket, Due
  <2> QED
    BY <1>1, <1>2, <1>3, <1>4, <1>5, <1>6, <1>7, <1>8, <1>9, <1>10, <1>11,
       <2>1, <2>2, <2>3
       DEF Next, Operation, Loop

(* Every behaviour of the tickets satisfies the invariant.                 *)
THEOREM TicketInvariant == HSpec => []TicketInv
<1>1. HInit => TicketInv
  BY TicketInit, Zenon
<1>2. TicketInv /\ [HNext]_hvars => TicketInv'
  BY TicketStep, Zenon
<1> QED
  BY <1>1, <1>2, PTL DEF HSpec

(* Status, types and times of every ticket fit together, whatever sequence *)
(* of updates, splits and automatic updates it went through.               *)
THEOREM SchedulesConsistent == HSpec => []ScheduleIsConsistent
<1>1. TicketInv => ScheduleIsConsistent
  BY Zenon DEF TicketInv, TicketOK, ScheduleIsConsistent
<1> QED
  BY <1>1, TicketInvariant, PTL

(* Every stored value is that of the current type, amount and version.     *)
THEOREM ValuesFollowTypes == HSpec => []ValueFollowsType
<1>1. TicketInv => ValueFollowsType
  BY Zenon DEF TicketInv, TicketOK, ValueFollowsType
<1> QED
  BY <1>1, TicketInvariant, PTL

(* After every block no ticket is overdue.                                 *)
THEOREM NeverOverdue == HSpec => []NothingOverdue
<1>1. TicketInv => NothingOverdue
  BY Zenon DEF TicketInv
<1> QED
  BY <1>1, TicketInvariant, PTL

(* What ticket_evaluator.cpp says of its call of process_tickets: other    *)
(* tickets are not affected.                                               *)
THEOREM UpdateIsLocal == HSpec => UpdateProcessesOwnTickets
<1>1. TicketInv /\ [HNext]_hvars =>
        [loop = "update" =>
            \A i \in DOMAIN tickets \ touched :
                i \in DOMAIN tickets' /\ tickets'[i] = tickets[i]]_hvars
  <2> SUFFICES ASSUME TicketInv, HNext, loop = "update",
                      NEW i \in DOMAIN tickets \ touched
               PROVE  i \in DOMAIN tickets' /\ tickets'[i] = tickets[i]
    OBVIOUS
  <2>1. ~ (tickets[i].next_auto_update_time <= now)
    BY TicketAssumption DEF TicketInv, TypeOK, Ticket
  <2>2. \A id \in DOMAIN tickets : Due(id) => id # i
    BY <2>1, Zenon DEF Due
  <2>3. ASSUME NEW id \in DOMAIN tickets, refund_ticket(id)
        PROVE  i \in DOMAIN tickets' /\ tickets'[i] = tickets[i]
    BY <2>2, <2>3, Zenon DEF refund_ticket, Without
  <2>4. ASSUME NEW id \in DOMAIN tickets, update_ticket(id)
        PROVE  i \in DOMAIN tickets' /\ tickets'[i] = tickets[i]
    BY <2>2, <2>4, Zenon DEF update_ticket
  <2>5. CASE end_process_tickets
    BY <2>5, Zenon DEF end_process_tickets
  <2>6. Loop
    BY DEF HNext, Next, Operation, ticket_create, ticket_update, ticket_split,
           CanUpdate, apply_block, process_hf_2262, end_block
  <2> QED
    BY <2>3, <2>4, <2>5, <2>6, Zenon DEF Loop
<1> QED
  BY <1>1, TicketInvariant, PTL DEF HSpec, UpdateProcessesOwnTickets

(* Tokens that are locked for ever never come back, and their ticket's     *)
(* value never rises.                                                      *)
THEOREM ForeverIsForever == HSpec => LockedForever
<1>1. TicketInv /\ [HNext]_hvars =>
        [\A i \in DOMAIN tickets :
            tickets[i].current_type = lock_forever =>
                /\ i \in DOMAIN tickets'
                /\ tickets'[i].current_type = lock_forever
                /\ tickets'[i].amount = tickets[i].amount
                /\ tickets'[i].value <= tickets[i].value]_hvars
  <2> SUFFICES ASSUME TicketInv, Next, NEW i \in DOMAIN tickets,
                      tickets[i].current_type = lock_forever
               PROVE  /\ i \in DOMAIN tickets'
                      /\ tickets'[i].current_type = lock_forever
                      /\ tickets'[i].amount = tickets[i].amount
                      /\ tickets'[i].value <= tickets[i].value
    BY Zenon DEF HNext
  <2> DEFINE Kept == i \in DOMAIN tickets' /\ tickets'[i] = tickets[i]
  <2>0. /\ TicketOK(tickets[i], version) /\ tickets[i].value \in Nat
        /\ i \in 1..(next_id - 1) /\ next_id \in Nat
        /\ now \in 0..MaxTime /\ version \in {1, 2}
    BY TicketAssumption DEF TicketInv, TypeOK, Ticket
  <2>1. ASSUME NEW a, NEW type, NEW amount, ticket_create(a, type, amount)
        PROVE  Kept
    BY <2>0, <2>1 DEF ticket_create, With
  <2>2. ASSUME NEW id \in DOMAIN tickets, NEW type, ticket_update(id, type)
        PROVE  Kept
    BY <2>2, Zenon DEF ticket_update, CanUpdate
  <2>3. ASSUME NEW id \in DOMAIN tickets, NEW type, NEW amount,
               ticket_split(id, type, amount)
        PROVE  Kept
    <3>1. id # i /\ next_id # i
      BY <2>0, <2>3 DEF ticket_split, CanUpdate
    <3> QED
      BY <2>3, <3>1, Zenon DEF ticket_split
  <2>4. ASSUME NEW id \in DOMAIN tickets, refund_ticket(id)
        PROVE  Kept
    BY <2>4 DEF refund_ticket, Refundable, Without, liquid, lock_forever
  <2>5. ASSUME NEW id \in DOMAIN tickets, update_ticket(id), id # i
        PROVE  Kept
    BY <2>5, Zenon DEF update_ticket
  <2>6. ASSUME update_ticket(i)
        PROVE  /\ i \in DOMAIN tickets'
               /\ tickets'[i].current_type = lock_forever
               /\ tickets'[i].amount = tickets[i].amount
               /\ tickets'[i].value <= tickets[i].value
    <3>1. tickets'[i] = auto_update(tickets[i]) /\ i \in DOMAIN tickets'
      BY <2>6, Zenon DEF update_ticket
    <3>2. ~ Refundable(tickets[i]) /\ tickets[i].next_auto_update_time <= now
      BY <2>6, Zenon DEF update_ticket, Due
    <3> QED
      BY <2>0, <3>1, <3>2, AutoUpdateOK, Zenon
  <2>7. ASSUME process_hf_2262 PROVE Kept
    BY <2>7 DEF process_hf_2262, liquid, lock_forever
  <2>8. ASSUME end_process_tickets \/ end_block \/ \E d \in Steps : apply_block(d)
        PROVE  Kept
    BY <2>8, Zenon DEF end_process_tickets, end_block, apply_block
  <2>9. Kept => tickets'[i].value <= tickets[i].value
    BY <2>0
  <2> QED
    BY <2>1, <2>2, <2>3, <2>4, <2>5, <2>6, <2>7, <2>8, <2>9, Zenon
       DEF Next, Operation, Loop
<1> QED
  BY <1>1, TicketInvariant, PTL DEF HSpec, LockedForever

--------------------------------------------------------------------------------
(* The statistics.  A total of an account moves by what the tickets of the *)
(* step count for; what process_tickets has still to write to the global   *)
(* totals is in delta.                                                     *)
StatRecord ==
    [total_core_inactive : Int, total_core_pob : Int, total_core_pol : Int,
     total_pob_value : Int, total_pol_value : Int]

(* The records of process_tickets hold integers.                           *)
StatTypes ==
    /\ stats \in [Account -> StatRecord]
    /\ global \in [total_pob : Int, total_inactive : Int]
    /\ delta \in [pob : Int, inactive : Int]

(* Each statistic of an account is the sum over its tickets.               *)
TotalsMatch ==
    \A a \in Account : \A k \in Statistic : stats[a][k] = SumFunction(Shares(a, k))

(* The global totals, and what process_tickets has put aside for them in   *)
(* its two deltas, are the sums over the accounts; outside the loops       *)
(* nothing is put aside.                                                   *)
DeltasMatch ==
    /\ global.total_pob + delta.pob = SumFunction(StatOfAll("total_core_pob"))
    /\ global.total_inactive + delta.inactive = SumFunction(StatOfAll("total_core_inactive"))
    /\ loop \in {"idle", "maintenance"} => delta = [pob |-> 0, inactive |-> 0]

(* The inductive invariant of the statistics.                              *)
StatInv == TicketInv /\ StatTypes /\ TotalsMatch /\ DeltasMatch

(* A ticket counts for an integer.                                         *)
LEMMA ShareType ==
    ASSUME NEW t \in Ticket, NEW k \in Statistic
    PROVE  Share(t, k) \in Int
<1>1. t.amount \in Int /\ t.value \in Int
  BY DEF Ticket
<1> QED BY <1>1 DEF Share, Statistic

(* What the tickets of a table count for.                                  *)
SharesIn(tab, a, k) ==
    [i \in DOMAIN tab |-> IF tab[i].account = a THEN Share(tab[i], k) ELSE 0]

(* A finite table of tickets.                                              *)
IsTable(tab) == IsFiniteSet(DOMAIN tab) /\ \A i \in DOMAIN tab : tab[i] \in Ticket

(* They are integers, and finitely many.                                   *)
LEMMA SharesWeigh ==
    ASSUME NEW tab, IsTable(tab), NEW a, NEW k \in Statistic
    PROVE  IsWeight(SharesIn(tab, a, k)) /\ DOMAIN SharesIn(tab, a, k) = DOMAIN tab
<1>1. DOMAIN SharesIn(tab, a, k) = DOMAIN tab
  BY Zenon DEF SharesIn
<1>2. \A i \in DOMAIN tab : Share(tab[i], k) \in Int
  BY ShareType, Zenon DEF IsTable
<1>3. \A i \in DOMAIN tab : SharesIn(tab, a, k)[i] \in Int
  BY <1>2 DEF SharesIn
<1> QED BY <1>1, <1>3, Zenon DEF IsWeight, IsTable

(* A ticket is written again for the same account (ticket_update,          *)
(* process_tickets): the account's sum moves by the difference.            *)
LEMMA ShareChanged ==
    ASSUME NEW old, IsTable(old), NEW new, NEW id \in DOMAIN old, NEW u \in Ticket,
           u.account = old[id].account,
           DOMAIN new = DOMAIN old, new[id] = u,
           \A i \in DOMAIN old : i # id => new[i] = old[i],
           NEW a, NEW k \in Statistic
    PROVE  SumFunction(SharesIn(new, a, k)) = SumFunction(SharesIn(old, a, k))
              + (IF u.account = a THEN Share(u, k) - Share(old[id], k) ELSE 0)
<1> DEFINE f == SharesIn(old, a, k)  g == SharesIn(new, a, k)
           v == IF u.account = a THEN Share(u, k) - Share(old[id], k) ELSE 0
<1>1. Share(u, k) \in Int /\ Share(old[id], k) \in Int
  BY ShareType, Zenon DEF IsTable
<1>2. v \in Int
  BY <1>1
<1>3. IsWeight(f) /\ DOMAIN f = DOMAIN old
  BY SharesWeigh, Zenon
<1>4. DOMAIN g = DOMAIN f /\ id \in DOMAIN f /\ \A i \in DOMAIN f : i # id => g[i] = f[i]
  BY <1>3, Zenon DEF SharesIn
<1>5. g[id] = f[id] + v
  BY <1>1 DEF SharesIn
<1> HIDE DEF f, g, v
<1>6. SumFunction(g) = SumFunction(f) + v
  BY <1>2, <1>3, <1>4, <1>5, TotalChanged, Zenon
<1> QED BY <1>6, Zenon DEF f, g, v

(* A ticket is created.                                                    *)
LEMMA ShareAdded ==
    ASSUME NEW old, IsTable(old), NEW new, NEW id, id \notin DOMAIN old, NEW u \in Ticket,
           DOMAIN new = DOMAIN old \cup {id}, new[id] = u,
           \A i \in DOMAIN old : new[i] = old[i],
           NEW a, NEW k \in Statistic
    PROVE  SumFunction(SharesIn(new, a, k)) = SumFunction(SharesIn(old, a, k))
              + (IF u.account = a THEN Share(u, k) ELSE 0)
<1> DEFINE f == SharesIn(old, a, k)  g == SharesIn(new, a, k)
           v == IF u.account = a THEN Share(u, k) ELSE 0
<1>2. v \in Int
  BY ShareType
<1>3. IsWeight(f) /\ DOMAIN f = DOMAIN old
  BY SharesWeigh, Zenon
<1>4. DOMAIN g = DOMAIN f \cup {id} /\ id \notin DOMAIN f /\ \A i \in DOMAIN f : g[i] = f[i]
  BY <1>3, Zenon DEF SharesIn
<1>5. g[id] = v
  BY Zenon DEF SharesIn
<1> HIDE DEF f, g, v
<1>6. SumFunction(g) = SumFunction(f) + v
  BY <1>2, <1>3, <1>4, <1>5, TotalAdded
<1> QED BY <1>6, Zenon DEF f, g, v

(* A ticket is removed, as process_tickets does when it refunds one.       *)
LEMMA ShareRemoved ==
    ASSUME NEW old, IsTable(old), NEW new, NEW id \in DOMAIN old,
           DOMAIN new = DOMAIN old \ {id},
           \A i \in DOMAIN new : new[i] = old[i],
           NEW a, NEW k \in Statistic
    PROVE  SumFunction(SharesIn(new, a, k)) = SumFunction(SharesIn(old, a, k))
              + (IF old[id].account = a THEN -Share(old[id], k) ELSE 0)
<1> DEFINE f == SharesIn(old, a, k)  g == SharesIn(new, a, k)
           v == IF old[id].account = a THEN -Share(old[id], k) ELSE 0
<1>1. Share(old[id], k) \in Int
  BY ShareType, Zenon DEF IsTable
<1>2. v \in Int
  BY <1>1
<1>3. IsWeight(f) /\ DOMAIN f = DOMAIN old
  BY SharesWeigh, Zenon
<1>4. DOMAIN g = DOMAIN f \ {id} /\ id \in DOMAIN f /\ \A i \in DOMAIN g : g[i] = f[i]
  BY <1>3, Zenon DEF SharesIn
<1>5. f[id] = -v
  BY <1>1 DEF SharesIn
<1> HIDE DEF f, g, v
<1>6. SumFunction(g) = SumFunction(f) + v
  BY <1>2, <1>3, <1>4, <1>5, TotalRemoved
<1> QED BY <1>6, Zenon DEF f, g, v

(* Ids are below next_id, so there are finitely many tickets.              *)
LEMMA TicketsAreTable == TicketInv => IsTable(tickets)
<1> SUFFICES ASSUME TicketInv PROVE IsTable(tickets)
  OBVIOUS
<1>1. /\ DOMAIN tickets \subseteq 1..(next_id - 1) /\ next_id - 1 \in Nat
      /\ \A i \in DOMAIN tickets : tickets[i] \in Ticket
  BY TicketAssumption DEF TicketInv, TypeOK
<1>2. IsFiniteSet(1..(next_id - 1))
  BY <1>1, FiniteSetFacts, Zenon
<1> QED BY <1>1, <1>2, FiniteSetFacts, Zenon DEF IsTable

(* The shares that the property sums are those of the table of tickets.    *)
LEMMA SharesAreIn == \A a, k : /\ Shares(a, k) = SharesIn(tickets, a, k)
                               /\ Shares(a, k)' = SharesIn(tickets', a, k)
BY Zenon DEF Shares, SharesIn

(* What changes when x more is locked for a term, and its value is y more. *)
PolShare(k, x, y) ==
    IF k = "total_core_pol" THEN x ELSE IF k = "total_pol_value" THEN y ELSE 0

(* A ticket that is not locked for ever counts for the two totals of       *)
(* power-of-locking.                                                       *)
LEMMA TermShare ==
    ASSUME NEW t \in Ticket, t.current_type # lock_forever, NEW k \in Statistic
    PROVE  Share(t, k) = PolShare(k, t.amount, t.value)
BY Zenon DEF Share, PolShare, Statistic, Faded, Burning, Locked

(* In the statistics of c, x more is locked for a term, and y more is its  *)
(* value.                                                                  *)
StatsShift(c, x, y) ==
    /\ stats' \in [Account -> StatRecord]
    /\ \A a \in Account : \A k \in Statistic :
          stats'[a][k] = stats[a][k] + (IF c = a THEN PolShare(k, x, y) ELSE 0)

(* Each statistic of a record is an integer.                               *)
LEMMA StatInts ==
    ASSUME NEW s \in StatRecord, NEW k \in Statistic
    PROVE  s[k] \in Int
BY Zenon DEF StatRecord, Statistic

(* Both totals of power-of-locking of one account move.                    *)
LEMMA StatsMove ==
    ASSUME StatTypes, NEW c \in Account, NEW x \in Int, NEW y \in Int, NEW r \in StatRecord,
           stats' = [stats EXCEPT ![c] = r],
           r.total_core_pol = stats[c].total_core_pol + x,
           r.total_pol_value = stats[c].total_pol_value + y,
           r.total_core_inactive = stats[c].total_core_inactive,
           r.total_core_pob = stats[c].total_core_pob,
           r.total_pob_value = stats[c].total_pob_value
    PROVE  StatsShift(c, x, y)
<1>0. \A a \in Account : stats[a] \in StatRecord
  BY Zenon DEF StatTypes
<1>1. PICK s : s = stats[c]
  OBVIOUS
<1>2. \A k \in Statistic : s[k] \in Int
  BY <1>0, <1>1, StatInts, Zenon
<1>a. \A k \in Statistic : r[k] = s[k] + PolShare(k, x, y)
  BY <1>1, <1>2 DEF Statistic, PolShare
<1>b. stats'[c] = r
  BY Zenon DEF StatTypes
<1>3. /\ stats'[c] \in StatRecord
      /\ \A k \in Statistic : stats'[c][k] = stats[c][k] + PolShare(k, x, y)
  BY <1>1, <1>a, <1>b, Zenon
<1>4. stats' \in [Account -> StatRecord] /\ \A a \in Account : a # c => stats'[a] = stats[a]
  BY <1>3, Zenon DEF StatTypes
<1>5. ASSUME NEW a \in Account, NEW k \in Statistic
      PROVE  stats'[a][k] = stats[a][k] + (IF c = a THEN PolShare(k, x, y) ELSE 0)
  <2>1. stats[a][k] \in Int
    BY <1>0, StatInts, Zenon
  <2>2. CASE c = a
    BY <1>3, <2>2, Zenon
  <2>3. CASE c # a
    BY <1>4, <2>1, <2>3
  <2> QED BY <2>2, <2>3, Zenon
<1> QED BY <1>4, <1>5, Zenon DEF StatsShift

(* A step that only moves term tickets leaves the global totals right.     *)
LEMMA GlobalStands ==
    ASSUME StatTypes, DeltasMatch, NEW c, NEW x \in Int, NEW y \in Int, StatsShift(c, x, y),
           UNCHANGED <<global, delta>>,
           loop' \in {"idle", "maintenance"} => loop \in {"idle", "maintenance"}
    PROVE  DeltasMatch'
<1>1. ASSUME NEW k \in {"total_core_pob", "total_core_inactive"}
      PROVE  StatOfAll(k)' = StatOfAll(k)
  <2>1. k \in Statistic /\ PolShare(k, x, y) = 0
    BY Zenon DEF Statistic, PolShare
  <2>2. \A a \in Account : stats[a][k] \in Int
    BY <2>1, StatInts, Zenon DEF StatTypes
  <2>3. \A a \in Account : stats'[a][k] = stats[a][k]
    BY <2>1, <2>2 DEF StatsShift
  <2> QED BY <2>3, Zenon DEF StatOfAll
<1>2. /\ StatOfAll("total_core_pob")' = StatOfAll("total_core_pob")
      /\ StatOfAll("total_core_inactive")' = StatOfAll("total_core_inactive")
  BY <1>1, Zenon
<1> QED BY <1>2, Zenon DEF DeltasMatch

(* Restat changes each total by what the ticket counts for.                *)
LEMMA RestatShares ==
    ASSUME NEW s \in StatRecord, NEW t \in Ticket, NEW u \in Ticket, u.amount = t.amount,
           t.current_type = lock_forever => t.value > 0 /\ u.current_type = lock_forever,
           t.current_type # lock_forever /\ u.current_type = lock_forever => u.value > 0
    PROVE  /\ Restat(s, t, u) \in StatRecord
           /\ \A k \in Statistic : Restat(s, t, u)[k] = s[k] + (Share(u, k) - Share(t, k))
<1>1. t.amount \in Nat /\ t.value \in Nat /\ u.value \in Nat /\ u.amount = t.amount
  BY Zenon DEF Ticket
<1>2. /\ s.total_core_inactive \in Int /\ s.total_core_pob \in Int /\ s.total_core_pol \in Int
      /\ s.total_pob_value \in Int /\ s.total_pol_value \in Int
  BY Zenon DEF StatRecord
<1>3. CASE t.current_type = lock_forever
  <2> DEFINE gone == IF u.value = 0 THEN t.amount ELSE 0
             r == [s EXCEPT !.total_core_inactive = s.total_core_inactive + gone,
                            !.total_core_pob = s.total_core_pob - gone,
                            !.total_pob_value = s.total_pob_value + u.value - t.value]
  <2>1. Restat(s, t, u) = r
    BY <1>3, Zenon DEF Restat, StatRecord
  <2>2. gone \in Int
    BY <1>1
  <2>3. /\ r.total_core_inactive = s.total_core_inactive + gone
        /\ r.total_core_pob = s.total_core_pob - gone
        /\ r.total_pob_value = s.total_pob_value + u.value - t.value
        /\ r.total_core_pol = s.total_core_pol /\ r.total_pol_value = s.total_pol_value
    <3> HIDE DEF gone
    <3> QED BY Zenon DEF StatRecord
  <2>4. r \in StatRecord
    <3> DEFINE a == s.total_core_inactive + gone  b == s.total_core_pob - gone
               c == s.total_pob_value + u.value - t.value
    <3>1. a \in Int /\ b \in Int /\ c \in Int
      BY <1>1, <1>2, <2>2
    <3>2. r = [s EXCEPT !.total_core_inactive = a, !.total_core_pob = b, !.total_pob_value = c]
      OBVIOUS
    <3> HIDE DEF a, b, c, r
    <3> QED BY <3>1, <3>2, Zenon DEF StatRecord
  <2> HIDE DEF r
  <2> QED BY <1>1, <1>2, <1>3, <2>1, <2>3, <2>4 DEF Share, Statistic, Faded, Burning, Locked
<1>4. CASE t.current_type # lock_forever /\ u.current_type = lock_forever
  <2> DEFINE r == [s EXCEPT !.total_core_pob = s.total_core_pob + t.amount,
                            !.total_core_pol = s.total_core_pol - t.amount,
                            !.total_pob_value = s.total_pob_value + u.value,
                            !.total_pol_value = s.total_pol_value - t.value]
  <2>1. Restat(s, t, u) = r
    BY <1>4, Zenon DEF Restat, StatRecord
  <2>3. /\ r.total_core_pob = s.total_core_pob + t.amount
        /\ r.total_core_pol = s.total_core_pol - t.amount
        /\ r.total_pob_value = s.total_pob_value + u.value
        /\ r.total_pol_value = s.total_pol_value - t.value
        /\ r.total_core_inactive = s.total_core_inactive
    BY Zenon DEF StatRecord
  <2>4. r \in StatRecord
    <3> DEFINE a == s.total_core_pob + t.amount  b == s.total_core_pol - t.amount
               c == s.total_pob_value + u.value  d == s.total_pol_value - t.value
    <3>1. a \in Int /\ b \in Int /\ c \in Int /\ d \in Int
      BY <1>1, <1>2
    <3>2. r = [s EXCEPT !.total_core_pob = a, !.total_core_pol = b,
                        !.total_pob_value = c, !.total_pol_value = d]
      OBVIOUS
    <3> HIDE DEF a, b, c, d, r
    <3> QED BY <3>1, <3>2, Zenon DEF StatRecord
  <2> HIDE DEF r
  <2> QED BY <1>1, <1>2, <1>4, <2>1, <2>3, <2>4 DEF Share, Statistic, Faded, Burning, Locked
<1>5. CASE t.current_type # lock_forever /\ u.current_type # lock_forever
  <2> DEFINE r == [s EXCEPT !.total_pol_value = s.total_pol_value + u.value - t.value]
  <2>1. Restat(s, t, u) = r
    BY <1>5, Zenon DEF Restat, StatRecord
  <2>3. /\ r.total_pol_value = s.total_pol_value + u.value - t.value
        /\ r.total_core_inactive = s.total_core_inactive
        /\ r.total_core_pob = s.total_core_pob
        /\ r.total_core_pol = s.total_core_pol
        /\ r.total_pob_value = s.total_pob_value
    BY Zenon DEF StatRecord
  <2>4. r \in StatRecord
    <3>1. s.total_pol_value + u.value - t.value \in Int
      BY <1>1, <1>2
    <3> QED BY <3>1, Zenon DEF StatRecord
  <2> HIDE DEF r
  <2> QED BY <1>1, <1>2, <1>5, <2>1, <2>3, <2>4 DEF Share, Statistic, Faded, Burning, Locked
<1> QED BY <1>3, <1>4, <1>5, Zenon

(* The sums over the tickets of account c move the same way.               *)
SharesShift(c, x, y) ==
    \A a \in Account : \A k \in Statistic :
        SumFunction(SharesIn(tickets', a, k))
            = SumFunction(SharesIn(tickets, a, k)) + (IF c = a THEN PolShare(k, x, y) ELSE 0)

(* A step that moves both alike keeps the statistics right.                *)
LEMMA TermStep ==
    ASSUME StatInv, NEW c, NEW x \in Int, NEW y \in Int,
           StatsShift(c, x, y), SharesShift(c, x, y), UNCHANGED <<global, delta>>,
           loop' \in {"idle", "maintenance"} => loop \in {"idle", "maintenance"}
    PROVE  StatTypes' /\ TotalsMatch' /\ DeltasMatch'
<1>0. StatTypes /\ TotalsMatch /\ DeltasMatch
  BY Zenon DEF StatInv
<1>1. StatTypes'
  BY <1>0, Zenon DEF StatTypes, StatsShift
<1>2. DeltasMatch'
  BY <1>0, GlobalStands, Zenon
<1>3. ASSUME NEW a \in Account, NEW k \in Statistic
      PROVE  stats'[a][k] = SumFunction(Shares(a, k)')
  <2>1. stats[a][k] = SumFunction(SharesIn(tickets, a, k))
    BY <1>0, SharesAreIn, Zenon DEF TotalsMatch
  <2>2. stats'[a][k] = SumFunction(SharesIn(tickets', a, k))
    BY <2>1, Zenon DEF StatsShift, SharesShift
  <2> QED BY <2>2, SharesAreIn, Zenon
<1>4. TotalsMatch'
  BY <1>3, Zenon DEF TotalsMatch
<1> QED BY <1>1, <1>2, <1>4, Zenon

(* Assigning total_core_pol and total_pol_value moves these two.           *)
LEMMA PolMoves ==
    ASSUME StatTypes, NEW c \in Account, NEW x \in Int, NEW y \in Int,
           stats' = [stats EXCEPT ![c].total_core_pol = @ + x, ![c].total_pol_value = @ + y]
    PROVE  StatsShift(c, x, y)
<1>0. stats[c] \in StatRecord /\ DOMAIN stats = Account
  BY Zenon DEF StatTypes
<1>1. PICK s : s = stats[c]
  OBVIOUS
<1>2. PICK p, q : p = s.total_core_pol + x /\ q = s.total_pol_value + y
  OBVIOUS
<1>3. s.total_core_pol \in Int /\ s.total_pol_value \in Int
  BY <1>0, <1>1, Zenon DEF StatRecord
<1>4. p \in Int /\ q \in Int
  BY <1>2, <1>3
<1>5. PICK r : r = [s EXCEPT !.total_core_pol = p, !.total_pol_value = q]
  OBVIOUS
<1>6. r \in StatRecord
  BY <1>0, <1>1, <1>4, <1>5, Zenon DEF StatRecord
<1>7. /\ r.total_core_pol = p /\ r.total_pol_value = q
      /\ r.total_core_inactive = s.total_core_inactive
      /\ r.total_core_pob = s.total_core_pob /\ r.total_pob_value = s.total_pob_value
  BY <1>0, <1>1, <1>5, Zenon DEF StatRecord
<1>8. stats' = [stats EXCEPT ![c] = r]
  <2>1. stats' = [stats EXCEPT ![c] = [stats[c] EXCEPT !.total_core_pol = @ + x,
                                                       !.total_pol_value = @ + y]]
    BY <1>0, Zenon
  <2>2. r = [stats[c] EXCEPT !.total_core_pol = @ + x, !.total_pol_value = @ + y]
    BY <1>0, <1>1, <1>2, <1>5, Zenon DEF StatRecord
  <2> QED BY <2>1, <2>2, Zenon
<1>9. /\ r.total_core_pol = stats[c].total_core_pol + x
      /\ r.total_pol_value = stats[c].total_pol_value + y
      /\ r.total_core_inactive = stats[c].total_core_inactive
      /\ r.total_core_pob = stats[c].total_core_pob
      /\ r.total_pob_value = stats[c].total_pob_value
  BY <1>1, <1>2, <1>7, Zenon
<1> QED BY <1>6, <1>8, <1>9, StatsMove, Zenon

(* AddPolValue moves the value alone.                                      *)
LEMMA ValueMoves ==
    ASSUME StatTypes, NEW c \in Account, NEW y \in Int, stats' = AddPolValue(c, y)
    PROVE  StatsShift(c, 0, y)
<1>0. stats[c] \in StatRecord /\ DOMAIN stats = Account
  BY Zenon DEF StatTypes
<1>1. PICK s : s = stats[c]
  OBVIOUS
<1>2. PICK q : q = s.total_pol_value + y
  OBVIOUS
<1>3. s.total_core_pol + 0 = s.total_core_pol /\ s.total_pol_value \in Int
  BY <1>0, <1>1 DEF StatRecord
<1>4. q \in Int /\ 0 \in Int
  BY <1>2, <1>3
<1>5. PICK r : r = [s EXCEPT !.total_pol_value = q]
  BY Zenon
<1>6. r \in StatRecord
  BY <1>0, <1>1, <1>4, <1>5, Zenon DEF StatRecord
<1>7. /\ r.total_core_pol = s.total_core_pol + 0 /\ r.total_pol_value = q
      /\ r.total_core_inactive = s.total_core_inactive
      /\ r.total_core_pob = s.total_core_pob /\ r.total_pob_value = s.total_pob_value
  BY <1>0, <1>1, <1>3, <1>5, Zenon DEF StatRecord
<1>8. stats' = [stats EXCEPT ![c] = r]
  BY <1>0, <1>1, <1>2, <1>5, Zenon DEF AddPolValue
<1>9. /\ r.total_core_pol = stats[c].total_core_pol + 0
      /\ r.total_pol_value = stats[c].total_pol_value + y
      /\ r.total_core_inactive = stats[c].total_core_inactive
      /\ r.total_core_pob = stats[c].total_core_pob
      /\ r.total_pob_value = stats[c].total_pob_value
  BY <1>1, <1>2, <1>7, Zenon
<1> QED BY <1>4, <1>6, <1>8, <1>9, StatsMove, Zenon

(* What every step needs to know of the tickets.                           *)
LEMMA TicketFacts ==
    ASSUME TicketInv
    PROVE  /\ now \in 0..MaxTime /\ version \in {1, 2} /\ next_id \in Nat
           /\ next_id \notin DOMAIN tickets
           /\ \A i \in DOMAIN tickets :
                 /\ tickets[i] \in Ticket /\ Scheduled(tickets[i])
                 /\ TicketOK(tickets[i], version)
                 /\ tickets[i].account \in Account
                 /\ tickets[i].amount \in Nat /\ tickets[i].value \in Nat
BY TicketAssumption DEF TicketInv, TypeOK, Ticket, TicketOK

(* ticket_create *)
LEMMA CreateStats ==
    ASSUME StatInv, NEW a \in Account, NEW type \in ticket_type, NEW amount \in Amount,
           ticket_create(a, type, amount)
    PROVE  StatTypes' /\ TotalsMatch' /\ DeltasMatch'
<1>0. /\ StatTypes /\ TicketInv /\ IsTable(tickets)
      /\ next_id \notin DOMAIN tickets
      /\ now \in 0..MaxTime /\ version \in {1, 2}
  BY TicketFacts, TicketsAreTable, Zenon DEF StatInv
<1>1. amount \in Nat \ {0} /\ amount \in Int /\ type # liquid
  BY TicketAssumption DEF ticket_create
<1>2. PICK t : t = init_new(a, type, amount)
  OBVIOUS
<1>3. t \in Ticket /\ t.account = a /\ t.amount = amount /\ t.current_type # lock_forever
  BY <1>0, <1>1, <1>2, InitNewOK DEF TicketOK
<1>4. t.value \in Int
  BY <1>3 DEF Ticket
<1>5. /\ DOMAIN tickets' = DOMAIN tickets \cup {next_id} /\ tickets'[next_id] = t
      /\ \A i \in DOMAIN tickets : tickets'[i] = tickets[i]
  BY <1>0, <1>2, Zenon DEF ticket_create, With
<1>6. SharesShift(a, amount, t.value)
  <2> SUFFICES ASSUME NEW b \in Account, NEW k \in Statistic
               PROVE  SumFunction(SharesIn(tickets', b, k))
                        = SumFunction(SharesIn(tickets, b, k))
                            + (IF a = b THEN PolShare(k, amount, t.value) ELSE 0)
    BY Zenon DEF SharesShift
  <2>1. SumFunction(SharesIn(tickets', b, k)) = SumFunction(SharesIn(tickets, b, k))
              + (IF t.account = b THEN Share(t, k) ELSE 0)
    BY <1>0, <1>3, <1>5, ShareAdded
  <2>2. Share(t, k) = PolShare(k, amount, t.value)
    BY <1>3, TermShare, Zenon
  <2> QED BY <1>3, <2>1, <2>2, Zenon
<1>7. StatsShift(a, amount, t.value)
  <2>1. stats' = [stats EXCEPT ![a].total_core_pol = @ + amount,
                               ![a].total_pol_value = @ + t.value]
    BY <1>2, Zenon DEF ticket_create
  <2> QED BY <1>0, <1>1, <1>4, <2>1, PolMoves, Zenon
<1>8. UNCHANGED <<global, delta, loop>>
  BY Zenon DEF ticket_create
<1> QED BY <1>1, <1>4, <1>6, <1>7, <1>8, TermStep, Zenon


(* The part of ticket_update that changes the whole ticket.                *)
LEMMA UpdateStats ==
    ASSUME StatInv, NEW id \in DOMAIN tickets, NEW type \in ticket_type,
           ticket_update(id, type)
    PROVE  StatTypes' /\ TotalsMatch' /\ DeltasMatch'
<1>1. PICK t, u : t = tickets[id] /\ u = update_target_type(t, type)
  BY Zenon
<1>0. /\ StatTypes /\ TicketInv /\ IsTable(tickets)
      /\ now \in 0..MaxTime /\ version \in {1, 2}
      /\ t \in Ticket /\ Scheduled(t) /\ t.account \in Account /\ t.value \in Nat
  BY <1>1, TicketFacts, TicketsAreTable, Zenon DEF StatInv
<1>2. t.current_type # lock_forever /\ t.target_type # type
  BY <1>1, Zenon DEF ticket_update, CanUpdate
<1>3. u \in Ticket /\ u.account = t.account /\ u.amount = t.amount /\ u.current_type # lock_forever
  BY <1>0, <1>1, <1>2, UpdateTargetOK, Zenon DEF TicketOK
<1>4. PICK y : y = u.value - t.value
  OBVIOUS
<1>5. y \in Int /\ u.value \in Int /\ t.value \in Int /\ t.amount \in Int /\ 0 \in Int
  BY <1>0, <1>3, <1>4 DEF Ticket
<1>6. /\ DOMAIN tickets' = DOMAIN tickets /\ tickets'[id] = u
      /\ \A i \in DOMAIN tickets : i # id => tickets'[i] = tickets[i]
  BY <1>1, Zenon DEF ticket_update
<1>7. SharesShift(t.account, 0, y)
  <2> SUFFICES ASSUME NEW b \in Account, NEW k \in Statistic
               PROVE  SumFunction(SharesIn(tickets', b, k))
                        = SumFunction(SharesIn(tickets, b, k))
                            + (IF t.account = b THEN PolShare(k, 0, y) ELSE 0)
    BY Zenon DEF SharesShift
  <2>1. SumFunction(SharesIn(tickets', b, k)) = SumFunction(SharesIn(tickets, b, k))
              + (IF u.account = b THEN Share(u, k) - Share(tickets[id], k) ELSE 0)
    BY <1>0, <1>1, <1>3, <1>6, ShareChanged
  <2>2. /\ Share(t, k) = PolShare(k, t.amount, t.value)
        /\ Share(u, k) = PolShare(k, t.amount, u.value)
    BY <1>0, <1>2, <1>3, TermShare, Zenon
  <2>3. Share(u, k) - Share(t, k) = PolShare(k, 0, y)
    BY <1>4, <1>5, <2>2 DEF PolShare
  <2> QED BY <1>1, <1>3, <2>1, <2>3, Zenon
<1>8. StatsShift(t.account, 0, y)
  <2>1. stats' = AddPolValue(t.account, y)
    BY <1>1, <1>4, Zenon DEF ticket_update
  <2> QED BY <1>0, <1>5, <2>1, ValueMoves, Zenon
<1>9. UNCHANGED <<global, delta>> /\ loop' = "update"
  BY Zenon DEF ticket_update
<1> QED BY <1>5, <1>7, <1>8, <1>9, TermStep, Zenon

(* The part of ticket_update that splits the ticket.                       *)
LEMMA SplitStats ==
    ASSUME StatInv, NEW id \in DOMAIN tickets, NEW type \in ticket_type, NEW amount \in Amount,
           ticket_split(id, type, amount)
    PROVE  StatTypes' /\ TotalsMatch' /\ DeltasMatch'
<1>1. PICK t, new, rest : /\ t = tickets[id] /\ new = init_split(t, type, amount)
                          /\ rest = adjust_amount(t, -amount)
  BY Zenon
<1>0. /\ StatTypes /\ TicketInv /\ IsTable(tickets)
      /\ now \in 0..MaxTime /\ version \in {1, 2} /\ next_id \notin DOMAIN tickets
      /\ t \in Ticket /\ Scheduled(t) /\ t.account \in Account /\ t.value \in Nat
      /\ t.amount \in Nat
  BY <1>1, TicketFacts, TicketsAreTable, Zenon DEF StatInv
<1>2. /\ t.current_type # lock_forever /\ t.target_type # type
      /\ amount \in Nat \ {0} /\ amount < t.amount
  BY <1>1, TicketAssumption, Zenon DEF ticket_split, CanUpdate
<1>3. new \in Ticket /\ new.account = t.account /\ new.amount = amount
      /\ new.current_type # lock_forever
  BY <1>0, <1>1, <1>2, InitSplitOK DEF TicketOK
<1>a. rest \in Ticket /\ rest.account = t.account /\ rest.amount = t.amount - amount
      /\ rest.current_type # lock_forever
  BY <1>0, <1>1, <1>2, AdjustAmountOK, Zenon DEF TicketOK
<1>4. PICK y : y = new.value + rest.value - t.value
  OBVIOUS
<1>5. /\ y \in Int /\ new.value \in Int /\ rest.value \in Int /\ t.value \in Int
      /\ t.amount \in Int /\ amount \in Int /\ 0 \in Int
  BY <1>0, <1>2, <1>3, <1>a, <1>4 DEF Ticket
<1>b. PICK mid : mid = [tickets EXCEPT ![id] = rest]
  BY Zenon
<1>c. /\ DOMAIN mid = DOMAIN tickets /\ mid[id] = rest
      /\ \A i \in DOMAIN tickets : i # id => mid[i] = tickets[i]
  BY <1>b, Zenon
<1>d. IsTable(mid)
  BY <1>0, <1>a, <1>c, Zenon DEF IsTable
<1>6. /\ DOMAIN tickets' = DOMAIN mid \cup {next_id} /\ tickets'[next_id] = new
      /\ \A i \in DOMAIN mid : tickets'[i] = mid[i]
  <2>1. /\ DOMAIN tickets' = DOMAIN tickets \cup {next_id}
        /\ \A i \in DOMAIN tickets' :
              tickets'[i] = CASE i = next_id -> new
                              [] i = id      -> rest
                              [] OTHER       -> tickets[i]
    BY <1>1, Zenon DEF ticket_split
  <2> QED BY <1>0, <1>c, <2>1, Zenon
<1>7. SharesShift(t.account, 0, y)
  <2> SUFFICES ASSUME NEW b \in Account, NEW k \in Statistic
               PROVE  SumFunction(SharesIn(tickets', b, k))
                        = SumFunction(SharesIn(tickets, b, k))
                            + (IF t.account = b THEN PolShare(k, 0, y) ELSE 0)
    BY Zenon DEF SharesShift
  <2>1. SumFunction(SharesIn(mid, b, k)) = SumFunction(SharesIn(tickets, b, k))
              + (IF rest.account = b THEN Share(rest, k) - Share(tickets[id], k) ELSE 0)
    BY <1>0, <1>1, <1>a, <1>c, ShareChanged
  <2>2. SumFunction(SharesIn(tickets', b, k)) = SumFunction(SharesIn(mid, b, k))
              + (IF new.account = b THEN Share(new, k) ELSE 0)
    BY <1>0, <1>3, <1>c, <1>d, <1>6, ShareAdded
  <2>3. /\ Share(t, k) = PolShare(k, t.amount, t.value)
        /\ Share(rest, k) = PolShare(k, t.amount - amount, rest.value)
        /\ Share(new, k) = PolShare(k, amount, new.value)
    BY <1>0, <1>2, <1>3, <1>a, TermShare, Zenon
  <2>4. (Share(rest, k) - Share(t, k)) + Share(new, k) = PolShare(k, 0, y)
    BY <1>4, <1>5, <2>3 DEF PolShare
  <2>5. SumFunction(SharesIn(tickets, b, k)) \in Int
    BY <1>0, SharesWeigh, TotalType, Zenon
  <2>6. Share(rest, k) \in Int /\ Share(t, k) \in Int /\ Share(new, k) \in Int
    BY <1>0, <1>3, <1>a, ShareType, Zenon
  <2> QED BY <1>1, <1>3, <1>a, <2>1, <2>2, <2>4, <2>5, <2>6
<1>8. StatsShift(t.account, 0, y)
  <2>1. stats' = AddPolValue(t.account, y)
    BY <1>1, <1>4, Zenon DEF ticket_split
  <2> QED BY <1>0, <1>5, <2>1, ValueMoves, Zenon
<1>9. UNCHANGED <<global, delta>> /\ loop' = "update"
  BY Zenon DEF ticket_split
<1> QED BY <1>5, <1>7, <1>8, <1>9, TermStep, Zenon

(* process_tickets refunds a ticket.                                       *)
LEMMA RefundStats ==
    ASSUME StatInv, NEW id \in DOMAIN tickets, refund_ticket(id)
    PROVE  StatTypes' /\ TotalsMatch' /\ DeltasMatch'
<1>1. PICK t : t = tickets[id]
  OBVIOUS
<1>0. /\ StatTypes /\ TicketInv /\ IsTable(tickets)
      /\ t \in Ticket /\ t.account \in Account /\ t.value \in Nat /\ t.amount \in Nat
  BY <1>1, TicketFacts, TicketsAreTable, Zenon DEF StatInv
<1>2. t.current_type # lock_forever
  BY <1>1 DEF refund_ticket, Refundable, liquid, lock_forever
<1>3. PICK x, y : x = -t.amount /\ y = -t.value
  OBVIOUS
<1>4. x \in Int /\ y \in Int
  BY <1>0, <1>3
<1>5. /\ DOMAIN tickets' = DOMAIN tickets \ {id}
      /\ \A i \in DOMAIN tickets' : tickets'[i] = tickets[i]
  BY Zenon DEF refund_ticket, Without
<1>6. SharesShift(t.account, x, y)
  <2> SUFFICES ASSUME NEW b \in Account, NEW k \in Statistic
               PROVE  SumFunction(SharesIn(tickets', b, k))
                        = SumFunction(SharesIn(tickets, b, k))
                            + (IF t.account = b THEN PolShare(k, x, y) ELSE 0)
    BY Zenon DEF SharesShift
  <2>1. SumFunction(SharesIn(tickets', b, k)) = SumFunction(SharesIn(tickets, b, k))
              + (IF tickets[id].account = b THEN -Share(tickets[id], k) ELSE 0)
    BY <1>0, <1>5, ShareRemoved
  <2>2. Share(t, k) = PolShare(k, t.amount, t.value)
    BY <1>0, <1>2, TermShare, Zenon
  <2>3. -Share(t, k) = PolShare(k, x, y)
    BY <1>0, <1>3, <2>2 DEF PolShare
  <2> QED BY <1>1, <2>1, <2>3, Zenon
<1>7. StatsShift(t.account, x, y)
  <2>1. stats' = [stats EXCEPT ![t.account].total_core_pol = @ - t.amount,
                               ![t.account].total_pol_value = @ - t.value]
    BY <1>1, Zenon DEF refund_ticket
  <2>2. /\ stats[t.account].total_core_pol \in Int
        /\ stats[t.account].total_pol_value \in Int
    BY <1>0, Zenon DEF StatTypes, StatRecord
  <2>3. /\ stats[t.account].total_core_pol - t.amount = stats[t.account].total_core_pol + x
        /\ stats[t.account].total_pol_value - t.value = stats[t.account].total_pol_value + y
    BY <1>0, <1>3, <2>2, Zenon
  <2>4. stats' = [stats EXCEPT ![t.account].total_core_pol = @ + x,
                               ![t.account].total_pol_value = @ + y]
    BY <2>1, <2>3, Zenon
  <2> QED BY <1>0, <1>4, <2>4, PolMoves, Zenon
<1>8. UNCHANGED <<global, delta, loop>>
  BY Zenon DEF refund_ticket
<1> QED BY <1>4, <1>6, <1>7, <1>8, TermStep, Zenon

(* The sum over the accounts moves with the statistics of one.             *)
LEMMA AllMove ==
    ASSUME StatTypes, NEW c \in Account, NEW n \in StatRecord,
           stats' = [stats EXCEPT ![c] = n], NEW k \in Statistic
    PROVE  SumFunction(StatOfAll(k)') = SumFunction(StatOfAll(k)) + (n[k] - stats[c][k])
<1>1. /\ DOMAIN stats = Account /\ \A a \in Account : stats[a] \in StatRecord
      /\ stats'[c] = n /\ \A a \in Account : a # c => stats'[a] = stats[a]
  BY Zenon DEF StatTypes
<1>2. PICK f, g : f = StatOfAll(k) /\ g = StatOfAll(k)'
  OBVIOUS
<1>3. /\ DOMAIN f = Account /\ \A a \in Account : f[a] = stats[a][k]
      /\ DOMAIN g = Account /\ \A a \in Account : g[a] = stats'[a][k]
  BY <1>2, Zenon DEF StatOfAll
<1>4. IsWeight(f)
  <2>1. \A a \in Account : f[a] \in Int
    BY <1>1, <1>3, StatInts, Zenon
  <2> QED BY <1>3, <2>1, TicketAssumption, Zenon DEF IsWeight
<1>5. PICK v : v = n[k] - stats[c][k]
  OBVIOUS
<1>6. n[k] \in Int /\ stats[c][k] \in Int
  BY <1>1, StatInts, Zenon
<1>7. v \in Int /\ g[c] = f[c] + v /\ c \in DOMAIN f
  BY <1>1, <1>3, <1>5, <1>6
<1>8. DOMAIN g = DOMAIN f /\ \A a \in DOMAIN f : a # c => g[a] = f[a]
  BY <1>1, <1>3, Zenon
<1>9. SumFunction(g) = SumFunction(f) + v
  BY <1>4, <1>7, <1>8, TotalChanged, Zenon
<1> QED BY <1>2, <1>5, <1>9, Zenon

(* process_tickets updates a ticket.                                       *)
LEMMA AutoStats ==
    ASSUME StatInv, NEW id \in DOMAIN tickets, update_ticket(id)
    PROVE  StatTypes' /\ TotalsMatch' /\ DeltasMatch'
<1>1. PICK t, u, c, s, n : /\ t = tickets[id] /\ u = auto_update(t) /\ c = t.account
                           /\ s = stats[c] /\ n = Restat(s, t, u)
  BY Zenon
<1>0. /\ StatTypes /\ TicketInv /\ IsTable(tickets) /\ TotalsMatch /\ DeltasMatch
      /\ now \in 0..MaxTime /\ version \in {1, 2}
      /\ t \in Ticket /\ TicketOK(t, version) /\ c \in Account
  BY <1>1, TicketFacts, TicketsAreTable, Zenon DEF StatInv
<1>2. ~ Refundable(t) /\ t.next_auto_update_time <= now /\ loop \in {"block", "update"}
  BY <1>1, Zenon DEF update_ticket, Due
<1>3. /\ TicketOK(u, version) /\ u.account = c /\ u.amount = t.amount
      /\ t.current_type = lock_forever => t.value > 0 /\ u.current_type = lock_forever
      /\ t.current_type # lock_forever /\ u.current_type = lock_forever => u.value > 0
  BY <1>0, <1>1, <1>2, AutoUpdateOK, Zenon
<1>4. u \in Ticket
  BY <1>3, Zenon DEF TicketOK
<1>5. s \in StatRecord
  BY <1>0, <1>1, Zenon DEF StatTypes
<1>6. n \in StatRecord /\ \A k \in Statistic : n[k] = s[k] + (Share(u, k) - Share(t, k))
  BY <1>0, <1>1, <1>3, <1>4, <1>5, RestatShares
<1>7. stats' = [stats EXCEPT ![c] = n]
  BY <1>1, Zenon DEF update_ticket
<1>8. /\ stats' \in [Account -> StatRecord] /\ stats'[c] = n
      /\ \A a \in Account : a # c => stats'[a] = stats[a]
  BY <1>0, <1>6, <1>7, Zenon DEF StatTypes
<1>9. /\ DOMAIN tickets' = DOMAIN tickets /\ tickets'[id] = u
      /\ \A i \in DOMAIN tickets : i # id => tickets'[i] = tickets[i]
  BY <1>1, Zenon DEF update_ticket
<1>10. TotalsMatch'
  <2>1. ASSUME NEW a \in Account, NEW k \in Statistic
        PROVE  stats'[a][k] = SumFunction(Shares(a, k)')
    <3>1. SumFunction(SharesIn(tickets', a, k)) = SumFunction(SharesIn(tickets, a, k))
              + (IF u.account = a THEN Share(u, k) - Share(tickets[id], k) ELSE 0)
      BY <1>0, <1>1, <1>3, <1>4, <1>9, ShareChanged
    <3>2. stats[a][k] = SumFunction(SharesIn(tickets, a, k)) /\ stats[a][k] \in Int
      BY <1>0, SharesAreIn, StatInts, Zenon DEF TotalsMatch, StatTypes
    <3>3. stats'[a][k] = SumFunction(SharesIn(tickets', a, k))
      <4>1. CASE a = c
        BY <1>1, <1>3, <1>6, <1>8, <3>1, <3>2, <4>1, Zenon
      <4>2. CASE a # c
        BY <1>3, <1>8, <3>1, <3>2, <4>2
      <4> QED BY <4>1, <4>2, Zenon
    <3> QED BY <3>3, SharesAreIn, Zenon
  <2> QED BY <2>1, Zenon DEF TotalsMatch
<1>11. delta' = [pob      |-> delta.pob + n.total_core_pob - s.total_core_pob,
                 inactive |-> delta.inactive + n.total_core_inactive - s.total_core_inactive]
       /\ global' = global /\ loop' = loop
  BY <1>1, Zenon DEF update_ticket
<1>12. /\ n.total_core_pob \in Int /\ s.total_core_pob \in Int
       /\ n.total_core_inactive \in Int /\ s.total_core_inactive \in Int
       /\ global.total_pob \in Int /\ global.total_inactive \in Int
       /\ delta.pob \in Int /\ delta.inactive \in Int
  BY <1>0, <1>5, <1>6, Zenon DEF StatRecord, StatTypes
<1>13. StatTypes'
  <2>1. delta' \in [pob : Int, inactive : Int]
    BY <1>11, <1>12
  <2> QED BY <1>0, <1>8, <1>11, <2>1, Zenon DEF StatTypes
<1>14. DeltasMatch'
  <2>1. /\ SumFunction(StatOfAll("total_core_pob")')
             = SumFunction(StatOfAll("total_core_pob"))
                 + (n["total_core_pob"] - s["total_core_pob"])
        /\ SumFunction(StatOfAll("total_core_inactive")')
             = SumFunction(StatOfAll("total_core_inactive"))
                 + (n["total_core_inactive"] - s["total_core_inactive"])
    <3>1. "total_core_pob" \in Statistic /\ "total_core_inactive" \in Statistic
      BY Zenon DEF Statistic
    <3>2. ASSUME NEW k \in Statistic
          PROVE  SumFunction(StatOfAll(k)') = SumFunction(StatOfAll(k)) + (n[k] - stats[c][k])
      BY <1>0, <1>6, <1>7, AllMove, Zenon
    <3> QED BY <1>1, <3>1, <3>2, Zenon
  <2>2. /\ global.total_pob + delta.pob = SumFunction(StatOfAll("total_core_pob"))
        /\ global.total_inactive + delta.inactive = SumFunction(StatOfAll("total_core_inactive"))
    BY <1>0, Zenon DEF DeltasMatch
  <2>3. /\ delta'.pob = delta.pob + n.total_core_pob - s.total_core_pob
        /\ delta'.inactive = delta.inactive + n.total_core_inactive - s.total_core_inactive
    BY <1>11, Zenon
  <2>4. /\ global.total_pob + delta'.pob = SumFunction(StatOfAll("total_core_pob")')
        /\ global.total_inactive + delta'.inactive
             = SumFunction(StatOfAll("total_core_inactive")')
    BY <1>12, <2>1, <2>2, <2>3
  <2> QED BY <1>2, <1>11, <2>4, Zenon DEF DeltasMatch
<1> QED BY <1>10, <1>13, <1>14, Zenon

(* process_tickets ends and writes the global totals.                      *)
LEMMA EndStats ==
    ASSUME StatInv, end_process_tickets
    PROVE  StatTypes' /\ TotalsMatch' /\ DeltasMatch'
<1>0. StatTypes /\ TotalsMatch /\ DeltasMatch
  BY Zenon DEF StatInv
<1>1. /\ UNCHANGED <<tickets, stats>>
      /\ global' = [total_pob      |-> global.total_pob + delta.pob,
                    total_inactive |-> global.total_inactive + delta.inactive]
      /\ delta' = [pob |-> 0, inactive |-> 0]
  BY Zenon DEF end_process_tickets
<1>2. /\ global.total_pob \in Int /\ global.total_inactive \in Int
      /\ delta.pob \in Int /\ delta.inactive \in Int
  BY <1>0, Zenon DEF StatTypes
<1>3. TotalsMatch'
  BY <1>0, <1>1, Zenon DEF TotalsMatch, Shares
<1>4. StatTypes'
  BY <1>0, <1>1, <1>2 DEF StatTypes
<1>5. /\ StatOfAll("total_core_pob")' = StatOfAll("total_core_pob")
      /\ StatOfAll("total_core_inactive")' = StatOfAll("total_core_inactive")
  BY <1>1, Zenon DEF StatOfAll
<1>6. /\ global'.total_pob = global.total_pob + delta.pob
      /\ global'.total_inactive = global.total_inactive + delta.inactive
      /\ delta'.pob = 0 /\ delta'.inactive = 0
  BY <1>1, Zenon
<1>7. /\ global'.total_pob + delta'.pob = global.total_pob + delta.pob
      /\ global'.total_inactive + delta'.inactive = global.total_inactive + delta.inactive
  BY <1>2, <1>6
<1>8. DeltasMatch'
  BY <1>0, <1>1, <1>5, <1>7, Zenon DEF DeltasMatch
<1> QED BY <1>3, <1>4, <1>8, Zenon

(* process_hf_2262: what the liquid tickets lose leaves the statistics.    *)
LEMMA HardforkStats ==
    ASSUME StatInv, process_hf_2262
    PROVE  StatTypes' /\ TotalsMatch' /\ DeltasMatch'
<1>0. /\ StatTypes /\ TicketInv /\ IsTable(tickets) /\ TotalsMatch /\ DeltasMatch
      /\ \A i \in DOMAIN tickets :
            tickets[i] \in Ticket /\ tickets[i].value \in Nat /\ tickets[i].amount \in Nat
  BY TicketFacts, TicketsAreTable, Zenon DEF StatInv
<1>1. /\ DOMAIN tickets' = DOMAIN tickets
      /\ \A i \in DOMAIN tickets :
            tickets'[i] = IF tickets[i].current_type = liquid
                          THEN [tickets[i] EXCEPT !.value = 0] ELSE tickets[i]
      /\ UNCHANGED <<global, delta>> /\ loop = "maintenance"
  BY Zenon DEF process_hf_2262
<1>2. ASSUME NEW i \in DOMAIN tickets
      PROVE  /\ tickets'[i].account = tickets[i].account
             /\ tickets[i].current_type # liquid => tickets'[i] = tickets[i]
             /\ tickets[i].current_type = liquid =>
                   /\ tickets'[i].current_type = liquid /\ tickets'[i].value = 0
                   /\ tickets'[i].amount = tickets[i].amount
  BY <1>0, <1>1, Zenon DEF Ticket
<1>3. ASSUME NEW i \in DOMAIN tickets, NEW k \in Statistic
      PROVE  Share(tickets'[i], k) = Share(tickets[i], k)
                - (IF k = "total_pol_value" /\ tickets[i].current_type = liquid
                   THEN tickets[i].value ELSE 0)
  <2>1. PICK t, u : t = tickets[i] /\ u = tickets'[i]
    OBVIOUS
  <2>2. Share(t, k) \in Int
    BY <1>0, <2>1, ShareType, Zenon
  <2>3. CASE t.current_type # liquid
    BY <1>2, <2>1, <2>2, <2>3
  <2>4. CASE t.current_type = liquid
    <3>1. /\ u.current_type = liquid /\ u.value = 0 /\ u.amount = t.amount
          /\ t.value \in Nat /\ t.amount \in Nat
      BY <1>0, <1>2, <2>1, <2>4, Zenon
    <3>2. Share(u, k) = Share(t, k) - (IF k = "total_pol_value" THEN t.value ELSE 0)
      BY <2>4, <3>1 DEF Share, Statistic, Faded, Burning, Locked, liquid, lock_forever
    <3> QED BY <2>1, <2>4, <3>2, Zenon
  <2> QED BY <2>3, <2>4, Zenon
<1>4. \A a : IsWeight(LiquidValue(a)) /\ DOMAIN LiquidValue(a) = DOMAIN tickets
  <2> SUFFICES ASSUME NEW a
               PROVE  IsWeight(LiquidValue(a)) /\ DOMAIN LiquidValue(a) = DOMAIN tickets
    OBVIOUS
  <2>1. DOMAIN LiquidValue(a) = DOMAIN tickets
    BY Zenon DEF LiquidValue
  <2>2. \A i \in DOMAIN tickets : LiquidValue(a)[i] \in Int
    BY <1>0 DEF LiquidValue
  <2> QED BY <1>0, <2>1, <2>2, Zenon DEF IsWeight, IsTable
<1>5. ASSUME NEW a \in Account
      PROVE  /\ stats'[a] \in StatRecord
             /\ \A k \in Statistic : stats'[a][k] = stats[a][k]
                   - (IF k = "total_pol_value" THEN SumFunction(LiquidValue(a)) ELSE 0)
  <2>1. PICK l, s, q : /\ l = SumFunction(LiquidValue(a)) /\ s = stats[a]
                       /\ q = s.total_pol_value - l
    BY Zenon
  <2>2. s \in StatRecord /\ l \in Int
    BY <1>0, <1>4, <2>1, TotalType, Zenon DEF StatTypes
  <2>3. s.total_pol_value \in Int
    BY <2>2, Zenon DEF StatRecord
  <2>4. q \in Int
    BY <2>1, <2>2, <2>3
  <2>5. PICK r : r = [s EXCEPT !.total_pol_value = q]
    BY Zenon
  <2>6. stats'[a] = r
    BY <2>1, <2>5, Zenon DEF process_hf_2262
  <2>7. r \in StatRecord
    BY <2>2, <2>4, <2>5, Zenon DEF StatRecord
  <2>8. /\ r.total_pol_value = q /\ r.total_core_pol = s.total_core_pol
        /\ r.total_core_inactive = s.total_core_inactive
        /\ r.total_core_pob = s.total_core_pob /\ r.total_pob_value = s.total_pob_value
    BY <2>2, <2>5, Zenon DEF StatRecord
  <2>9. \A k \in Statistic : s[k] \in Int
    BY <2>2, StatInts, Zenon
  <2>10. \A k \in Statistic : r[k] = s[k] - (IF k = "total_pol_value" THEN l ELSE 0)
    BY <2>1, <2>2, <2>8, <2>9 DEF Statistic
  <2> QED BY <2>1, <2>6, <2>7, <2>10, Zenon
<1>6. StatTypes'
  <2>1. stats' = [a \in Account |-> stats'[a]]
    BY Zenon DEF process_hf_2262
  <2> QED BY <1>0, <1>1, <1>5, <2>1, Zenon DEF StatTypes
<1>7. TotalsMatch'
  <2>1. ASSUME NEW a \in Account, NEW k \in Statistic
        PROVE  stats'[a][k] = SumFunction(Shares(a, k)')
    <3>1. PICK f, g, h : f = SharesIn(tickets, a, k) /\ g = LiquidValue(a)
                         /\ h = SharesIn(tickets', a, k)
      BY Zenon
    <3>2. /\ IsWeight(f) /\ DOMAIN f = DOMAIN tickets
          /\ IsWeight(g) /\ DOMAIN g = DOMAIN tickets /\ DOMAIN h = DOMAIN tickets
      <4>1. IsWeight(f) /\ DOMAIN f = DOMAIN tickets
        BY <1>0, <3>1, SharesWeigh, Zenon
      <4>2. DOMAIN h = DOMAIN tickets
        BY <1>1, <3>1, Zenon DEF SharesIn
      <4> QED BY <1>4, <3>1, <4>1, <4>2, Zenon
    <3>3. stats[a][k] = SumFunction(f) /\ SumFunction(f) \in Int
      <4>1. stats[a][k] = SumFunction(f)
        BY <1>0, <3>1, SharesAreIn, Zenon DEF TotalsMatch
      <4> QED BY <3>2, <4>1, TotalType, Zenon
    <3>4. \A i \in DOMAIN tickets :
             /\ f[i] = IF tickets[i].account = a THEN Share(tickets[i], k) ELSE 0
             /\ h[i] = IF tickets[i].account = a THEN Share(tickets'[i], k) ELSE 0
             /\ g[i] = IF tickets[i].account = a /\ tickets[i].current_type = liquid
                       THEN tickets[i].value ELSE 0
      BY <1>1, <1>2, <3>1, Zenon DEF SharesIn, LiquidValue
    <3>5. \A i \in DOMAIN tickets : Share(tickets[i], k) \in Int /\ tickets[i].value \in Int
      BY <1>0, ShareType
    <3>6. SumFunction(h) = stats'[a][k]
      <4>1. CASE k = "total_pol_value"
        <5>1. \A i \in DOMAIN tickets : h[i] = f[i] - g[i]
          BY <1>3, <3>4, <3>5, <4>1
        <5>2. SumFunction(h) = SumFunction(f) - SumFunction(g)
          BY <3>2, <5>1, TotalMinus, Zenon
        <5> QED BY <1>5, <3>1, <3>3, <4>1, <5>2, Zenon
      <4>2. CASE k # "total_pol_value"
        <5>1. \A i \in DOMAIN tickets : h[i] = f[i]
          BY <1>3, <3>4, <3>5, <4>2
        <5>2. SumFunction(h) = SumFunction(f)
          BY <3>2, <5>1, TotalSame, Zenon
        <5>3. stats'[a][k] = stats[a][k]
          BY <1>5, <3>3, <4>2
        <5> QED BY <3>3, <5>2, <5>3, Zenon
      <4> QED BY <4>1, <4>2, Zenon
    <3> QED BY <3>1, <3>6, SharesAreIn, Zenon
  <2> QED BY <2>1, Zenon DEF TotalsMatch
<1>8. DeltasMatch'
  <2>1. ASSUME NEW k \in {"total_core_pob", "total_core_inactive"}
        PROVE  StatOfAll(k)' = StatOfAll(k)
    <3>1. k \in Statistic /\ k # "total_pol_value"
      BY Zenon DEF Statistic
    <3>2. \A a \in Account : stats[a][k] \in Int
      BY <1>0, <3>1, StatInts, Zenon DEF StatTypes
    <3>3. \A a \in Account : stats'[a][k] = stats[a][k]
      BY <1>5, <3>1, <3>2
    <3> QED BY <3>3, Zenon DEF StatOfAll
  <2>2. /\ StatOfAll("total_core_pob")' = StatOfAll("total_core_pob")
        /\ StatOfAll("total_core_inactive")' = StatOfAll("total_core_inactive")
    BY <2>1, Zenon
  <2>3. delta = [pob |-> 0, inactive |-> 0]
    BY <1>0, <1>1, Zenon DEF DeltasMatch
  <2> QED BY <1>0, <1>1, <2>2, <2>3, Zenon DEF DeltasMatch
<1> QED BY <1>6, <1>7, <1>8, Zenon


(* Nothing is counted before the first ticket.                             *)
LEMMA StatInit == HInit => StatInv
<1> SUFFICES ASSUME HInit PROVE StatInv
  OBVIOUS
<1>0. TicketInv
  BY TicketInit, Zenon
<1>1. /\ DOMAIN tickets = {} /\ loop = "idle"
      /\ stats = [a \in Account |->
                     [total_core_inactive |-> 0, total_core_pob |-> 0, total_core_pol |-> 0,
                      total_pob_value |-> 0, total_pol_value |-> 0]]
      /\ global = [total_pob |-> 0, total_inactive |-> 0]
      /\ delta = [pob |-> 0, inactive |-> 0]
  BY Zenon DEF HInit, Init
<1>2. StatTypes
  BY <1>1 DEF StatTypes, StatRecord
<1>3. \A a \in Account : \A k \in Statistic : stats[a][k] = 0
  BY <1>1 DEF Statistic
<1>4. TotalsMatch
  <2>1. ASSUME NEW a \in Account, NEW k \in Statistic PROVE SumFunction(Shares(a, k)) = 0
    <3>1. DOMAIN Shares(a, k) = {}
      BY <1>1, Zenon DEF Shares
    <3> QED BY <3>1, TotalNone, Zenon
  <2> QED BY <1>3, <2>1, Zenon DEF TotalsMatch
<1>5. ASSUME NEW k \in Statistic PROVE SumFunction(StatOfAll(k)) = 0
  <2>1. DOMAIN StatOfAll(k) = Account /\ \A a \in Account : StatOfAll(k)[a] = 0
    BY <1>3, Zenon DEF StatOfAll
  <2> QED BY <2>1, TicketAssumption, TotalZero, Zenon
<1>6. /\ SumFunction(StatOfAll("total_core_pob")) = 0
      /\ SumFunction(StatOfAll("total_core_inactive")) = 0
  BY <1>5, Zenon DEF Statistic
<1>7. DeltasMatch
  BY <1>1, <1>6 DEF DeltasMatch
<1> QED BY <1>0, <1>2, <1>4, <1>7, Zenon DEF StatInv

(* A step that changes neither tickets nor statistics.                     *)
LEMMA StatsStand ==
    ASSUME StatInv, UNCHANGED <<tickets, stats, global, delta>>,
           loop' \in {"idle", "maintenance"} => loop \in {"idle", "maintenance"}
    PROVE  StatTypes' /\ TotalsMatch' /\ DeltasMatch'
<1>0. StatTypes /\ TotalsMatch /\ DeltasMatch
  BY Zenon DEF StatInv
<1>1. StatTypes'
  BY <1>0, Zenon DEF StatTypes
<1>2. TotalsMatch'
  BY <1>0, Zenon DEF TotalsMatch, Shares
<1>3. /\ StatOfAll("total_core_pob")' = StatOfAll("total_core_pob")
      /\ StatOfAll("total_core_inactive")' = StatOfAll("total_core_inactive")
  BY Zenon DEF StatOfAll
<1>4. DeltasMatch'
  BY <1>0, <1>3, Zenon DEF DeltasMatch
<1> QED BY <1>1, <1>2, <1>4, Zenon

(* Every step keeps the statistics in step with the tickets.               *)
LEMMA StatStep == StatInv /\ [HNext]_hvars => StatInv'
<1> SUFFICES ASSUME StatInv, [HNext]_hvars PROVE StatInv'
  OBVIOUS
<1> DEFINE Good == StatTypes' /\ TotalsMatch' /\ DeltasMatch'
<1>0. TicketInv'
  BY TicketStep, Zenon DEF StatInv
<1>1. ASSUME NEW a \in Account, NEW type \in ticket_type, NEW amount \in Amount,
             ticket_create(a, type, amount)
      PROVE  Good
  BY <1>1, CreateStats, Zenon
<1>2. ASSUME NEW id \in DOMAIN tickets, NEW type \in ticket_type, ticket_update(id, type)
      PROVE  Good
  BY <1>2, UpdateStats, Zenon
<1>3. ASSUME NEW id \in DOMAIN tickets, NEW type \in ticket_type, NEW amount \in Amount,
             ticket_split(id, type, amount)
      PROVE  Good
  BY <1>3, SplitStats, Zenon
<1>4. ASSUME NEW d \in Steps, apply_block(d) PROVE Good
  <2>1. UNCHANGED <<tickets, stats, global, delta>> /\ loop' = "block"
    BY <1>4, Zenon DEF apply_block
  <2> QED BY <2>1, StatsStand, Zenon
<1>5. ASSUME NEW id \in DOMAIN tickets, refund_ticket(id) PROVE Good
  BY <1>5, RefundStats, Zenon
<1>6. ASSUME NEW id \in DOMAIN tickets, update_ticket(id) PROVE Good
  BY <1>6, AutoStats, Zenon
<1>7. ASSUME end_process_tickets PROVE Good
  BY <1>7, EndStats, Zenon
<1>8. ASSUME process_hf_2262 PROVE Good
  BY <1>8, HardforkStats, Zenon
<1>9. ASSUME end_block PROVE Good
  <2>1. UNCHANGED <<tickets, stats, global, delta>> /\ loop = "maintenance"
    BY <1>9, Zenon DEF end_block
  <2> QED BY <2>1, StatsStand, Zenon
<1>10. ASSUME UNCHANGED hvars PROVE Good
  <2>1. UNCHANGED <<tickets, stats, global, delta, loop>>
    BY <1>10, Zenon DEF hvars, vars
  <2> QED BY <2>1, StatsStand, Zenon
<1> HIDE DEF Good
<1>11. Good
  BY <1>1, <1>2, <1>3, <1>4, <1>5, <1>6, <1>7, <1>8, <1>9, <1>10, Zenon
     DEF HNext, Next, Operation, Loop
<1> QED BY <1>0, <1>11, Zenon DEF Good, StatInv

(* Every behaviour of the tickets satisfies the larger invariant.          *)
THEOREM StatInvariant == HSpec => []StatInv
<1>1. HInit => StatInv
  BY StatInit, Zenon
<1>2. StatInv /\ [HNext]_hvars => StatInv'
  BY StatStep, Zenon
<1> QED
  BY <1>1, <1>2, PTL DEF HSpec

(* The totals of account_statistics_object, which every operation and the  *)
(* loop of process_tickets only change by differences, are the sums over   *)
(* the account's tickets, and the totals of the dynamic global properties  *)
(* are the sums over the accounts whenever no handler runs.                *)
THEOREM StatisticsAlwaysMatch == HSpec => []StatisticsMatchTickets
<1>1. StatInv => StatisticsMatchTickets
  <2> SUFFICES ASSUME StatInv PROVE StatisticsMatchTickets
    OBVIOUS
  <2>1. StatTypes /\ TotalsMatch /\ DeltasMatch
    BY Zenon DEF StatInv
  <2>2. ASSUME loop = "idle"
        PROVE  /\ global.total_pob = SumFunction(StatOfAll("total_core_pob"))
               /\ global.total_inactive = SumFunction(StatOfAll("total_core_inactive"))
    <3>1. global.total_pob \in Int /\ global.total_inactive \in Int
      BY <2>1, Zenon DEF StatTypes
    <3>2. delta.pob = 0 /\ delta.inactive = 0
      BY <2>1, <2>2 DEF DeltasMatch
    <3> QED BY <2>1, <3>1, <3>2 DEF DeltasMatch
  <2> QED BY <2>1, <2>2, Zenon DEF TotalsMatch, StatisticsMatchTickets
<1> QED
  BY <1>1, StatInvariant, PTL
--------------------------------------------------------------------------------
(* How long tokens stay in a ticket.                                       *)

(* A charging ticket that still has the time of a downgrade it had started *)
(* reaches the next type less than a charging step after that time.        *)
Prompt(t) ==
    t.status = "charging" /\ t.next_type_downgrade_time # Never
        => t.next_auto_update_time < t.next_type_downgrade_time + ChargingStep

(* Time x lies before every time at which ticket t can be refunded, seen   *)
(* at time n: by going down from its type now, or after one more charge.   *)
Served(t, x, n) ==
    LET type == t.current_type
        due  == t.next_type_downgrade_time
    IN  /\ x < (IF due = Never THEN n ELSE due) + TimeToRefund(type)
        /\ type < lock_720_days => x < n + TimeToRefund(type + 1)

(* The inductive invariant.                                                *)
TermsInv ==
    /\ TicketInv
    /\ DOMAIN held = DOMAIN tickets
    /\ \A i \in DOMAIN tickets : Prompt(tickets[i])
    /\ \A i \in DOMAIN tickets : \A k \in TermType :
          /\ held[i][k] \in Int
          /\ held[i][k] >= 0 /\ tickets[i].current_type # lock_forever =>
                Served(tickets[i], held[i][k] + TimeToRefund(k) - ChargingStep, now)

(* The time to a refund grows by the term of each type.                    *)
LEMMA RefundTimes ==
    /\ TimeToRefund(0) = 0
    /\ \A k \in 0..3 : TimeToRefund(k) \in Nat
    /\ \A k \in 0..2 : TimeToRefund(k + 1) = TimeToRefund(k) + SecondsToDowngrade[k]
    /\ \A k \in 0..2 : SecondsToDowngrade[k] \in Nat \ {0}
    /\ \A j, k \in 0..3 : j <= k => TimeToRefund(j) <= TimeToRefund(k)
<1> DEFINE S == SecondsToDowngrade
<1>1. \A k \in 0..2 : S[k] \in Nat \ {0}
  BY TicketAssumption, Zenon
<1>2. ASSUME NEW k \in 0..3
      PROVE  TimeToRefund(k) \in Nat
  <2>0. 0 \in Int /\ k - 1 \in Int /\ \A x \in 0..(k - 1) : S[x] \in Nat
    BY <1>1
  <2>1. IsFiniteSet(0..(k - 1)) /\ \A x \in 0..(k - 1) : S[x] \in Nat
    BY <2>0, FS_Interval, Zenon
  <2> HIDE DEF S
  <2>2. SumFunctionOnSet(S, 0..(k - 1)) \in Nat
    BY <2>1, SumFacts, Zenon
  <2> QED BY <2>2, Zenon DEF TimeToRefund, S
<1>3. TimeToRefund(0) = 0
  <2>1. 0..(0 - 1) = {}
    OBVIOUS
  <2> QED BY <2>1, SumFacts, Zenon DEF TimeToRefund
<1>4. ASSUME NEW k \in 0..2
      PROVE  TimeToRefund(k + 1) = TimeToRefund(k) + S[k]
  <2> DEFINE K == 0..k
  <2>1. 0 \in Int /\ k \in Int
    OBVIOUS
  <2>2. IsFiniteSet(K)
    BY <2>1, FS_Interval, Zenon
  <2>3. /\ \A x \in K : S[x] \in Int
        /\ k \in K /\ K \ {k} = 0..(k - 1) /\ (k + 1) - 1 = k
    BY <1>1
  <2> HIDE DEF S, K
  <2>4. IsFiniteSet(K) /\ (\A x \in K : S[x] \in Int)
           => \A x \in K : SumFunctionOnSet(S, K) = S[x] + SumFunctionOnSet(S, K \ {x})
    BY SumFacts
  <2>5. SumFunctionOnSet(S, K) = S[k] + SumFunctionOnSet(S, K \ {k})
    BY <2>2, <2>3, <2>4, Zenon
  <2>6. TimeToRefund(k + 1) = S[k] + TimeToRefund(k)
    BY <2>3, <2>5, Zenon DEF TimeToRefund, S, K
  <2>7. S[k] \in Nat /\ TimeToRefund(k) \in Nat
    BY <1>1, <1>2
  <2> QED BY <2>6, <2>7
<1>5. TimeToRefund(0) <= TimeToRefund(1) /\ TimeToRefund(1) <= TimeToRefund(2)
      /\ TimeToRefund(2) <= TimeToRefund(3)
  <2>1. /\ TimeToRefund(0 + 1) = TimeToRefund(0) + S[0]
        /\ TimeToRefund(1 + 1) = TimeToRefund(1) + S[1]
        /\ TimeToRefund(2 + 1) = TimeToRefund(2) + S[2]
    BY <1>4
  <2> QED BY <1>1, <1>2, <2>1
<1>6. ASSUME NEW j \in 0..3, NEW k \in 0..3, j <= k
      PROVE  TimeToRefund(j) <= TimeToRefund(k)
  <2>1. /\ TimeToRefund(0) \in Nat /\ TimeToRefund(1) \in Nat
        /\ TimeToRefund(2) \in Nat /\ TimeToRefund(3) \in Nat
    BY <1>2
  <2>2. j \in {0, 1, 2, 3} /\ k \in {0, 1, 2, 3}
    OBVIOUS
  <2> QED BY <1>5, <1>6, <2>1, <2>2
<1> QED BY <1>1, <1>2, <1>3, <1>4, <1>6, Zenon

(* What Prompt and Served look at.                                         *)
SameTerms(t, u) ==
    /\ u.current_type = t.current_type /\ u.status = t.status
    /\ u.next_auto_update_time = t.next_auto_update_time
    /\ u.next_type_downgrade_time = t.next_type_downgrade_time

(* Tickets that agree in it serve alike.                                   *)
LEMMA SameServed ==
    ASSUME NEW t, NEW u, SameTerms(t, u)
    PROVE  /\ Prompt(t) => Prompt(u)
           /\ \A x, n : Served(t, x, n) => Served(u, x, n)
BY Zenon DEF SameTerms, Prompt, Served

(* The value, the amount and the target have no part in them.              *)
LEMMA UpdateSame ==
    ASSUME NEW t \in Ticket, NEW v, NEW d, NEW type
    PROVE  /\ SameTerms(t, update_value(t, v))
           /\ SameTerms(t, adjust_amount(t, d))
           /\ SameTerms(t, [t EXCEPT !.amount = d])
           /\ SameTerms(t, [t EXCEPT !.target_type = type])
           /\ SameTerms(t, [t EXCEPT !.value = d])
BY Zenon DEF SameTerms, update_value, adjust_amount, Ticket

(* Time passes.                                                            *)
LEMMA ServedLater ==
    ASSUME NEW t \in Ticket, t.current_type # lock_forever, NEW x \in Int,
           NEW n \in Int, NEW m \in Int, n <= m, Served(t, x, n)
    PROVE  Served(t, x, m)
<1> DEFINE c == t.current_type
           d == t.next_type_downgrade_time
<1>1. c \in 0..3 /\ d \in Nat /\ c # lock_forever
  BY DEF Ticket, ticket_type, liquid, lock_forever
<1>2. /\ x < (IF d = Never THEN n ELSE d) + TimeToRefund(c)
      /\ c < lock_720_days => x < n + TimeToRefund(c + 1)
  BY Zenon DEF Served
<1>3. TimeToRefund(c) \in Nat /\ (c < lock_720_days => TimeToRefund(c + 1) \in Nat)
  BY <1>1, RefundTimes DEF lock_720_days
<1> HIDE DEF c, d
<1>4. /\ x < (IF d = Never THEN m ELSE d) + TimeToRefund(c)
      /\ c < lock_720_days => x < m + TimeToRefund(c + 1)
  BY <1>1, <1>2, <1>3
<1> QED BY <1>4, Zenon DEF Served, c, d

(* Between handlers, a ticket has served the terms of its types from now.  *)
LEMMA ServedNow ==
    ASSUME NEW t \in Ticket, Scheduled(t), Prompt(t), NEW n \in Nat,
           t.next_auto_update_time > n, NEW k \in TermType,
           k <= t.current_type, t.current_type # lock_forever
    PROVE  Served(t, n + TimeToRefund(k) - ChargingStep, n)
<1> DEFINE c == t.current_type
           d == t.next_type_downgrade_time
           a == t.next_auto_update_time
<1>1. c \in 0..3 /\ d \in Nat /\ a \in Nat /\ k \in 0..3 /\ k <= c /\ a > n
      /\ ChargingStep \in Nat \ {0}
  BY TicketAssumption DEF Ticket, ticket_type, liquid, lock_forever, TermType, lock_720_days
<1>2. d # Never => n < d + ChargingStep
  <2>1. CASE t.status = "charging"
    BY <1>1, <2>1 DEF Prompt
  <2>2. CASE t.status = "withdrawing"
    <3>1. d = a
      BY <2>2, Zenon DEF Scheduled
    <3> QED BY <1>1, <3>1
  <2>3. CASE t.status = "stable"
    BY <2>3, Zenon DEF Scheduled
  <2> QED BY <2>1, <2>2, <2>3, Zenon DEF Ticket
<1>3. TimeToRefund(k) \in Nat /\ TimeToRefund(c) \in Nat /\ TimeToRefund(k) <= TimeToRefund(c)
  BY <1>1, RefundTimes, Zenon
<1>4. c < lock_720_days => TimeToRefund(c + 1) \in Nat /\ TimeToRefund(k) <= TimeToRefund(c + 1)
  <2>1. c < lock_720_days => c + 1 \in 0..3 /\ k <= c + 1
    BY <1>1 DEF lock_720_days
  <2> QED BY <1>1, <2>1, RefundTimes, Zenon
<1> HIDE DEF c, d, a
<1>5. /\ n + TimeToRefund(k) - ChargingStep < (IF d = Never THEN n ELSE d) + TimeToRefund(c)
      /\ c < lock_720_days => n + TimeToRefund(k) - ChargingStep < n + TimeToRefund(c + 1)
  BY <1>1, <1>2, <1>3, <1>4
<1> QED BY <1>5, Zenon DEF Served, c, d

(* start_charging: the downgrade time that it keeps lies in the future.    *)
LEMMA ChargingServed ==
    ASSUME NEW t \in Ticket, Scheduled(t), Prompt(t), now \in Nat, t.next_auto_update_time > now
    PROVE  LET s == start_charging(t)
           IN  /\ s \in Ticket /\ s.current_type = t.current_type /\ Prompt(s)
               /\ \A x, n : Served(t, x, n) => Served(s, x, n)
<1>1. CASE t.status = "charging"
  BY <1>1, Zenon DEF start_charging
<1>2. CASE t.status # "charging"
  <2> DEFINE a == now + ChargingStep
             s == [t EXCEPT !.status = "charging", !.next_auto_update_time = a]
             d == t.next_type_downgrade_time
  <2>1. start_charging(t) = s
    BY <1>2, Zenon DEF start_charging
  <2>2. a \in Nat /\ ChargingStep \in Nat /\ d \in Nat
    BY TicketAssumption DEF Ticket
  <2>3. d # Never => now < d
    <3>1. CASE t.status = "withdrawing" /\ t.current_type # lock_forever
      BY <3>1, Zenon DEF Scheduled
    <3>2. CASE t.status = "stable" \/ t.current_type = lock_forever
      BY <3>2, Zenon DEF Scheduled
    <3> QED BY <1>2, <3>1, <3>2, Zenon DEF Ticket
  <2>4. d # Never => a < d + ChargingStep
    BY <2>2, <2>3
  <2> HIDE DEF a
  <2>5. /\ s \in Ticket /\ s.current_type = t.current_type /\ s.next_auto_update_time = a
        /\ s.next_type_downgrade_time = d
    <3>1. s \in Ticket
      BY <2>2, Zenon DEF Ticket
    <3>2. /\ s.current_type = t.current_type /\ s.next_auto_update_time = a
          /\ s.next_type_downgrade_time = d
      BY Zenon DEF Ticket
    <3> QED BY <3>1, <3>2, Zenon
  <2> HIDE DEF s, d
  <2>6. Prompt(s)
    BY <2>4, <2>5, Zenon DEF Prompt
  <2>7. \A x, n : Served(t, x, n) => Served(s, x, n)
    BY <2>5, Zenon DEF Served, d
  <2> QED BY <2>1, <2>5, <2>6, <2>7, Zenon
<1> QED BY <1>1, <1>2, Zenon

(* start_withdrawing: a downgrade takes its full term from now, or goes on *)
(* at the time at which it was due.                                        *)
LEMMA WithdrawingServed ==
    ASSUME NEW t \in Ticket, t.current_type # lock_forever, now \in 0..MaxTime,
           NEW type \in ticket_type, type <= t.current_type
    PROVE  LET s == start_withdrawing(t, type)
           IN  /\ s \in Ticket /\ s.current_type # lock_forever /\ Prompt(s)
               /\ \A x \in Int : Served(t, x, now) => Served(s, x, now)
<1> DEFINE c == t.current_type
           d == t.next_type_downgrade_time
           lower == IF d # Never \/ c = type THEN c ELSE c - 1
           due == IF d # Never THEN d
                  ELSE IF c = type THEN now + CancelCharging
                  ELSE now + SecondsToDowngrade[lower]
           s == [t EXCEPT !.status = "withdrawing", !.current_type = lower,
                          !.next_type_downgrade_time = due, !.next_auto_update_time = due]
<1>1. start_withdrawing(t, type) = s
  BY Zenon DEF start_withdrawing
<1>2. c \in 0..3 /\ d \in Nat /\ now \in Nat /\ type \in 0..4 /\ type <= c
  BY TicketAssumption DEF Ticket, ticket_type, liquid, lock_forever
<1>3. /\ CancelCharging \in Nat /\ now + CancelCharging # Never
      /\ \A k \in 0..2 : SecondsToDowngrade[k] \in Nat /\ now + SecondsToDowngrade[k] # Never
  <2>1. /\ CancelCharging \in Nat /\ MaxTime + CancelCharging < Never /\ Never \in Nat /\ MaxTime \in Nat
        /\ \A k \in 0..2 : SecondsToDowngrade[k] \in Nat /\ MaxTime + SecondsToDowngrade[k] < Never
    BY TicketAssumption, Zenon
  <2> QED BY <2>1
<1>4. lower \in 0..3 /\ (lower # c => lower = c - 1 /\ lower \in 0..2 /\ d = Never)
  BY <1>2
<1>5. due \in Nat /\ due # Never
  BY <1>2, <1>3, <1>4
<1>6. lower \in ticket_type /\ lower # lock_forever
  BY <1>4 DEF ticket_type, liquid, lock_forever
<1>7. ASSUME NEW x \in Int, Served(t, x, now) PROVE Served(s, x, now)
  <2>1. /\ x < (IF d = Never THEN now ELSE d) + TimeToRefund(c)
        /\ c < lock_720_days => x < now + TimeToRefund(c + 1)
    BY <1>7, Zenon DEF Served
  <2>2. s.current_type = lower /\ s.next_type_downgrade_time = due
    <3> HIDE DEF lower, due
    <3> QED BY Zenon DEF Ticket
  <2>3. CASE d # Never
    <3>1. lower = c /\ due = d
      BY <2>3, Zenon
    <3> QED BY <2>1, <2>2, <2>3, <3>1, Zenon DEF Served
  <2>4. CASE d = Never /\ c = type
    <3>1. lower = c /\ due = now + CancelCharging
      BY <2>4, Zenon
    <3>2. TimeToRefund(c) \in Nat
      BY <1>2, RefundTimes, Zenon
    <3> HIDE DEF c, d, lower, due, s
    <3>3. x < due + TimeToRefund(lower)
      BY <1>2, <1>3, <2>1, <2>4, <3>1, <3>2
    <3>4. lower < lock_720_days => x < now + TimeToRefund(lower + 1)
      BY <2>1, <3>1, Zenon
    <3> QED BY <1>5, <2>2, <3>3, <3>4, Zenon DEF Served
  <2>5. CASE d = Never /\ c # type
    <3>1. lower = c - 1 /\ due = now + SecondsToDowngrade[lower] /\ lower \in 0..2 /\ c = lower + 1
      BY <1>2, <2>5
    <3>2. /\ TimeToRefund(lower) \in Nat /\ SecondsToDowngrade[lower] \in Nat
          /\ TimeToRefund(lower + 1) = TimeToRefund(lower) + SecondsToDowngrade[lower]
      BY <3>1, RefundTimes
    <3>3. x < now + TimeToRefund(lower + 1)
      BY <2>1, <2>5, <3>1, Zenon
    <3> HIDE DEF c, d, lower, due, s
    <3>4. x < due + TimeToRefund(lower)
      BY <1>2, <3>1, <3>2, <3>3
    <3> QED BY <1>5, <2>2, <3>3, <3>4, Zenon DEF Served
  <2> QED BY <2>3, <2>4, <2>5, Zenon
<1> HIDE DEF lower, due
<1>8. s \in Ticket /\ s.current_type # lock_forever /\ s.status = "withdrawing"
  <2>1. s \in Ticket
    BY <1>5, <1>6, Zenon DEF Ticket
  <2>2. s.current_type = lower /\ s.status = "withdrawing"
    BY Zenon DEF Ticket
  <2> QED BY <1>6, <2>1, <2>2, Zenon
<1>9. Prompt(s)
  BY <1>8, Zenon DEF Prompt
<1> HIDE DEF s
<1> QED BY <1>1, <1>7, <1>8, <1>9, Zenon

(* A new target gains no time.                                             *)
LEMMA TargetServed ==
    ASSUME NEW t \in Ticket, Scheduled(t), Prompt(t), t.current_type # lock_forever,
           now \in 0..MaxTime, t.next_auto_update_time > now, NEW type \in ticket_type
    PROVE  LET u == update_target_type(t, type)
           IN  Prompt(u) /\ \A x \in Int : Served(t, x, now) => Served(u, x, now)
<1> DEFINE s == IF t.current_type < type THEN start_charging(t)
                ELSE start_withdrawing(t, type)
           r == [s EXCEPT !.target_type = type]
           u == update_value(r, version)
<1>1. update_target_type(t, type) = u
  BY Zenon DEF update_target_type
<1>2. s \in Ticket /\ Prompt(s) /\ \A x \in Int : Served(t, x, now) => Served(s, x, now)
  <2>1. CASE t.current_type < type
    <3>1. s = start_charging(t) /\ now \in Nat
      BY <2>1
    <3> HIDE DEF s
    <3> QED BY <3>1, ChargingServed, Zenon
  <2>2. CASE ~ (t.current_type < type)
    <3>1. s = start_withdrawing(t, type)
      BY <2>2, Zenon
    <3>2. type <= t.current_type
      BY <2>2 DEF Ticket, ticket_type, liquid, lock_forever
    <3> HIDE DEF s
    <3> QED BY <3>1, <3>2, WithdrawingServed, Zenon
  <2> QED BY <2>1, <2>2, Zenon
<1> HIDE DEF s
<1>3. r \in Ticket /\ SameTerms(s, r)
  <2>1. r \in Ticket
    BY <1>2, Zenon DEF Ticket
  <2> QED BY <1>2, <2>1, UpdateSame, Zenon
<1> HIDE DEF r
<1>4. SameTerms(r, u)
  BY <1>3, UpdateSame, Zenon
<1> HIDE DEF u
<1>5. Prompt(u) /\ \A x \in Int : Served(s, x, now) => Served(u, x, now)
  BY <1>2, <1>3, <1>4, SameServed, Zenon
<1> QED BY <1>1, <1>2, <1>5, Zenon

(* The part that is split off is as prompt as the ticket it comes from.    *)
LEMMA SplitPrompt ==
    ASSUME NEW t \in Ticket, Scheduled(t), Prompt(t), t.current_type # lock_forever,
           now \in 0..MaxTime, t.next_auto_update_time > now, NEW type \in ticket_type,
           NEW d \in Nat \ {0}
    PROVE  Prompt(init_split(t, type, d))
<1> DEFINE u == [t EXCEPT !.amount = d]
<1>1. /\ u \in Ticket /\ Scheduled(u) /\ u.current_type # lock_forever
      /\ u.next_auto_update_time > now
  BY Zenon DEF Ticket, Scheduled
<1>2. Prompt(u)
  BY UpdateSame, SameServed, Zenon
<1> HIDE DEF u
<1>3. Prompt(update_target_type(u, type))
  BY <1>1, <1>2, TargetServed, Zenon
<1> QED BY <1>3, Zenon DEF init_split, u

(* What an automatic update does to the type and to the downgrade time.    *)
LEMMA AutoTerms ==
    ASSUME NEW t, TicketOK(t, version), ~ Refundable(t), t.current_type # lock_forever,
           t.next_auto_update_time <= now, now \in 0..MaxTime, version \in {1, 2},
           auto_update(t).current_type # lock_forever
    PROVE  LET c == t.current_type
               d == t.next_type_downgrade_time
               u == auto_update(t)
           IN  \/ c < lock_720_days /\ u.current_type = c + 1 /\ u.next_type_downgrade_time = Never
               \/ /\ d # Never /\ d <= now
                  /\ u.current_type = c /\ u.next_type_downgrade_time = Never
               \/ /\ d # Never /\ d <= now /\ c > 0 /\ u.status = "withdrawing"
                  /\ u.current_type = c - 1
                  /\ u.next_type_downgrade_time = d + SecondsToDowngrade[c - 1]
<1> DEFINE c == t.current_type
           d == t.next_type_downgrade_time
           a == t.next_auto_update_time
           u == auto_update(t)
<1>1. /\ t \in Ticket /\ Scheduled(t) /\ c \in 0..3 /\ a \in Nat /\ t.target_type \in 0..4
      /\ t.status \in {"charging", "stable", "withdrawing"} /\ d \in Nat
  BY DEF TicketOK, Ticket, ticket_type, liquid, lock_forever
<1>2. /\ a # Never /\ t.status # "stable" /\ Never \in Nat
      /\ a + ChargingStep \in Nat /\ \A k \in 0..2 : a + SecondsToDowngrade[k] \in Nat
  BY <1>1, TicketAssumption DEF Scheduled
<1>3. CASE t.status = "charging"
  <2> DEFINE next == c + 1
             late == a + ChargingStep
             more == [t EXCEPT !.current_type = next, !.next_type_downgrade_time = Never,
                               !.next_auto_update_time = late]
             last == [t EXCEPT !.current_type = next, !.next_type_downgrade_time = Never,
                               !.status = "stable", !.next_auto_update_time = Never]
  <2>1. c < t.target_type /\ u = update_value(auto_charge(t), version)
    BY <1>1, <1>3, Zenon DEF Scheduled, auto_update
  <2>2. next \in ticket_type
    BY <1>1 DEF ticket_type, liquid, lock_forever
  <2>3. next # lock_forever
    <3>1. ASSUME next = lock_forever PROVE u.current_type = lock_forever
      <4>1. ~ (next < t.target_type)
        BY <1>1, <3>1 DEF lock_forever
      <4>2. [t EXCEPT !.current_type = next].current_type = lock_forever
        BY <1>1, <3>1, Zenon DEF Ticket
      <4>3. auto_charge(t).current_type = lock_forever
        BY <1>1, <3>1, <4>1, <4>2, Zenon DEF auto_charge, Ticket
      <4> QED BY <2>1, <4>3, Zenon DEF update_value
    <3> QED BY <3>1, Zenon
  <2>4. auto_charge(t) = more \/ auto_charge(t) = last
    BY <1>1, <2>1, <2>3, Zenon DEF auto_charge, Ticket
  <2>5. next \in 0..3 /\ c < lock_720_days
    BY <1>1, <2>3 DEF lock_forever, lock_720_days
  <2>6. late \in Nat
    BY <1>2, Zenon
  <2> HIDE DEF next, late
  <2>7. more \in Ticket /\ last \in Ticket
    BY <1>1, <1>2, <2>2, <2>6, Zenon DEF Ticket
  <2>8. /\ more.current_type = next /\ more.next_type_downgrade_time = Never
        /\ last.current_type = next /\ last.next_type_downgrade_time = Never
    BY <1>1, Zenon DEF Ticket
  <2> HIDE DEF more, last, u
  <2>9. u.current_type = next /\ u.next_type_downgrade_time = Never
    <3>1. SameTerms(more, update_value(more, version)) /\ SameTerms(last, update_value(last, version))
      BY <2>7, UpdateSame, Zenon
    <3> QED BY <2>1, <2>4, <2>8, <3>1, Zenon DEF SameTerms
  <2> QED BY <2>5, <2>9, Zenon DEF next, u
<1>4. CASE t.status = "withdrawing"
  <2>1. /\ d = a /\ c # liquid /\ u = update_value(auto_downgrade(t), version)
    BY <1>1, <1>4, Zenon DEF Scheduled, Refundable, auto_update
  <2>2. c > 0 /\ d # Never /\ d <= now /\ c - 1 \in 0..2
    BY <1>1, <1>2, <2>1 DEF liquid
  <2> DEFINE lower == c - 1
             due == d + SecondsToDowngrade[lower]
             done == [t EXCEPT !.status = "stable", !.next_type_downgrade_time = Never,
                               !.next_auto_update_time = Never]
             down == [t EXCEPT !.current_type = lower, !.next_type_downgrade_time = due,
                               !.next_auto_update_time = due]
  <2>3. auto_downgrade(t) = done \/ auto_downgrade(t) = down
    BY Zenon DEF auto_downgrade
  <2>4. due \in Nat /\ lower \in ticket_type
    BY <1>2, <2>1, <2>2 DEF ticket_type, liquid, lock_forever
  <2> HIDE DEF lower, due
  <2>5. done \in Ticket /\ down \in Ticket
    BY <1>1, <1>2, <2>4, Zenon DEF Ticket
  <2>6. /\ done.current_type = c /\ done.next_type_downgrade_time = Never
        /\ down.current_type = lower /\ down.next_type_downgrade_time = due
        /\ down.status = "withdrawing"
    BY <1>1, <1>4, Zenon DEF Ticket
  <2> HIDE DEF done, down, u
  <2>7. \/ u.current_type = c /\ u.next_type_downgrade_time = Never
        \/ /\ u.current_type = lower /\ u.next_type_downgrade_time = due
           /\ u.status = "withdrawing"
    <3>1. SameTerms(done, update_value(done, version)) /\ SameTerms(down, update_value(down, version))
      BY <2>5, UpdateSame, Zenon
    <3> QED BY <2>1, <2>3, <2>6, <3>1, Zenon DEF SameTerms
  <2> QED BY <2>2, <2>7, Zenon DEF lower, due, u
<1> QED BY <1>1, <1>2, <1>3, <1>4, Zenon

(* An automatic update gains no time.                                      *)
LEMMA AutoServed ==
    ASSUME NEW t, TicketOK(t, version), ~ Refundable(t),
           t.next_auto_update_time <= now, now \in 0..MaxTime, version \in {1, 2}
    PROVE  LET u == auto_update(t)
           IN  /\ Prompt(u)
               /\ u.current_type # lock_forever =>
                     /\ t.current_type # lock_forever
                     /\ \A x \in Int : Served(t, x, now) => Served(u, x, now)
<1> DEFINE u == auto_update(t)
           c == t.current_type
           d == t.next_type_downgrade_time
<1>1. TicketOK(u, version) /\ (t.current_type = lock_forever => u.current_type = lock_forever)
  BY AutoUpdateOK, Zenon
<1>2. CASE u.current_type = lock_forever
  <2>1. u.next_type_downgrade_time = Never
    BY <1>1, <1>2, Zenon DEF TicketOK, Scheduled
  <2> QED BY <1>2, <2>1, Zenon DEF Prompt
<1>3. CASE u.current_type # lock_forever
  <2>1. t.current_type # lock_forever
    BY <1>1, <1>3, Zenon
  <2>2. \/ c < lock_720_days /\ u.current_type = c + 1 /\ u.next_type_downgrade_time = Never
        \/ d # Never /\ d <= now /\ u.current_type = c /\ u.next_type_downgrade_time = Never
        \/ /\ d # Never /\ d <= now /\ c > 0 /\ u.status = "withdrawing"
           /\ u.current_type = c - 1
           /\ u.next_type_downgrade_time = d + SecondsToDowngrade[c - 1]
    BY <1>3, <2>1, AutoTerms, Zenon
  <2>3. c \in 0..3 /\ d \in Nat /\ now \in Nat /\ Never \in Nat
    BY <2>1, TicketAssumption DEF TicketOK, Ticket, ticket_type, liquid, lock_forever
  <2>4. Prompt(u)
    <3>1. u.next_type_downgrade_time = Never \/ u.status = "withdrawing"
      BY <2>2, Zenon
    <3> HIDE DEF u
    <3> QED BY <3>1, Zenon DEF Prompt
  <2>5. ASSUME NEW x \in Int, Served(t, x, now) PROVE Served(u, x, now)
    <3>1. /\ x < (IF d = Never THEN now ELSE d) + TimeToRefund(c)
          /\ c < lock_720_days => x < now + TimeToRefund(c + 1)
      BY <2>5, Zenon DEF Served
    <3> HIDE DEF u, c, d
    <3>2. CASE c < lock_720_days /\ u.current_type = c + 1 /\ u.next_type_downgrade_time = Never
      <4> DEFINE e == c + 1
      <4>1. e \in 0..3 /\ x < now + TimeToRefund(e) /\ TimeToRefund(e) \in Nat
        BY <2>3, <3>1, <3>2, RefundTimes DEF lock_720_days
      <4>2. e < lock_720_days => e + 1 \in 0..3 /\ e <= e + 1
        BY <4>1 DEF lock_720_days
      <4>3. e < lock_720_days => TimeToRefund(e + 1) \in Nat /\ TimeToRefund(e) <= TimeToRefund(e + 1)
        BY <4>1, <4>2, RefundTimes, Zenon
      <4> HIDE DEF e
      <4>4. e < lock_720_days => x < now + TimeToRefund(e + 1)
        BY <2>3, <4>1, <4>3
      <4>5. u.current_type = e
        BY <3>2, Zenon DEF e
      <4> QED BY <3>2, <4>1, <4>4, <4>5, Zenon DEF Served
    <3>3. CASE d # Never /\ d <= now /\ u.current_type = c /\ u.next_type_downgrade_time = Never
      <4>1. TimeToRefund(c) \in Nat
        BY <2>3, RefundTimes, Zenon
      <4>2. x < now + TimeToRefund(c)
        BY <2>3, <3>1, <3>3, <4>1
      <4> QED BY <3>1, <3>3, <4>2, Zenon DEF Served
    <3>4. CASE /\ d # Never /\ d <= now /\ c > 0 /\ u.status = "withdrawing"
               /\ u.current_type = c - 1
               /\ u.next_type_downgrade_time = d + SecondsToDowngrade[c - 1]
      <4> DEFINE e == c - 1
                 S == SecondsToDowngrade[e]
      <4>1. e \in 0..2 /\ c = e + 1
        BY <2>3, <3>4
      <4>2. S \in Nat /\ TimeToRefund(e) \in Nat /\ TimeToRefund(e + 1) = TimeToRefund(e) + S
        BY <4>1, RefundTimes
      <4>3. x < d + TimeToRefund(e + 1)
        BY <3>1, <3>4, <4>1, Zenon
      <4>4. u.current_type = e /\ u.next_type_downgrade_time = d + S
        BY <3>4, Zenon
      <4> HIDE DEF e, S
      <4>5. d <= now /\ x < (d + S) + TimeToRefund(e) /\ x < now + TimeToRefund(e + 1)
        BY <2>3, <3>4, <4>1, <4>2, <4>3
      <4>6. x < (IF d + S = Never THEN now ELSE d + S) + TimeToRefund(e)
        <5>1. d + S # Never
          BY <1>1, <1>3, <3>4, <4>4, Zenon DEF TicketOK, Scheduled
        <5> QED BY <4>5, <5>1, Zenon
      <4> QED BY <4>4, <4>5, <4>6, Zenon DEF Served
    <3> QED BY <2>2, <3>2, <3>3, <3>4, Zenon DEF u, c, d
  <2> QED BY <2>1, <2>4, <2>5, Zenon
<1> QED BY <1>2, <1>3, Zenon

(* What a step does to `held', given what it does to the tickets.          *)
LEMMA HeldStep ==
    ASSUME TermsInv, TNext, TicketInv',
           \A i \in DOMAIN tickets' : Prompt(tickets'[i]),
           \A i \in DOMAIN tickets' \cap DOMAIN tickets :
              tickets'[i].current_type # lock_forever =>
                 /\ tickets[i].current_type # lock_forever
                 /\ \A x \in Int : Served(tickets[i], x, now) => Served(tickets'[i], x, now')
    PROVE  TermsInv'
<1>1. held' = [i \in DOMAIN tickets' |->
                  [k \in TermType |->
                      IF loop' = "idle" /\ tickets'[i].current_type >= k
                      THEN now' ELSE IF i \in DOMAIN tickets THEN held[i][k]
                      ELSE -1]]
  BY Zenon DEF TNext
<1>2. ASSUME NEW i \in DOMAIN tickets', NEW k \in TermType
      PROVE  /\ held'[i][k] \in Int
             /\ held'[i][k] >= 0 /\ tickets'[i].current_type # lock_forever =>
                   Served(tickets'[i], held'[i][k] + TimeToRefund(k) - ChargingStep, now')
  <2>1. held'[i][k] = IF loop' = "idle" /\ tickets'[i].current_type >= k
                      THEN now' ELSE IF i \in DOMAIN tickets THEN held[i][k]
                      ELSE -1
    BY <1>1, <1>2, Zenon
  <2>2. k \in 0..3 /\ TimeToRefund(k) \in Nat /\ ChargingStep \in Nat
    BY <1>2, RefundTimes, TicketAssumption DEF TermType, lock_720_days
  <2>3. CASE loop' = "idle" /\ tickets'[i].current_type >= k
    <3>1. held'[i][k] = now'
      BY <2>1, <2>3, Zenon
    <3>2. /\ tickets'[i] \in Ticket /\ Scheduled(tickets'[i]) /\ now' \in 0..MaxTime
          /\ tickets'[i].next_auto_update_time > now'
      <4>1. NothingOverdue'
        BY Zenon DEF TicketInv
      <4>2. tickets'[i].next_auto_update_time > now'
        BY <2>3, <4>1, Zenon DEF NothingOverdue
      <4> QED BY <4>2, Zenon DEF TicketInv, TicketOK, TypeOK
    <3>3. now' \in Nat /\ k <= tickets'[i].current_type
      BY <2>2, <2>3, <3>2 DEF Ticket, ticket_type, liquid, lock_forever
    <3>4. Prompt(tickets'[i])
      BY Zenon
    <3>5. tickets'[i].current_type # lock_forever =>
             Served(tickets'[i], now' + TimeToRefund(k) - ChargingStep, now')
      BY <3>2, <3>3, <3>4, ServedNow, Zenon
    <3>6. now' \in Int
      BY <3>3
    <3> QED BY <3>1, <3>5, <3>6, Zenon
  <2>4. CASE ~ (loop' = "idle" /\ tickets'[i].current_type >= k) /\ i \in DOMAIN tickets
    <3>1. held'[i][k] = held[i][k]
      BY <2>1, <2>4, Zenon
    <3>2. /\ held[i][k] \in Int
          /\ held[i][k] >= 0 /\ tickets[i].current_type # lock_forever =>
                Served(tickets[i], held[i][k] + TimeToRefund(k) - ChargingStep, now)
      BY <2>4, Zenon DEF TermsInv
    <3>3. held[i][k] + TimeToRefund(k) - ChargingStep \in Int
      BY <2>2, <3>2
    <3>4. i \in DOMAIN tickets' \cap DOMAIN tickets
      BY <1>2, <2>4, Zenon
    <3> QED BY <3>1, <3>2, <3>3, <3>4, Zenon
  <2>5. CASE ~ (loop' = "idle" /\ tickets'[i].current_type >= k) /\ i \notin DOMAIN tickets
    <3>1. held'[i][k] = -1
      BY <2>1, <2>5, Zenon
    <3> QED BY <3>1
  <2> QED BY <2>3, <2>4, <2>5, Zenon
<1>3. DOMAIN held' = DOMAIN tickets'
  BY <1>1, Zenon
<1> QED BY <1>2, <1>3, Zenon DEF TermsInv

(* Every step keeps the invariant.                                         *)
LEMMA TermsStep == TermsInv /\ [TNext]_tvars => TermsInv'
<1> SUFFICES ASSUME TermsInv, [TNext]_tvars PROVE TermsInv'
  OBVIOUS
<1>0. /\ now \in 0..MaxTime /\ now \in Int /\ MaxTime \in Nat /\ version \in {1, 2}
      /\ next_id \in Nat
      /\ \A i \in DOMAIN tickets :
            /\ tickets[i] \in Ticket /\ Scheduled(tickets[i])
            /\ TicketOK(tickets[i], version) /\ i # next_id
            /\ Prompt(tickets[i])
            /\ loop = "idle" => tickets[i].next_auto_update_time > now
  <2>1. TypeOK /\ NothingOverdue
    BY Zenon DEF TermsInv, TicketInv
  <2>2. now \in 0..MaxTime /\ now \in Int /\ MaxTime \in Nat /\ version \in {1, 2} /\ next_id \in Nat
    BY <2>1, TicketAssumption DEF TypeOK
  <2>3. \A i \in DOMAIN tickets : i # next_id
    BY <2>1, <2>2 DEF TypeOK
  <2>4. loop = "idle" => \A i \in DOMAIN tickets : tickets[i].next_auto_update_time > now
    BY <2>1, Zenon DEF NothingOverdue
  <2> QED BY <2>2, <2>3, <2>4, Zenon DEF TermsInv, TicketInv, TicketOK
<1> DEFINE Sound(i) ==
              /\ Prompt(tickets'[i])
              /\ i \in DOMAIN tickets /\ tickets'[i].current_type # lock_forever =>
                    /\ tickets[i].current_type # lock_forever
                    /\ \A x \in Int : Served(tickets[i], x, now) => Served(tickets'[i], x, now')
<1>1. ASSUME NEW i \in DOMAIN tickets, tickets'[i] = tickets[i], now' = now
      PROVE  Sound(i)
  BY <1>0, <1>1, Zenon
<1>2. ASSUME NEW a \in Account, NEW type \in ticket_type, NEW amount \in Amount,
             ticket_create(a, type, amount)
      PROVE  \A i \in DOMAIN tickets' : Sound(i)
  <2> DEFINE t == init_new(a, type, amount)
  <2>1. /\ DOMAIN tickets' = DOMAIN tickets \cup {next_id} /\ tickets'[next_id] = t
        /\ \A i \in DOMAIN tickets : tickets'[i] = IF i = next_id THEN t ELSE tickets[i]
        /\ now' = now
    BY <1>2, Zenon DEF ticket_create, With
  <2>2. Prompt(t)
    <3> DEFINE new == [account |-> a, target_type |-> type, amount |-> amount,
                       current_type |-> liquid, status |-> "charging", value |-> 0,
                       next_auto_update_time |-> now + ChargingStep,
                       next_type_downgrade_time |-> Never]
    <3>1. t = update_value(new, version) /\ new.next_type_downgrade_time = Never
      BY Zenon DEF init_new
    <3>2. update_value(new, version).next_type_downgrade_time = Never
      BY Zenon DEF update_value
    <3> HIDE DEF new, t
    <3> QED BY <3>1, <3>2, Zenon DEF Prompt
  <2> HIDE DEF t
  <2>3. \A i \in DOMAIN tickets : tickets'[i] = tickets[i] /\ i # next_id
    BY <1>0, <2>1, Zenon
  <2>4. \A i \in DOMAIN tickets : Sound(i)
    BY <1>1, <2>1, <2>3, Zenon
  <2>5. next_id \notin DOMAIN tickets
    BY <1>0, Zenon
  <2>6. Sound(next_id)
    BY <2>1, <2>2, <2>5, Zenon
  <2> HIDE DEF Sound
  <2> QED BY <2>1, <2>4, <2>6, Zenon
<1>3. ASSUME NEW id \in DOMAIN tickets, NEW type \in ticket_type, ticket_update(id, type)
      PROVE  \A i \in DOMAIN tickets' : Sound(i)
  <2> DEFINE u == update_target_type(tickets[id], type)
  <2>1. /\ tickets' = [tickets EXCEPT ![id] = u] /\ now' = now
        /\ tickets[id].current_type # lock_forever /\ loop = "idle"
    BY <1>3, Zenon DEF ticket_update, CanUpdate
  <2>2. Prompt(u) /\ \A x \in Int : Served(tickets[id], x, now) => Served(u, x, now)
    BY <1>0, <2>1, TargetServed, Zenon
  <2> HIDE DEF u
  <2>3. /\ DOMAIN tickets' = DOMAIN tickets /\ tickets'[id] = u
        /\ \A i \in DOMAIN tickets : i # id => tickets'[i] = tickets[i]
    BY <2>1, Zenon
  <2>4. Sound(id)
    BY <2>1, <2>2, <2>3, Zenon
  <2>5. \A i \in DOMAIN tickets : i # id => Sound(i)
    BY <1>1, <2>1, <2>3, Zenon
  <2> HIDE DEF Sound
  <2> QED BY <2>3, <2>4, <2>5, Zenon
<1>4. ASSUME NEW id \in DOMAIN tickets, NEW type \in ticket_type, NEW amount \in Amount,
             ticket_split(id, type, amount)
      PROVE  \A i \in DOMAIN tickets' : Sound(i)
  <2> DEFINE new == init_split(tickets[id], type, amount)
             rest == adjust_amount(tickets[id], -amount)
  <2>1. /\ DOMAIN tickets' = DOMAIN tickets \cup {next_id} /\ now' = now
        /\ \A i \in DOMAIN tickets' :
              tickets'[i] = CASE i = next_id -> new
                              [] i = id      -> rest
                              [] OTHER       -> tickets[i]
        /\ tickets[id].current_type # lock_forever /\ loop = "idle"
    BY <1>4, Zenon DEF ticket_split, CanUpdate
  <2>2. amount \in Nat \ {0}
    BY TicketAssumption, Zenon
  <2>3. Prompt(new)
    BY <1>0, <2>1, <2>2, SplitPrompt, Zenon
  <2>4. SameTerms(tickets[id], rest)
    BY <1>0, UpdateSame, Zenon
  <2>5. Prompt(rest) /\ \A x \in Int : Served(tickets[id], x, now) => Served(rest, x, now)
    BY <1>0, <2>4, SameServed, Zenon
  <2> HIDE DEF new, rest
  <2>6. id # next_id /\ next_id \notin DOMAIN tickets
    BY <1>0, Zenon
  <2>7. /\ tickets'[next_id] = new /\ tickets'[id] = rest
        /\ \A i \in DOMAIN tickets : i # id => tickets'[i] = tickets[i]
    BY <2>1, <2>6, Zenon
  <2>8. Sound(id)
    BY <2>1, <2>5, <2>7, Zenon
  <2>9. Sound(next_id)
    BY <2>3, <2>6, <2>7, Zenon
  <2>10. \A i \in DOMAIN tickets : i # id => Sound(i)
    BY <1>1, <2>1, <2>7, Zenon
  <2> HIDE DEF Sound
  <2> QED BY <2>1, <2>8, <2>9, <2>10, Zenon
<1>5. ASSUME NEW d \in Steps, apply_block(d)
      PROVE  \A i \in DOMAIN tickets' : Sound(i)
  <2>1. tickets' = tickets /\ now' = now + d /\ d \in Nat
    BY <1>5, TicketAssumption, Zenon DEF apply_block
  <2>2. now' \in Int /\ now <= now'
    BY <1>0, <2>1
  <2>3. \A i \in DOMAIN tickets : tickets[i].current_type # lock_forever =>
            \A x \in Int : Served(tickets[i], x, now) => Served(tickets[i], x, now')
    BY <1>0, <2>2, ServedLater, Zenon
  <2> QED BY <1>0, <2>1, <2>3, Zenon
<1>6. ASSUME NEW id \in DOMAIN tickets, refund_ticket(id)
      PROVE  \A i \in DOMAIN tickets' : Sound(i)
  <2>1. /\ DOMAIN tickets' = DOMAIN tickets \ {id} /\ now' = now
        /\ \A i \in DOMAIN tickets' : tickets'[i] = tickets[i]
    BY <1>6, Zenon DEF refund_ticket, Without
  <2> QED BY <1>1, <2>1, Zenon
<1>7. ASSUME NEW id \in DOMAIN tickets, update_ticket(id)
      PROVE  \A i \in DOMAIN tickets' : Sound(i)
  <2> DEFINE t == tickets[id]
             u == auto_update(t)
  <2>1. /\ tickets' = [tickets EXCEPT ![id] = u] /\ now' = now /\ ~ Refundable(t)
        /\ t.next_auto_update_time <= now
    BY <1>7, Zenon DEF update_ticket, Due
  <2>2. /\ Prompt(u)
        /\ u.current_type # lock_forever =>
              /\ t.current_type # lock_forever
              /\ \A x \in Int : Served(t, x, now) => Served(u, x, now)
    BY <1>0, <2>1, AutoServed, Zenon
  <2> HIDE DEF u
  <2>3. /\ DOMAIN tickets' = DOMAIN tickets /\ tickets'[id] = u
        /\ \A i \in DOMAIN tickets : i # id => tickets'[i] = tickets[i]
    BY <2>1, Zenon
  <2>4. Sound(id)
    BY <2>1, <2>2, <2>3, Zenon
  <2>5. \A i \in DOMAIN tickets : i # id => Sound(i)
    BY <1>1, <2>1, <2>3, Zenon
  <2> HIDE DEF Sound
  <2> QED BY <2>3, <2>4, <2>5, Zenon
<1>8. ASSUME process_hf_2262
      PROVE  \A i \in DOMAIN tickets' : Sound(i)
  <2>1. /\ DOMAIN tickets' = DOMAIN tickets /\ now' = now
        /\ \A i \in DOMAIN tickets :
              \/ tickets'[i] = tickets[i]
              \/ tickets'[i] = [tickets[i] EXCEPT !.value = 0]
    BY <1>8, Zenon DEF process_hf_2262
  <2>2. ASSUME NEW i \in DOMAIN tickets, tickets'[i] = [tickets[i] EXCEPT !.value = 0]
        PROVE  Sound(i)
    <3>1. SameTerms(tickets[i], tickets'[i])
      <4>1. tickets[i] \in Ticket
        BY <1>0, Zenon
      <4>2. SameTerms(tickets[i], [tickets[i] EXCEPT !.value = 0])
        BY <4>1, Zenon DEF SameTerms, Ticket
      <4> QED BY <2>2, <4>2, Zenon
    <3>2. tickets'[i].current_type = tickets[i].current_type
      BY <3>1, Zenon DEF SameTerms
    <3> QED BY <1>0, <2>1, <3>1, <3>2, SameServed, Zenon
  <2> QED BY <1>1, <2>1, <2>2, Zenon
<1>9. ASSUME end_process_tickets \/ end_block
      PROVE  \A i \in DOMAIN tickets' : Sound(i)
  <2>1. tickets' = tickets /\ now' = now
    BY <1>9, Zenon DEF end_process_tickets, end_block
  <2> QED BY <1>1, <2>1, Zenon
<1>10. CASE TNext
  <2>1. Next /\ HNext
    BY <1>10, Zenon DEF TNext, HNext
  <2>2. TicketInv'
    BY <2>1, TicketStep, Zenon DEF TermsInv
  <2>3. \A i \in DOMAIN tickets' : Sound(i)
    <3> HIDE DEF Sound
    <3> QED BY <1>2, <1>3, <1>4, <1>5, <1>6, <1>7, <1>8, <1>9, <2>1, Zenon
        DEF Next, Operation, Loop
  <2> QED BY <1>10, <2>2, <2>3, HeldStep, Zenon
<1>11. CASE UNCHANGED tvars
  <2>1. UNCHANGED hvars /\ UNCHANGED held
    BY <1>11, Zenon DEF tvars
  <2>2. TicketInv'
    BY <2>1, TicketStep, Zenon DEF TermsInv
  <2>3. UNCHANGED <<now, tickets>>
    BY <2>1, Zenon DEF hvars, vars
  <2> QED BY <2>1, <2>2, <2>3, Zenon DEF TermsInv
<1> QED BY <1>10, <1>11, Zenon

(* The invariant of the terms.                                             *)
LEMMA TermsInvariant == TSpec => []TermsInv
<1>1. TInit => TermsInv
  <2> SUFFICES ASSUME TInit PROVE TermsInv
    OBVIOUS
  <2>1. HInit /\ held = [i \in {} |-> 0] /\ tickets = [i \in {} |-> 0]
    BY Zenon DEF TInit, HInit, Init
  <2>2. TicketInv
    BY <2>1, TicketInit, Zenon
  <2> QED BY <2>1, <2>2, Zenon DEF TermsInv
<1> QED BY <1>1, TermsStep, PTL DEF TSpec

(* A ticket is refunded no sooner than the full terms after it last had a  *)
(* type, short of less than one charging step, whatever updates, splits    *)
(* and late blocks came between, for any terms and any charging step.      *)
THEOREM TermsServed == TSpec => TermsAreServed
<1>1. ASSUME TermsInv, [TNext]_tvars
      PROVE  [\A i \in DOMAIN tickets \ DOMAIN tickets' :
                 \A k \in TermType :
                    held[i][k] >= 0 => now > held[i][k] + TimeToRefund(k) - ChargingStep]_tvars
  <2> SUFFICES ASSUME TNext, NEW i \in DOMAIN tickets \ DOMAIN tickets', NEW k \in TermType,
                      held[i][k] >= 0
               PROVE  now > held[i][k] + TimeToRefund(k) - ChargingStep
    BY <1>1, Zenon
  <2>1. refund_ticket(i)
    <3>1. Next
      BY Zenon DEF TNext, HNext
    <3>2. ASSUME NEW id \in DOMAIN tickets, refund_ticket(id) PROVE id = i
      BY <3>2, Zenon DEF refund_ticket, Without
    <3>3. ~ \E a, type, amount : ticket_create(a, type, amount)
      BY Zenon DEF ticket_create, With
    <3>4. ~ \E id, type : ticket_update(id, type) \/ \E amount : ticket_split(id, type, amount)
      BY Zenon DEF ticket_update, ticket_split
    <3>5. ~ \E id : update_ticket(id)
      BY Zenon DEF update_ticket
    <3>6. ~ (process_hf_2262 \/ end_block \/ end_process_tickets \/ \E d : apply_block(d))
      BY Zenon DEF process_hf_2262, end_block, end_process_tickets, apply_block
    <3> QED BY <3>1, <3>2, <3>3, <3>4, <3>5, <3>6, Zenon DEF Next, Operation, Loop
  <2> DEFINE t == tickets[i]
             x == held[i][k] + TimeToRefund(k) - ChargingStep
             d == t.next_type_downgrade_time
  <2>2. /\ t.status = "withdrawing" /\ t.current_type = 0 /\ t.next_auto_update_time <= now
    BY <2>1, Zenon DEF refund_ticket, Refundable, Due, liquid
  <2>3. Scheduled(t) /\ t \in Ticket /\ now \in 0..MaxTime
    BY <1>1, Zenon DEF TermsInv, TicketInv, TicketOK, TypeOK
  <2>4. t.current_type # lock_forever
    BY <2>2 DEF lock_forever
  <2>5. d # Never /\ d <= now
    BY <2>2, <2>3, <2>4, Zenon DEF Scheduled
  <2>6. Served(t, x, now) /\ held[i][k] \in Int
    BY <1>1, <2>4, Zenon DEF TermsInv
  <2>7. x < d + TimeToRefund(0)
    BY <2>2, <2>5, <2>6, Zenon DEF Served
  <2>8. TimeToRefund(0) = 0 /\ x \in Int /\ d \in Nat /\ now \in Nat
    BY <2>3, <2>6, RefundTimes, TicketAssumption DEF Ticket, TermType, lock_720_days
  <2> HIDE DEF x, d
  <2>9. now > x
    BY <2>5, <2>7, <2>8
  <2> QED BY <2>9, Zenon DEF x
<1> QED BY <1>1, TermsInvariant, PTL DEF TSpec, TermsAreServed
================================================================================
