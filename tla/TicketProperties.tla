--------------------------- MODULE TicketProperties ---------------------------
(***************************************************************************)
(* What tickets promise.  A history variable is added: `touched', the      *)
(* tickets that the running ticket_update has written itself.              *)
(***************************************************************************)
EXTENDS Tickets

VARIABLE touched

hvars == <<vars, touched>>

HInit == Init /\ touched = {}

(* The tickets an operation writes are those it changes or creates; a step *)
(* of the loop or of a block leaves `touched' alone.                       *)
Changed == {i \in DOMAIN tickets' :
               i \notin DOMAIN tickets \/ tickets'[i] # tickets[i]}

HNext ==
    /\ Next
    /\ touched' = IF loop = "idle" THEN Changed ELSE touched

HSpec == HInit /\ [][HNext]_hvars
--------------------------------------------------------------------------------
TypeOK ==
    /\ now \in 0..MaxTime
    /\ version \in {1, 2}
    /\ balance \in [Account -> Nat]
    /\ next_id \in 1..(MaxTickets + 1)
    /\ DOMAIN tickets \subseteq 1..(next_id - 1)
    /\ \A i \in DOMAIN tickets : tickets[i] \in Ticket
    /\ loop \in {"idle", "block", "update", "maintenance"}

Faded(t) == t.current_type = lock_forever /\ t.value = 0
Burning(t) == t.current_type = lock_forever /\ t.value > 0
Locked(t) == t.current_type # lock_forever

Statistic == {"total_core_inactive", "total_core_pob", "total_core_pol",
              "total_pob_value", "total_pol_value"}

(* What ticket t counts for in statistic k, by the comments on the fields  *)
(* of account_statistics_object.                                           *)
Share(t, k) ==
    CASE k = "total_core_inactive" -> IF Faded(t) THEN t.amount ELSE 0
      [] k = "total_core_pob"      -> IF Burning(t) THEN t.amount ELSE 0
      [] k = "total_core_pol"      -> IF Locked(t) THEN t.amount ELSE 0
      [] k = "total_pob_value"     -> IF Burning(t) THEN t.value ELSE 0
      [] k = "total_pol_value"     -> IF Locked(t) THEN t.value ELSE 0

Shares(a, k) ==
    [i \in DOMAIN tickets |-> IF tickets[i].account = a THEN Share(tickets[i], k) ELSE 0]

StatOfAll(k) == [a \in Account |-> stats[a][k]]

(* The running totals in account_statistics_object, which decide voting    *)
(* power and are only ever changed by differences, are at every moment the *)
(* sums over the account's tickets that account_object.hpp says they are.  *)
(* Between handlers so are total_pob and total_inactive of the dynamic     *)
(* global properties, which process_tickets writes once, at its end.       *)
StatisticsMatchTickets ==
    /\ \A a \in Account : \A k \in Statistic : stats[a][k] = SumFunction(Shares(a, k))
    /\ loop = "idle" =>
          /\ global.total_pob = SumFunction(StatOfAll("total_core_pob"))
          /\ global.total_inactive = SumFunction(StatOfAll("total_core_inactive"))

(* What the value of a ticket must be: the amount times the multiplier of  *)
(* its type; locked for ever, one of four levels, or nothing once stable.  *)
ValueFits(t, v) ==
    IF t.current_type = lock_forever
    THEN /\ t.value \in {0, 2 * t.amount, 4 * t.amount, 6 * t.amount, 8 * t.amount}
         /\ t.value = 0 <=> t.status = "stable"
    ELSE t.value = t.amount * value_multiplier(t.current_type, v)

(* The value of every ticket is that of its current type under the version *)
(* in force, although it is stored and recomputed in four places; the      *)
(* one-time process_hf_2262 leaves no ticket with a value of version 1.    *)
ValueFollowsType == \A i \in DOMAIN tickets : ValueFits(tickets[i], version)

Scheduled(t) ==
    /\ t.status = "charging" =>
          /\ t.current_type < t.target_type
          /\ t.next_auto_update_time # Never
    /\ t.status = "stable" =>
          /\ t.current_type = t.target_type
          /\ t.next_auto_update_time = Never
          /\ t.next_type_downgrade_time = Never
    /\ t.status = "withdrawing" =>
          /\ t.current_type >= t.target_type
          /\ t.next_auto_update_time # Never
          /\ t.current_type # lock_forever =>
                t.next_type_downgrade_time = t.next_auto_update_time
    /\ t.current_type = lock_forever =>
          /\ t.target_type = lock_forever
          /\ t.next_type_downgrade_time = Never

(* The status of a ticket, its types and its two times fit together        *)
(* through any sequence of updates, splits and automatic updates.  This is *)
(* what auto_update relies on: a charging ticket has a type to charge to,  *)
(* a withdrawing one has a downgrade time that is not maximum().           *)
ScheduleIsConsistent == \A i \in DOMAIN tickets : Scheduled(tickets[i])

(* ticket_evaluator.cpp: "calling process_tickets() here won't affect other *)
(* tickets": the loop that ends a ticket_update only ever updates or       *)
(* refunds tickets that this ticket_update has written.                    *)
UpdateProcessesOwnTickets ==
    [][loop = "update" =>
          \A i \in DOMAIN tickets \ touched :
              i \in DOMAIN tickets' /\ tickets'[i] = tickets[i]]_hvars

(* Outside the loop no ticket is due: every block leaves each ticket with  *)
(* its next automatic update in the future.                                *)
NothingOverdue ==
    loop \in {"idle", "maintenance"} =>
        \A i \in DOMAIN tickets : tickets[i].next_auto_update_time > now

(* What is locked for ever stays so: the ticket keeps its amount, is never *)
(* refunded, and its value only falls.                                     *)
LockedForever ==
    [][\A i \in DOMAIN tickets :
          tickets[i].current_type = lock_forever =>
              /\ i \in DOMAIN tickets'
              /\ tickets'[i].current_type = lock_forever
              /\ tickets'[i].amount = tickets[i].amount
              /\ tickets'[i].value <= tickets[i].value]_hvars
================================================================================
