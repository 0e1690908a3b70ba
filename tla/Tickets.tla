-------------------------------- MODULE Tickets --------------------------------
(***************************************************************************)
(* Tickets: an account locks core tokens, for a term or for ever, and gets *)
(* voting value for it (ticket_object, ticket_evaluator and                *)
(* database::process_tickets).                                             *)
(*                                                                         *)
(* process_tickets is a loop over the tickets that are due.  It runs once  *)
(* in every block, after the head block time has moved, and once more at   *)
(* the end of every ticket_update, at an unchanged time.  Each iteration   *)
(* is a step here; `loop' says who called it, and nothing else may happen  *)
(* until it is over.                                                       *)
(***************************************************************************)
EXTENDS Integers, FiniteSets, Functions

CONSTANTS
    Account,
    Supply,             \* Supply[a]: what account a owns at the start
    Amount,             \* the amounts an operation may name
    MaxTickets,         \* bound: how many tickets are ever created
    MaxTime,            \* bound: the last block time considered
    Never,              \* time_point_sec::maximum()
    Steps,              \* the distances between block times considered
    ChargingStep,       \* seconds_per_charging_step
    CancelCharging,     \* seconds_to_cancel_charging
    ForeverStep,        \* seconds_per_lock_forever_update_step
    SecondsToDowngrade  \* seconds_to_downgrade, indexed by the lower type

(* ticket_type *)
liquid == 0
lock_720_days == 3
lock_forever == 4

ticket_type == liquid..lock_forever

ASSUME TicketAssumption ==
    /\ IsFiniteSet(Account)
    /\ Supply \in [Account -> Nat]
    /\ Amount \subseteq Nat \ {0}
    /\ MaxTickets \in Nat /\ MaxTime \in Nat /\ Never \in Nat
    /\ Steps \subseteq Nat \ {0}
    /\ ChargingStep \in Nat \ {0} /\ CancelCharging \in Nat \ {0}
    /\ ForeverStep \in Nat \ {0}
    /\ SecondsToDowngrade \in [0..2 -> Nat \ {0}]
    /\ MaxTime + ChargingStep < Never /\ MaxTime + CancelCharging < Never
    /\ MaxTime + ForeverStep < Never
    /\ \A k \in 0..2 : MaxTime + SecondsToDowngrade[k] < Never

VARIABLES
    now,            \* head_block_time
    version,        \* ticket_v1 or ticket_v2, decided by next_maintenance_time
    balance,        \* balance[a], in core tokens
    tickets,        \* the tickets, by id
    next_id,
    stats,          \* the totals kept in account_statistics_object
    global,         \* total_pob and total_inactive of the dynamic properties
    loop,           \* "idle", or the caller of process_tickets
    delta           \* total_delta_pob and total_delta_inactive of the loop

vars == <<now, version, balance, tickets, next_id, stats, global, loop, delta>>

Ticket ==
    [account : Account, target_type : ticket_type, amount : Nat \ {0},
     current_type : ticket_type, status : {"charging", "stable", "withdrawing"},
     value : Nat, next_auto_update_time : Nat, next_type_downgrade_time : Nat]

value_multiplier(type, v) ==
    CASE type = 0 -> IF v = 1 THEN 1 ELSE 0
      [] type = 1 -> 2
      [] type = 2 -> 4
      [] OTHER    -> 8

lock_forever_update_steps == 4

update_value(t, v) ==
    IF t.current_type = lock_forever THEN t
    ELSE [t EXCEPT !.value = t.amount * value_multiplier(t.current_type, v)]

init_new(a, type, amount) ==
    update_value([account |-> a, target_type |-> type, amount |-> amount,
                  current_type |-> liquid, status |-> "charging", value |-> 0,
                  next_auto_update_time |-> now + ChargingStep,
                  next_type_downgrade_time |-> Never], version)

(* A downgrade that had been started keeps its time, even one in the past. *)
start_withdrawing(t, type) ==
    LET started == t.next_type_downgrade_time # Never
        lower   == IF started \/ t.current_type = type
                   THEN t.current_type ELSE t.current_type - 1
        due     == IF started THEN t.next_type_downgrade_time
                   ELSE IF t.current_type = type THEN now + CancelCharging
                   ELSE now + SecondsToDowngrade[lower]
    IN  [t EXCEPT !.status = "withdrawing", !.current_type = lower,
                  !.next_type_downgrade_time = due,
                  !.next_auto_update_time = due]

start_charging(t) ==
    IF t.status = "charging" THEN t
    ELSE [t EXCEPT !.status = "charging",
                   !.next_auto_update_time = now + ChargingStep]

update_target_type(t, type) ==
    LET started == IF t.current_type < type THEN start_charging(t)
                   ELSE start_withdrawing(t, type)
    IN  update_value([started EXCEPT !.target_type = type], version)

(* init_split copies the old ticket; adjust_amount leaves it the rest.     *)
init_split(t, type, amount) ==
    update_target_type([t EXCEPT !.amount = amount], type)

adjust_amount(t, d) == update_value([t EXCEPT !.amount = @ + d], version)

(* Wrong: reaching a higher type does not forget the downgrade time.       *)
auto_charge_keeps_downgrade(t) ==
    LET up == [t EXCEPT !.current_type = @ + 1]
    IN  IF up.current_type < t.target_type
        THEN [up EXCEPT !.next_auto_update_time = @ + ChargingStep]
        ELSE IF up.current_type # lock_forever
        THEN [up EXCEPT !.status = "stable", !.next_auto_update_time = Never]
        ELSE [up EXCEPT !.status = "withdrawing",
                        !.next_auto_update_time = @ + ForeverStep,
                        !.value = t.amount * value_multiplier(lock_forever, version)]

(* auto_update of a charging ticket: one type higher.                      *)
auto_charge(t) ==
    LET up == [t EXCEPT !.current_type = @ + 1,
                        !.next_type_downgrade_time = Never]
    IN  IF up.current_type < t.target_type
        THEN [up EXCEPT !.next_auto_update_time = @ + ChargingStep]
        ELSE IF up.current_type # lock_forever
        THEN [up EXCEPT !.status = "stable", !.next_auto_update_time = Never]
        ELSE [up EXCEPT !.status = "withdrawing",
                        !.next_auto_update_time = @ + ForeverStep,
                        !.value = t.amount * value_multiplier(lock_forever, version)]

(* auto_update of a ticket locked for ever: its value fades away.          *)
auto_fade(t) ==
    LET share == (t.amount * value_multiplier(lock_forever, version))
                     \div lock_forever_update_steps
        fade  == IF share <= 0 THEN 1 ELSE share
    IN  IF t.value <= fade
        THEN [t EXCEPT !.value = 0, !.status = "stable",
                       !.next_auto_update_time = Never]
        ELSE [t EXCEPT !.value = @ - fade,
                       !.next_auto_update_time = @ + ForeverStep]

(* Wrong: a finished downgrade leaves the time of the next update.         *)
auto_downgrade_keeps_time(t) ==
    IF t.current_type = t.target_type
    THEN [t EXCEPT !.status = "stable", !.next_type_downgrade_time = Never]
    ELSE LET due == t.next_type_downgrade_time
                        + SecondsToDowngrade[t.current_type - 1]
         IN  [t EXCEPT !.current_type = @ - 1,
                       !.next_type_downgrade_time = due,
                       !.next_auto_update_time = due]

auto_downgrade(t) ==
    IF t.current_type = t.target_type
    THEN [t EXCEPT !.status = "stable", !.next_type_downgrade_time = Never,
                   !.next_auto_update_time = Never]
    ELSE LET due == t.next_type_downgrade_time
                        + SecondsToDowngrade[t.current_type - 1]
         IN  [t EXCEPT !.current_type = @ - 1,
                       !.next_type_downgrade_time = due,
                       !.next_auto_update_time = due]

auto_update(t) ==
    update_value(IF t.status = "charging" THEN auto_charge(t)
                 ELSE IF t.current_type = lock_forever THEN auto_fade(t)
                 ELSE auto_downgrade(t), version)
--------------------------------------------------------------------------------
Init ==
    /\ now = 0
    /\ version \in {1, 2}
    /\ balance = Supply
    /\ tickets = [i \in {} |-> 0]
    /\ next_id = 1
    /\ stats = [a \in Account |->
                   [total_core_inactive |-> 0, total_core_pob |-> 0,
                    total_core_pol |-> 0, total_pob_value |-> 0,
                    total_pol_value |-> 0]]
    /\ global = [total_pob |-> 0, total_inactive |-> 0]
    /\ loop = "idle"
    /\ delta = [pob |-> 0, inactive |-> 0]

With(id, t) == [i \in DOMAIN tickets \cup {id} |-> IF i = id THEN t ELSE tickets[i]]

Without(id) == [i \in DOMAIN tickets \ {id} |-> tickets[i]]

ticket_create(a, type, amount) ==
    LET t == init_new(a, type, amount)
    IN  /\ loop = "idle"
        /\ next_id <= MaxTickets
        /\ type # liquid
        /\ amount <= balance[a]
        /\ balance' = [balance EXCEPT ![a] = @ - amount]
        /\ tickets' = With(next_id, t)
        /\ next_id' = next_id + 1
        /\ stats' = [stats EXCEPT ![a].total_core_pol = @ + amount,
                                  ![a].total_pol_value = @ + t.value]
        /\ UNCHANGED <<now, version, global, loop, delta>>

CanUpdate(id, type) ==
    /\ loop = "idle"
    /\ tickets[id].current_type # lock_forever
    /\ tickets[id].target_type # type

AddPolValue(a, d) == [stats EXCEPT ![a].total_pol_value = @ + d]

(* ticket_update of the whole ticket, up to its call of process_tickets.   *)
ticket_update(id, type) ==
    LET t == tickets[id]
        u == update_target_type(t, type)
    IN  /\ CanUpdate(id, type)
        /\ tickets' = [tickets EXCEPT ![id] = u]
        /\ stats' = AddPolValue(t.account, u.value - t.value)
        /\ loop' = "update"
        /\ UNCHANGED <<now, version, balance, next_id, global, delta>>

(* ticket_update of a part of the ticket, up to its call of process_tickets. *)
ticket_split(id, type, amount) ==
    LET t == tickets[id]
        new  == init_split(t, type, amount)
        rest == adjust_amount(t, -amount)
    IN  /\ CanUpdate(id, type)
        /\ next_id <= MaxTickets
        /\ amount < t.amount
        /\ tickets' = [i \in DOMAIN tickets \cup {next_id} |->
                          CASE i = next_id -> new
                            [] i = id      -> rest
                            [] OTHER       -> tickets[i]]
        /\ next_id' = next_id + 1
        /\ stats' = AddPolValue(t.account, new.value + rest.value - t.value)
        /\ loop' = "update"
        /\ UNCHANGED <<now, version, balance, global, delta>>

(* A block moves the head block time, then calls process_tickets.          *)
apply_block(d) ==
    /\ loop = "idle"
    /\ now + d <= MaxTime
    /\ now' = now + d
    /\ loop' = "block"
    /\ UNCHANGED <<version, balance, tickets, next_id, stats, global, delta>>

(* The first ticket by next_auto_update_time, then by id.                  *)
First(id) ==
    \A i \in DOMAIN tickets :
        \/ tickets[id].next_auto_update_time < tickets[i].next_auto_update_time
        \/ /\ tickets[id].next_auto_update_time = tickets[i].next_auto_update_time
           /\ id <= i

Due(id) ==
    /\ loop \in {"block", "update"}
    /\ tickets[id].next_auto_update_time <= now
    /\ First(id)

(* Wrong: refunds every ticket that has reached its target.                *)
Refundable_at_target(t) ==
    t.status = "withdrawing" /\ t.current_type = t.target_type

Refundable(t) == t.status = "withdrawing" /\ t.current_type = liquid

refund_ticket(id) ==
    LET t == tickets[id]
    IN  /\ Due(id) /\ Refundable(t)
        /\ balance' = [balance EXCEPT ![t.account] = @ + t.amount]
        /\ stats' = [stats EXCEPT ![t.account].total_core_pol = @ - t.amount,
                                  ![t.account].total_pol_value = @ - t.value]
        /\ tickets' = Without(id)
        /\ UNCHANGED <<now, version, next_id, global, loop, delta>>

(* Wrong: a ticket that becomes locked for ever leaves its value behind.   *)
Restat_keeps_value(s, t, u) ==
    IF t.current_type = lock_forever
    THEN LET gone == IF u.value = 0 THEN t.amount ELSE 0
         IN  [s EXCEPT !.total_core_inactive = @ + gone,
                       !.total_core_pob = @ - gone,
                       !.total_pob_value = @ + u.value - t.value]
    ELSE IF u.current_type = lock_forever
    THEN [s EXCEPT !.total_core_pob = @ + t.amount,
                   !.total_core_pol = @ - t.amount,
                   !.total_pob_value = @ + u.value]
    ELSE [s EXCEPT !.total_pol_value = @ + u.value - t.value]

(* What one automatic update does to the totals of the account.            *)
Restat(s, t, u) ==
    IF t.current_type = lock_forever
    THEN LET gone == IF u.value = 0 THEN t.amount ELSE 0
         IN  [s EXCEPT !.total_core_inactive = @ + gone,
                       !.total_core_pob = @ - gone,
                       !.total_pob_value = @ + u.value - t.value]
    ELSE IF u.current_type = lock_forever
    THEN [s EXCEPT !.total_core_pob = @ + t.amount,
                   !.total_core_pol = @ - t.amount,
                   !.total_pob_value = @ + u.value,
                   !.total_pol_value = @ - t.value]
    ELSE [s EXCEPT !.total_pol_value = @ + u.value - t.value]

update_ticket(id) ==
    LET t == tickets[id]
        u == auto_update(t)
        old == stats[t.account]
        new == Restat(old, t, u)
    IN  /\ Due(id) /\ ~ Refundable(t)
        /\ tickets' = [tickets EXCEPT ![id] = u]
        /\ stats' = [stats EXCEPT ![t.account] = new]
        /\ delta' = [pob      |-> delta.pob + new.total_core_pob - old.total_core_pob,
                     inactive |-> delta.inactive + new.total_core_inactive
                                      - old.total_core_inactive]
        /\ UNCHANGED <<now, version, balance, next_id, global, loop>>

(* Wrong: the loop may stop with tickets still due.                        *)
end_process_tickets_early ==
    /\ loop \in {"block", "update"}
    /\ global' = [total_pob      |-> global.total_pob + delta.pob,
                  total_inactive |-> global.total_inactive + delta.inactive]
    /\ delta' = [pob |-> 0, inactive |-> 0]
    /\ loop' = IF loop = "block" THEN "maintenance" ELSE "idle"
    /\ UNCHANGED <<now, version, balance, tickets, next_id, stats>>

(* The loop ends: the global totals are written; a block goes on to its    *)
(* maintenance.                                                            *)
end_process_tickets ==
    /\ loop \in {"block", "update"}
    /\ \A i \in DOMAIN tickets : tickets[i].next_auto_update_time > now
    /\ global' = [total_pob      |-> global.total_pob + delta.pob,
                  total_inactive |-> global.total_inactive + delta.inactive]
    /\ delta' = [pob |-> 0, inactive |-> 0]
    /\ loop' = IF loop = "block" THEN "maintenance" ELSE "idle"
    /\ UNCHANGED <<now, version, balance, tickets, next_id, stats>>

(* The values of the liquid tickets of account a.                          *)
LiquidValue(a) ==
    [i \in DOMAIN tickets |->
        IF tickets[i].account = a /\ tickets[i].current_type = liquid
        THEN tickets[i].value ELSE 0]

(* process_hf_2262, in the maintenance that takes next_maintenance_time    *)
(* past the hard fork: liquid tickets lose their value.                    *)
process_hf_2262 ==
    /\ loop = "maintenance" /\ version = 1
    /\ version' = 2
    /\ stats' = [a \in Account |->
                    [stats[a] EXCEPT !.total_pol_value =
                        @ - SumFunction(LiquidValue(a))]]
    /\ tickets' = [i \in DOMAIN tickets |->
                      IF tickets[i].current_type = liquid
                      THEN [tickets[i] EXCEPT !.value = 0] ELSE tickets[i]]
    /\ loop' = "idle"
    /\ UNCHANGED <<now, balance, next_id, global, delta>>

(* A block without maintenance, or with one away from that hard fork.      *)
end_block ==
    /\ loop = "maintenance"
    /\ loop' = "idle"
    /\ UNCHANGED <<now, version, balance, tickets, next_id, stats, global, delta>>

Operation ==
    \/ \E a \in Account, type \in ticket_type, amount \in Amount :
          ticket_create(a, type, amount)
    \/ \E id \in DOMAIN tickets, type \in ticket_type :
          \/ ticket_update(id, type)
          \/ \E amount \in Amount : ticket_split(id, type, amount)

Loop ==
    \/ \E id \in DOMAIN tickets : refund_ticket(id) \/ update_ticket(id)
    \/ end_process_tickets

Next ==
    \/ Operation
    \/ \E d \in Steps : apply_block(d)
    \/ Loop
    \/ process_hf_2262
    \/ end_block

(* The loop is code that runs to its end; blocks and operations may stop.  *)
Spec == Init /\ [][Next]_vars /\ WF_vars(Loop)
================================================================================
