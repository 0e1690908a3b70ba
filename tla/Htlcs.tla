--------------------------------- MODULE Htlcs ---------------------------------
(***************************************************************************)
(* Hash time lock contracts (htlc_evaluator, clear_expired_htlcs): tokens  *)
(* taken from the sender are held for whoever shows the preimage, or until *)
(* the contract expires.  That the preimage shown is the right one is left *)
(* to the environment: it may be shown in any block, or never.             *)
(***************************************************************************)
EXTENDS Accounts

CONSTANTS
    MaxHtlcs,           \* bound: how many contracts are ever created
    ClaimPeriod,        \* the periods, in seconds, an operation may name
    MaxTimeout          \* max_timeout_secs of the committee's htlc_options

ASSUME HtlcAssumption ==
    /\ MaxHtlcs \in Nat /\ MaxTimeout \in Nat
    /\ ClaimPeriod \subseteq Nat

VARIABLES
    htlcs,              \* the contracts, by id
    htlc_count          \* how many were created

htlc_vars == <<htlcs, htlc_count>>

HtlcInit == htlcs = <<>> /\ htlc_count = 0

htlc_create(from, to, s, amount, period) ==
    /\ phase = "open" /\ htlc_count < MaxHtlcs
    /\ period <= MaxTimeout
    /\ Covers(from, s, amount)
    /\ is_authorized_asset(from, s) /\ is_authorized_asset(to, s)
    /\ balance' = adjust_balance(balance, from, s, -amount)
    /\ htlcs' = Added(htlcs, htlc_count + 1,
                      [from |-> from, to |-> to, asset_id |-> s,
                       amount |-> amount, expiration |-> now + period])
    /\ htlc_count' = htlc_count + 1
    /\ UNCHANGED <<now, barred, phase>>

htlc_redeem(h) ==
    /\ phase = "open"
    /\ balance' = adjust_balance(balance, htlcs[h].to, htlcs[h].asset_id,
                                 htlcs[h].amount)
    /\ htlcs' = Removed(htlcs, h)
    /\ UNCHANGED <<now, barred, phase, htlc_count>>

htlc_extend(h, seconds) ==
    /\ phase = "open"
    /\ htlcs[h].expiration + seconds <= now + MaxTimeout
    /\ htlcs' = [htlcs EXCEPT ![h].expiration = @ + seconds]
    /\ UNCHANGED <<account_vars, htlc_count>>

HtlcExpired(h) == htlcs[h].expiration <= now

(* One turn of the loop, which ends with the first that is not expired.    *)
clear_expired_htlcs(h) ==
    /\ phase = "htlcs"
    /\ HtlcExpired(h)
    /\ \A g \in DOMAIN htlcs : htlcs[h].expiration <= htlcs[g].expiration
    /\ balance' = adjust_balance(balance, htlcs[h].from, htlcs[h].asset_id,
                                 htlcs[h].amount)
    /\ htlcs' = Removed(htlcs, h)
    /\ UNCHANGED <<now, barred, phase, htlc_count>>
================================================================================
