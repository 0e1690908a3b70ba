-------------------------------- MODULE Accounts --------------------------------
(***************************************************************************)
(* What every contract between accounts stands on: the account balances,   *)
(* the time of the head block, and which accounts the issuer of an asset   *)
(* keeps from moving it (database::adjust_balance, is_authorized_asset).   *)
(*                                                                         *)
(* `phase' is the part of _apply_block that is running: "open" while the   *)
(* operations of the block's transactions are applied, at the time of the  *)
(* block before, then the steps that follow once the time has moved on.    *)
(* An operation that fails takes its whole transaction with it; the undo   *)
(* session brings back an earlier state, so failures are not shown.        *)
(***************************************************************************)
EXTENDS Integers, FiniteSets, FiniteSetsExt, Functions

CONSTANTS
    Account, Asset,
    Supply,             \* Supply[a][s]: what account a owns of asset s at first
    Amount,             \* the amounts an operation may name
    MaxTime,            \* bound: the last block time considered
    MayBeBarred,        \* the pairs <<account, asset>> an issuer may bar
    FeeRateDenom        \* GRAPHENE_FEE_RATE_DENOM

ASSUME AccountAssumption ==
    /\ IsFiniteSet(Account)
    /\ Supply \in [Account -> [Asset -> Nat]]
    /\ Amount \subseteq Nat \ {0}
    /\ MaxTime \in Nat
    /\ FeeRateDenom \in Nat \ {0}

VARIABLES
    balance,            \* balance[a][s]
    now,                \* head_block_time
    barred,             \* the pairs that are not authorized at present
    phase

account_vars == <<balance, now, barred, phase>>

AccountInit ==
    /\ balance = Supply
    /\ now = 0
    /\ barred = {}
    /\ phase = "open"

is_authorized_asset(a, s) == <<a, s>> \notin barred

Covers(a, s, amount) == balance[a][s] >= amount

(* The balances after adjust_balance for amount, which may be negative.    *)
adjust_balance(b, a, s, amount) == [b EXCEPT ![a][s] = @ + amount]

(* Division with the remainder rounded up.                                 *)
CeilDiv(x, y) == (x + y - 1) \div y

(* The fee on an amount repaid, rounded up.                                *)
required_fee(amount, fee_rate) == CeilDiv(amount * fee_rate, FeeRateDenom)

(* An issuer blacklists an account for its asset, or takes it off again.   *)
account_whitelist(a, s) ==
    /\ phase = "open"
    /\ barred' = IF <<a, s>> \in barred THEN barred \ {<<a, s>>}
                 ELSE barred \cup {<<a, s>>}
    /\ UNCHANGED <<balance, now, phase>>

(* The object with this id is created, or removed.                         *)
Added(f, id, x) == [i \in DOMAIN f \cup {id} |-> IF i = id THEN x ELSE f[i]]
Removed(f, id) == Restrict(f, DOMAIN f \ {id})
================================================================================
