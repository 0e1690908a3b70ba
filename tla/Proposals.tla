------------------------------- MODULE Proposals -------------------------------
(***************************************************************************)
(* Proposals: a transaction stored on the chain that is executed when      *)
(* enough accounts have approved it (proposal_evaluator, proposal_object,  *)
(* push_proposal and clear_expired_proposals).                             *)
(*                                                                         *)
(* push_proposal runs the operations of a proposal in an undo session of   *)
(* its own.  One of them may approve another proposal and so run that one  *)
(* inside it: `stack' holds the running proposals, innermost last, each    *)
(* with the state its session restores if an operation throws.  `mode'     *)
(* says what runs at the bottom: a transaction, or the expiry of           *)
(* proposals in a block.                                                   *)
(*                                                                         *)
(* An operation names an account whose authority it needs.  Operations on  *)
(* anything but proposals are of kind "work", which succeeds, and "bad",   *)
(* which throws.                                                           *)
(***************************************************************************)
EXTENDS Integers, Sequences, FiniteSets

CONSTANTS
    Account,
    Creations,      \* what may be proposed: operations, lifetime, review period
    MaxProposals,   \* bound: the proposals alive or dead at any time
    MaxOperations,  \* bound: the operations of one transaction
    MaxTime,        \* bound: the last block time considered
    Operations,     \* the operations on proposals a transaction may contain
    MaxNesting      \* twice the number of active witnesses

(* A list may not need keys: "operations requiring non-account authorities  *)
(* are not yet implemented".                                               *)
Listed ==
    [kind : {"approve", "withdraw", "delete", "work", "bad"}, of : Nat,
     who : Account, auth : {"active", "owner"}]

ASSUME ProposalAssumption ==
    /\ \A c \in Creations :
          c.lifetime \in Nat \ {0} /\ c.review \in Nat /\ c.ops \in Seq(Listed)
    /\ \A op \in Operations :
          op \in [kind : {"approve", "withdraw", "delete"}, of : 1..MaxProposals,
                 who : Account, auth : {"active", "owner", "key"}]
    /\ MaxNesting \in Nat \ {0}

VARIABLES
    now,            \* head_block_time
    proposals,      \* proposal_index, by id
    next_id,
    by_account,     \* required_approval_index: pairs of account and id
    stack,          \* the running push_proposals
    left,           \* how many operations the transaction may still have
    mode,           \* "idle", "tx" or "expire"
    before          \* what the session of the transaction restores, if one runs

vars == <<now, proposals, next_id, by_account, stack, left, mode, before>>

Proposal ==
    [ops : {c.ops : c \in Creations}, expiration_time : Nat, review_period : Nat,
     active : SUBSET Account, owner : SUBSET Account, key : SUBSET Account,
     failed : BOOLEAN]

(* operation_get_required_authorities over the list, with the accounts     *)
(* that must give owner authority left out of the active ones.             *)
required_owner(p) ==
    {p.ops[k].who : k \in {j \in DOMAIN p.ops : p.ops[j].auth = "owner"}}

required_active(p) ==
    {p.ops[k].who : k \in DOMAIN p.ops} \ required_owner(p)

Required(p) == required_active(p) \cup required_owner(p)

(* verify_authority, for accounts with one key of their own.               *)
is_authorized_to_execute(p) ==
    /\ required_owner(p) \subseteq p.owner \cup p.key
    /\ required_active(p) \subseteq p.active \cup p.owner \cup p.key

review_period_time(p) == p.expiration_time - p.review_period

HasReview(p) == p.review_period > 0

InReview(p) == HasReview(p) /\ now >= review_period_time(p)

Pairs(id, accounts) == accounts \X {id}

(* object_inserted and object_removed of required_approval_index.          *)
IndexOf(id, p) == Pairs(id, Required(p) \cup p.active \cup p.owner)

(* object_modified: the accounts that left a set are removed, those that   *)
(* joined one are inserted, first for the active, then for the owner set.  *)
Delta(index, id, old, new) ==
    (index \ Pairs(id, old \ new)) \cup Pairs(id, new \ old)

(* Wrong: accounts that left a set stay.                                   *)
Reindexed_adds(index, id, p, q) == index \cup Pairs(id, q.active \cup q.owner)

Reindexed(index, id, p, q) ==
    Delta(Delta(index, id, p.active, q.active), id, p.owner, q.owner)

NoSession == <<>>

State == [proposals |-> proposals, next_id |-> next_id]

(* undo() modifies back, removes what is new, inserts what was removed;    *)
(* the index follows through the same three notifications.                 *)
IndexAfterUndo(old) ==
    LET was == DOMAIN old.proposals
        is  == DOMAIN proposals
        Own(id) == {pair \in by_account : pair[2] = id}
        modified == {Reindexed(Own(id), id, proposals[id], old.proposals[id]) :
                        id \in was \cap is}
        removed  == {Own(id) \ IndexOf(id, proposals[id]) : id \in is \ was}
        inserted == {Own(id) \cup IndexOf(id, old.proposals[id]) : id \in was \ is}
    IN  UNION (modified \cup removed \cup inserted)

Undo(old) ==
    /\ proposals' = old.proposals
    /\ next_id' = old.next_id
    /\ by_account' = IndexAfterUndo(old)

With(id, p) == [i \in DOMAIN proposals \cup {id} |-> IF i = id THEN p ELSE proposals[i]]

Without(id) == [i \in DOMAIN proposals \ {id} |-> proposals[i]]

Remove(id) ==
    /\ proposals' = Without(id)
    /\ by_account' = by_account \ IndexOf(id, proposals[id])
--------------------------------------------------------------------------------
Init ==
    /\ now = 0
    /\ proposals = [i \in {} |-> 0]
    /\ next_id = 1
    /\ by_account = {}
    /\ stack = <<>>
    /\ left = 0
    /\ mode = "idle"
    /\ before = NoSession

AtBottom == stack = <<>>

Top == stack[Len(stack)]

start_transaction ==
    /\ mode = "idle"
    /\ mode' = "tx"
    /\ before' = State
    /\ left' = MaxOperations
    /\ UNCHANGED <<now, proposals, next_id, by_account, stack>>

finish_transaction ==
    /\ mode = "tx" /\ AtBottom
    /\ mode' = "idle"
    /\ before' = NoSession
    /\ left' = 0
    /\ UNCHANGED <<now, proposals, next_id, by_account, stack>>

(* Another operation of the transaction throws.                            *)
abort_transaction ==
    /\ mode = "tx" /\ AtBottom
    /\ Undo(before)
    /\ mode' = "idle"
    /\ before' = NoSession
    /\ left' = 0
    /\ UNCHANGED <<now, stack>>

(* Wrong: proposal_update is not looked at.                                *)
Referred_deleted(ops) ==
    {ops[k].of : k \in {j \in DOMAIN ops : ops[j].kind = "delete"}}

(* hardfork_visitor_1479: the proposals an operation list refers to.       *)
Referred(ops) ==
    {ops[k].of : k \in {j \in DOMAIN ops : ops[j].kind \notin {"work", "bad"}}}

proposal_create(ops, lifetime, review) ==
    LET p == [ops |-> ops, expiration_time |-> now + lifetime,
              review_period |-> review, active |-> {}, owner |-> {}, key |-> {},
              failed |-> FALSE]
    IN  /\ mode = "tx" /\ AtBottom /\ left > 0
        /\ left' = left - 1
        /\ next_id <= MaxProposals
        /\ review < lifetime
        /\ \A id \in Referred(ops) : id < next_id
        /\ proposals' = With(next_id, p)
        /\ by_account' = by_account \cup IndexOf(next_id, p)
        /\ next_id' = next_id + 1
        /\ UNCHANGED <<now, stack, mode, before>>

(* Wrong: approvals may be added during the review period.                 *)
CanUpdate_in_review(op) ==
    /\ op.of \in DOMAIN proposals
    /\ op.kind = "withdraw" /\ op.auth # "key" =>
          op.who \in proposals[op.of][op.auth]

(* proposal_update_evaluator::do_evaluate.                                 *)
CanUpdate(op) ==
    /\ op.of \in DOMAIN proposals
    /\ op.kind = "approve" =>
          ~ (InReview(proposals[op.of]) /\ op.auth \in {"active", "owner"})
    /\ op.kind = "withdraw" /\ op.auth # "key" =>
          op.who \in proposals[op.of][op.auth]

(* proposal_delete_evaluator::do_evaluate.                                 *)
CanDelete(op) ==
    /\ op.of \in DOMAIN proposals
    /\ op.who \in IF op.auth = "owner" THEN required_owner(proposals[op.of])
                  ELSE required_active(proposals[op.of])

CanApply(op) ==
    CASE op.kind = "work"   -> TRUE
      [] op.kind = "bad"    -> FALSE
      [] op.kind = "delete" -> CanDelete(op)
      [] OTHER              -> CanUpdate(op)

Approved(p, op) ==
    [p EXCEPT ![op.auth] = IF op.kind = "approve" THEN @ \cup {op.who}
                           ELSE @ \ {op.who}]

(* What push_proposal puts on the stack.                                   *)
Frame(id, ps) ==
    [proposal |-> id, next |-> 1,
     saved |-> [proposals |-> ps, next_id |-> next_id]]

(* Wrong: a review period does not keep a proposal from running.           *)
Update_ignores_review(op, below) ==
    LET p == proposals[op.of]
        q == Approved(p, op)
        runs == is_authorized_to_execute(q)
        deep == Len(below) >= MaxNesting
        r == IF runs /\ deep THEN [q EXCEPT !.failed = TRUE] ELSE q
        ps == [proposals EXCEPT ![op.of] = r]
    IN  /\ proposals' = ps
        /\ by_account' = Reindexed(by_account, op.of, p, q)
        /\ stack' = IF runs /\ ~ deep THEN Append(below, Frame(op.of, ps)) ELSE below
        /\ next_id' = next_id

(* proposal_update_evaluator::do_apply, up to the first operation of a     *)
(* proposal it runs.  `below' is the stack the operation returns to.       *)
Update(op, below) ==
    LET p == proposals[op.of]
        q == Approved(p, op)
        runs == ~ HasReview(p) /\ is_authorized_to_execute(q)
        deep == Len(below) >= MaxNesting
        r == IF runs /\ deep THEN [q EXCEPT !.failed = TRUE] ELSE q
        ps == [proposals EXCEPT ![op.of] = r]
    IN  /\ proposals' = ps
        /\ by_account' = Reindexed(by_account, op.of, p, q)
        /\ stack' = IF runs /\ ~ deep THEN Append(below, Frame(op.of, ps)) ELSE below
        /\ next_id' = next_id

Apply(op, below) ==
    /\ CanApply(op)
    /\ IF op.kind \in {"approve", "withdraw"} THEN Update(op, below)
       ELSE /\ IF op.kind = "delete" THEN Remove(op.of)
               ELSE UNCHANGED <<proposals, by_account>>
            /\ stack' = below
            /\ next_id' = next_id

(* An operation of the transaction itself.                                 *)
apply_operation(op) ==
    /\ mode = "tx" /\ AtBottom /\ left > 0
    /\ left' = left - 1
    /\ Apply(op, stack)
    /\ UNCHANGED <<now, mode, before>>

(* The operations of the running proposal, as they are in the database.    *)
Running == proposals[Top.proposal].ops

Returned == [stack EXCEPT ![Len(stack)].next = @ + 1]

(* The next operation of the innermost running proposal.                   *)
run_operation ==
    /\ ~ AtBottom
    /\ Top.next <= Len(Running)
    /\ Apply(Running[Top.next], Returned)
    /\ UNCHANGED <<now, mode, before, left>>

Popped == SubSeq(stack, 1, Len(stack) - 1)

finish_proposal ==
    /\ ~ AtBottom
    /\ Top.next > Len(Running)
    /\ Remove(Top.proposal)
    /\ stack' = Popped
    /\ UNCHANGED <<now, next_id, mode, before, left>>

(* Wrong: a proposal that fails on its expiration stays.                   *)
fail_proposal_stays ==
    LET id == Top.proposal
        old == Top.saved
        expired == FALSE
        index == IndexAfterUndo(old)
    IN  /\ ~ AtBottom
        /\ Top.next <= Len(Running)
        /\ ~ CanApply(Running[Top.next])
        /\ proposals' = IF expired
                        THEN [i \in DOMAIN old.proposals \ {id} |-> old.proposals[i]]
                        ELSE [old.proposals EXCEPT ![id].failed = TRUE]
        /\ by_account' = IF expired THEN index \ IndexOf(id, old.proposals[id])
                         ELSE index
        /\ next_id' = old.next_id
        /\ stack' = Popped
        /\ UNCHANGED <<now, mode, before, left>>

(* An operation throws: the session is undone, and whoever had called      *)
(* push_proposal catches: the expiry removes the proposal, proposal_update *)
(* records the failure and returns as usual.                               *)
fail_proposal ==
    LET id == Top.proposal
        old == Top.saved
        expired == mode = "expire" /\ Len(stack) = 1
        index == IndexAfterUndo(old)
    IN  /\ ~ AtBottom
        /\ Top.next <= Len(Running)
        /\ ~ CanApply(Running[Top.next])
        /\ proposals' = IF expired
                        THEN [i \in DOMAIN old.proposals \ {id} |-> old.proposals[i]]
                        ELSE [old.proposals EXCEPT ![id].failed = TRUE]
        /\ by_account' = IF expired THEN index \ IndexOf(id, old.proposals[id])
                         ELSE index
        /\ next_id' = old.next_id
        /\ stack' = Popped
        /\ UNCHANGED <<now, mode, before, left>>

(* A block moves the time, then runs clear_expired_proposals.              *)
apply_block ==
    /\ mode = "idle"
    /\ now < MaxTime
    /\ now' = now + 1
    /\ mode' = "expire"
    /\ UNCHANGED <<proposals, next_id, by_account, stack, before, left>>

Expired(id) == proposals[id].expiration_time <= now

(* The first proposal by expiration_time, then by id.                      *)
First(id) ==
    \A i \in DOMAIN proposals :
        \/ proposals[id].expiration_time < proposals[i].expiration_time
        \/ proposals[id].expiration_time = proposals[i].expiration_time /\ id <= i

expire_proposal(id) ==
    /\ mode = "expire" /\ AtBottom
    /\ Expired(id) /\ First(id)
    /\ IF is_authorized_to_execute(proposals[id])
       THEN /\ stack' = <<Frame(id, proposals)>>
            /\ UNCHANGED <<proposals, by_account>>
       ELSE Remove(id) /\ UNCHANGED stack
    /\ UNCHANGED <<now, next_id, mode, before, left>>

finish_block ==
    /\ mode = "expire" /\ AtBottom
    /\ \A id \in DOMAIN proposals : ~ Expired(id)
    /\ mode' = "idle"
    /\ UNCHANGED <<now, proposals, next_id, by_account, stack, before, left>>

Transaction ==
    \/ start_transaction
    \/ \E c \in Creations : proposal_create(c.ops, c.lifetime, c.review)
    \/ \E op \in Operations : apply_operation(op)
    \/ abort_transaction

(* Code that is running goes on until it returns.                          *)
Run ==
    \/ run_operation
    \/ finish_proposal
    \/ fail_proposal
    \/ finish_transaction
    \/ \E id \in DOMAIN proposals : expire_proposal(id)
    \/ finish_block

Next == Transaction \/ apply_block \/ Run

Spec == Init /\ [][Next]_vars /\ WF_vars(Run)
================================================================================
