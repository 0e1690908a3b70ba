---------------------------- MODULE ProposalProofs ----------------------------
(***************************************************************************)
(* A running proposal stays in the database and approved, none runs inside *)
(* itself, a review period adds no approvals, and required_approval_index  *)
(* has no strangers: for any accounts, operation lists, numbers of         *)
(* proposals, times and nesting limits.                                    *)
(***************************************************************************)
EXTENDS ProposalProperties, TLAPS

(* A step that names no prover is tried with the SMT solver, with Zenon,   *)
(* and with the SMT solver once more.                                      *)
USE SMTT(20), Zenon, SMTT(30)

Table == UNION {[D -> Proposal] : D \in SUBSET Nat}

Session == [proposals : Table, next_id : Nat]

(* The current state and every state an open session can restore.          *)
Sessions ==
    {State} \cup {stack[k].saved : k \in DOMAIN stack}
            \cup {s \in {before} : mode = "tx"}

(* Ids are below next_id, and a proposal refers only to older ones: this   *)
(* is what hardfork_visitor_1479 checks once, when it is created.          *)
RefersBack(s) ==
    \A i \in DOMAIN s.proposals :
        i < s.next_id /\ \A r \in Referred(s.proposals[i].ops) : r < i

(* ReviewFreezesApprovals for the state s; its ids are not used again.     *)
Frozen(s) ==
    /\ \A i \in DOMAIN frozen : i < s.next_id
    /\ \A i \in DOMAIN s.proposals \cap DOMAIN frozen :
          InReview(s.proposals[i]) /\ Approvals(s.proposals[i]) \subseteq frozen[i]

(* The sessions agree on what an id stands for.                            *)
SameOps(s, t) ==
    \A i \in DOMAIN s.proposals \cap DOMAIN t.proposals :
        s.proposals[i].ops = t.proposals[i].ops

MayRun(i, ps) ==
    /\ i \in DOMAIN ps
    /\ is_authorized_to_execute(ps[i])
    /\ HasReview(ps[i]) => ps[i].expiration_time <= now

FrameType == [proposal : Nat, next : Nat \ {0}, saved : Session]

StackType ==
    /\ now \in Nat
    /\ mode \in {"idle", "tx", "expire"}
    /\ stack \in Seq(FrameType)
    /\ mode = "idle" => stack = <<>>
    /\ DOMAIN frozen \subseteq Nat

SessionsOK ==
    /\ \A s \in Sessions :
          /\ s \in Session /\ RefersBack(s) /\ Frozen(s)
          /\ mode = "tx" => before.next_id <= s.next_id
    /\ \A s, t \in Sessions : SameOps(s, t)

(* What is running may run in the current state, and also in each state    *)
(* that the failure of a proposal inside it restores.                      *)
StackOK ==
    /\ \A j \in DOMAIN stack : MayRun(stack[j].proposal, proposals)
    /\ \A k \in DOMAIN stack : \A j \in 1..k :
          MayRun(stack[j].proposal, stack[k].saved.proposals)
    /\ NoReentry

(* The inductive invariant.                                                *)
ProposalInv == StackType /\ SessionsOK /\ StackOK /\ IndexHasNoStrangers
--------------------------------------------------------------------------------
(* The state t follows from the state s without a proposal being created.  *)
Changed(p, q) ==
    /\ q.ops = p.ops
    /\ q.expiration_time = p.expiration_time
    /\ q.review_period = p.review_period
    /\ InReview(p) => Approvals(q) \subseteq Approvals(p)

Kept(s, t) ==
    /\ t \in Session
    /\ t.next_id = s.next_id
    /\ DOMAIN t.proposals \subseteq DOMAIN s.proposals
    /\ \A i \in DOMAIN t.proposals : Changed(s.proposals[i], t.proposals[i])

(* A table of proposals: natural ids, each with a proposal.                *)
LEMMA TableType ==
    ASSUME NEW t
    PROVE  t \in Table <=> DOMAIN t \subseteq Nat /\ t \in [DOMAIN t -> Proposal]
<1>1. ASSUME t \in Table
      PROVE  DOMAIN t \subseteq Nat /\ t \in [DOMAIN t -> Proposal]
  <2>1. PICK D \in SUBSET Nat : t \in [D -> Proposal]
    BY <1>1, Zenon DEF Table
  <2> QED BY <2>1
<1>2. ASSUME DOMAIN t \subseteq Nat, t \in [DOMAIN t -> Proposal]
      PROVE  t \in Table
  <2>1. DOMAIN t \in SUBSET Nat
    BY <1>2
  <2> QED BY <1>2, <2>1, Zenon DEF Table
<1> QED BY <1>1, <1>2, Zenon

(* The parts of a proposal.                                                *)
LEMMA ProposalType ==
    ASSUME NEW p \in Proposal
    PROVE  /\ p.ops \in Seq(Listed)
           /\ p.expiration_time \in Nat /\ p.review_period \in Nat
           /\ p.active \subseteq Account /\ p.owner \subseteq Account
           /\ p.key \subseteq Account
BY ProposalAssumption DEF Proposal

(* An approval that proposal_update may make adds no account to a proposal *)
(* in review.                                                              *)
LEMMA ApprovedChanges ==
    ASSUME NEW p \in Proposal, NEW op,
           op.who \in Account, op.auth \in {"active", "owner", "key"},
           InReview(p) /\ op.kind = "approve" => op.auth = "key"
    PROVE  /\ Approved(p, op) \in Proposal
           /\ Changed(p, Approved(p, op))
<1> DEFINE S(x) == IF op.kind = "approve" THEN x \cup {op.who} ELSE x \ {op.who}
<1>1. CASE op.auth = "active"
  <2>1. Approved(p, op) = [p EXCEPT !.active = S(p.active)]
    BY <1>1 DEF Approved
  <2> QED BY <1>1, <2>1 DEF Proposal, Changed, Approvals
<1>2. CASE op.auth = "owner"
  <2>1. Approved(p, op) = [p EXCEPT !.owner = S(p.owner)]
    BY <1>2 DEF Approved
  <2> QED BY <1>2, <2>1 DEF Proposal, Changed, Approvals
<1>3. CASE op.auth = "key"
  <2>1. Approved(p, op) = [p EXCEPT !.key = S(p.key)]
    BY <1>3 DEF Approved
  <2> QED BY <1>3, <2>1 DEF Proposal, Changed, Approvals
<1> QED BY <1>1, <1>2, <1>3

(* A session without a change keeps every proposal.                        *)
LEMMA KeptItself ==
    ASSUME NEW s \in Session
    PROVE  Kept(s, s)
BY DEF Kept, Changed

(* What holds of a state holds of what it becomes.                         *)
LEMMA KeptSession ==
    ASSUME NEW s \in Session, NEW t, Kept(s, t), RefersBack(s), Frozen(s)
    PROVE  RefersBack(t) /\ Frozen(t)
<1>1. RefersBack(t)
  BY DEF Kept, Changed, RefersBack
<1>2. Frozen(t)
  BY DEF Kept, Changed, Frozen, InReview, HasReview, review_period_time
<1> QED BY <1>1, <1>2

(* What a session keeps has the operations it had.                         *)
LEMMA KeptOps ==
    ASSUME NEW s, NEW t, NEW u, Kept(s, t), SameOps(s, u)
    PROVE  SameOps(t, u) /\ SameOps(u, t)
BY DEF Kept, Changed, SameOps

(* The index of the entries of one proposal after it was modified.         *)
LEMMA ReindexedOK ==
    ASSUME NEW p, NEW q, NEW id, NEW index, q.ops = p.ops,
           \A pair \in index : pair[2] = id => pair \in IndexOf(id, p)
    PROVE  \A pair \in Reindexed(index, id, p, q) :
              IF pair[2] = id THEN pair \in IndexOf(id, q) ELSE pair \in index
<1>1. Required(q) = Required(p)
  BY DEF Required, required_active, required_owner
<1> QED
  BY <1>1 DEF Reindexed, Delta, IndexOf, Pairs

IndexOK(index, ps) ==
    \A pair \in index :
        pair[2] \in DOMAIN ps /\ pair \in IndexOf(pair[2], ps[pair[2]])

(* undo() leaves no strangers: the proposals it modifies are the same      *)
(* proposals, those it removes take their entries along.                   *)
LEMMA UndoIndexOK ==
    ASSUME NEW old, IndexHasNoStrangers, SameOps(State, old)
    PROVE  IndexOK(IndexAfterUndo(old), old.proposals)
<1> DEFINE was == DOMAIN old.proposals
           is  == DOMAIN proposals
           Own(id) == {pair \in by_account : pair[2] = id}
           modified == {Reindexed(Own(id), id, proposals[id], old.proposals[id]) :
                           id \in was \cap is}
           removed  == {Own(id) \ IndexOf(id, proposals[id]) : id \in is \ was}
           inserted == {Own(id) \cup IndexOf(id, old.proposals[id]) : id \in was \ is}
<1>1. IndexAfterUndo(old) = UNION (modified \cup removed \cup inserted)
  BY Zenon DEF IndexAfterUndo
<1> SUFFICES ASSUME NEW pair \in UNION (modified \cup removed \cup inserted)
             PROVE  /\ pair[2] \in was
                    /\ pair \in IndexOf(pair[2], old.proposals[pair[2]])
  BY <1>1, Zenon DEF IndexOK
<1>2. ASSUME NEW id, NEW e \in Own(id)
      PROVE  e[2] = id /\ id \in is /\ e \in IndexOf(id, proposals[id])
  BY <1>2, Zenon DEF IndexHasNoStrangers
<1>3. ASSUME NEW id, NEW p, NEW e \in IndexOf(id, p)
      PROVE  e[2] = id
  BY <1>3 DEF IndexOf, Pairs
<1> HIDE DEF Own
<1>4. CASE pair \in UNION modified
  <2>1. PICK id \in was \cap is :
             pair \in Reindexed(Own(id), id, proposals[id], old.proposals[id])
    BY <1>4, Zenon
  <2>2. old.proposals[id].ops = proposals[id].ops
    BY <2>1 DEF SameOps, State
  <2>3. \A e \in Own(id) : e[2] = id => e \in IndexOf(id, proposals[id])
    BY <1>2, Zenon
  <2>4. IF pair[2] = id THEN pair \in IndexOf(id, old.proposals[id])
        ELSE pair \in Own(id)
    <3> DEFINE p == proposals[id]
               q == old.proposals[id]
               own == Own(id)
    <3>1. q.ops = p.ops /\ \A e \in own : e[2] = id => e \in IndexOf(id, p)
      BY <2>2, <2>3, Zenon
    <3>2. pair \in Reindexed(own, id, p, q)
      BY <2>1, Zenon
    <3> HIDE DEF p, q, own
    <3>3. IF pair[2] = id THEN pair \in IndexOf(id, q) ELSE pair \in own
      BY <3>1, <3>2, ReindexedOK, Zenon
    <3> QED BY <3>3, Zenon DEF p, q, own
  <2>5. pair[2] = id
    BY <2>4, <1>2, Zenon
  <2> QED BY <2>1, <2>4, <2>5, Zenon
<1>5. CASE pair \in UNION removed
  <2>1. PICK id \in is \ was : pair \in Own(id) \ IndexOf(id, proposals[id])
    BY <1>5, Zenon
  <2> QED BY <2>1, <1>2, Zenon
<1>6. CASE pair \in UNION inserted
  <2>1. PICK id \in was \ is : pair \in Own(id) \cup IndexOf(id, old.proposals[id])
    BY <1>6, Zenon
  <2>2. pair \in IndexOf(id, old.proposals[id])
    BY <2>1, <1>2, Zenon
  <2> QED BY <2>1, <2>2, <1>3, Zenon
<1> QED BY <1>4, <1>5, <1>6, Zenon

(* A handler that changes one of the states it could restore, and opens no *)
(* session on anything but the result, keeps all sessions in order.        *)
LEMMA SessionsStep ==
    ASSUME SessionsOK, NEW s0 \in Sessions, Kept(s0, State'),
           Sessions' \subseteq Sessions \cup {State'},
           mode' = "tx" => mode = "tx" /\ before' = before,
           UNCHANGED <<now, frozen>>
    PROVE  SessionsOK'
<1>1. \A s : RefersBack(s)' <=> RefersBack(s)
  BY DEF RefersBack
<1>2. \A s : Frozen(s)' <=> Frozen(s)
  BY DEF Frozen, InReview, HasReview, review_period_time
<1>3. /\ s0 \in Session /\ RefersBack(s0) /\ Frozen(s0)
      /\ mode = "tx" => before.next_id <= s0.next_id
  BY Zenon DEF SessionsOK
<1>4. State' \in Session /\ State'.next_id = s0.next_id
  BY Zenon DEF Kept
<1>5. RefersBack(State') /\ Frozen(State')
  BY <1>3, KeptSession, Zenon
<1>6. ASSUME NEW s \in Sessions'
      PROVE  /\ s \in Session /\ RefersBack(s) /\ Frozen(s)
             /\ mode' = "tx" => before'.next_id <= s.next_id
  <2>1. CASE s \in Sessions
    BY <2>1, Zenon DEF SessionsOK
  <2>2. CASE s = State'
    BY <2>2, <1>3, <1>4, <1>5, Zenon
  <2> QED BY <1>6, <2>1, <2>2, Zenon
<1>7. SameOps(State', State')
  BY DEF SameOps
<1>8. ASSUME NEW s \in Sessions
      PROVE  SameOps(s, State') /\ SameOps(State', s)
  BY <1>8, KeptOps, Zenon DEF SessionsOK
<1>9. ASSUME NEW s \in Sessions', NEW t \in Sessions'
      PROVE  SameOps(s, t)
  BY <1>7, <1>8, <1>9, Zenon DEF SessionsOK
<1>10. \A s \in Sessions' :
          /\ s \in Session /\ RefersBack(s)' /\ Frozen(s)'
          /\ mode' = "tx" => before'.next_id <= s.next_id
  BY <1>1, <1>2, <1>6, Zenon
<1>11. \A s, t \in Sessions' : SameOps(s, t)'
  <2>1. \A s, t : SameOps(s, t)' <=> SameOps(s, t)
    BY DEF SameOps
  <2> QED BY <1>9, <2>1, Zenon
<1>12. Session' = Session
  BY DEF Session, Table, Proposal
<1> QED BY <1>10, <1>11, <1>12, Zenon DEF SessionsOK
--------------------------------------------------------------------------------
(* The database without one proposal: remove() of the object and of its    *)
(* entries in the index.                                                   *)
LEMMA WithoutKept ==
    ASSUME NEW s \in Session, NEW id
    PROVE  Kept(s, [proposals |-> [i \in DOMAIN s.proposals \ {id} |-> s.proposals[i]],
                    next_id |-> s.next_id])
<1> DEFINE t == [i \in DOMAIN s.proposals \ {id} |-> s.proposals[i]]
<1>1. s.proposals \in Table /\ s.next_id \in Nat
  BY DEF Session
<1>2. t \in Table
  BY <1>1, TableType
<1> QED BY <1>1, <1>2 DEF Kept, Session, Changed

(* The index stays right when a proposal leaves with its own entries.      *)
LEMMA WithoutIndex ==
    ASSUME NEW index, NEW ps, NEW id, IndexOK(index, ps)
    PROVE  IndexOK(index \ IndexOf(id, ps[id]),
                   [i \in DOMAIN ps \ {id} |-> ps[i]])
BY DEF IndexOK

(* Removing a proposal (db.remove, with the observers of the index) keeps  *)
(* the others as they are, and the index without strangers.                *)
LEMMA RemoveKeeps ==
    ASSUME State \in Session, IndexHasNoStrangers, NEW id, Remove(id),
           next_id' = next_id
    PROVE  /\ Kept(State, State')
           /\ IndexOK(by_account', proposals')
           /\ \A i \in DOMAIN proposals \ {id} :
                 i \in DOMAIN proposals' /\ proposals'[i] = proposals[i]
<1>1. proposals' = [i \in DOMAIN proposals \ {id} |-> proposals[i]]
  BY DEF Remove, Without
<1>2. by_account' = by_account \ IndexOf(id, proposals[id])
  BY Zenon DEF Remove
<1>3. State.proposals = proposals /\ State.next_id = next_id
  BY DEF State
<1>4. State' = [proposals |-> proposals', next_id |-> next_id']
  BY DEF State
<1>5. Kept(State, State')
  BY <1>1, <1>3, <1>4, WithoutKept
<1>6. IndexOK(by_account, proposals)
  BY Zenon DEF IndexOK, IndexHasNoStrangers
<1>7. IndexOK(by_account', proposals')
  BY <1>1, <1>2, <1>6, WithoutIndex, Zenon
<1> QED BY <1>1, <1>5, <1>7

(* What an operation on proposals may look like, wherever it comes from.   *)
AnyOperation(op) ==
    /\ op.kind \in {"approve", "withdraw", "delete", "work", "bad"}
    /\ op.of \in Nat
    /\ op.who \in Account
    /\ op.auth \in {"active", "owner", "key"}

(* A failed proposal only has the mark and a reason.                       *)
LEMMA FailedSame ==
    ASSUME NEW q \in Proposal, NEW f, f = [q EXCEPT !.failed = TRUE]
    PROVE  /\ f \in Proposal /\ Changed(q, f)
           /\ \A i : IndexOf(i, f) = IndexOf(i, q)
           /\ is_authorized_to_execute(f) = is_authorized_to_execute(q)
<1>1. /\ f.ops = q.ops /\ f.active = q.active /\ f.owner = q.owner
      /\ f.key = q.key /\ f.review_period = q.review_period
      /\ f.expiration_time = q.expiration_time
  BY DEF Proposal
<1>2. f \in Proposal
  BY Zenon DEF Proposal
<1>3. required_owner(f) = required_owner(q) /\ required_active(f) = required_active(q)
  BY <1>1 DEF required_owner, required_active
<1>4. \A i : IndexOf(i, f) = IndexOf(i, q)
  BY <1>1, <1>3, Zenon DEF IndexOf, Required
<1>5. is_authorized_to_execute(f) = is_authorized_to_execute(q)
  BY <1>1, <1>3, Zenon DEF is_authorized_to_execute
<1>6. Changed(q, f)
  BY <1>1, Zenon DEF Changed, Approvals
<1> QED BY <1>2, <1>4, <1>5, <1>6, Zenon

(* proposal_update_evaluator: the proposal changes as it may, and runs only *)
(* if it is approved, has no review period and is not nested too deep.     *)
LEMMA UpdateKeeps ==
    ASSUME State \in Session, IndexHasNoStrangers,
           NEW op, NEW below, AnyOperation(op), CanUpdate(op), Len(below) \in Nat,
           Update(op, below)
    PROVE  /\ Kept(State, State')
           /\ IndexOK(by_account', proposals')
           /\ next_id' = next_id
           /\ \A i \in DOMAIN proposals \ {op.of} :
                 i \in DOMAIN proposals' /\ proposals'[i] = proposals[i]
           /\ \/ stack' = below
              \/ /\ stack' = Append(below, Frame(op.of, proposals'))
                 /\ MayRun(op.of, proposals')
                 /\ Len(below) < MaxNesting
<1> DEFINE p == proposals[op.of]
           q == Approved(p, op)
           runs == ~ HasReview(p) /\ is_authorized_to_execute(q)
           deep == Len(below) >= MaxNesting
           r == IF runs /\ deep THEN [q EXCEPT !.failed = TRUE] ELSE q
<1>1. /\ proposals' = [proposals EXCEPT ![op.of] = r]
      /\ by_account' = Reindexed(by_account, op.of, p, q)
      /\ next_id' = next_id
      /\ stack' = IF runs /\ ~ deep THEN Append(below, Frame(op.of, proposals'))
                  ELSE below
  BY Zenon DEF Update
<1>2. /\ op.of \in DOMAIN proposals /\ p \in Proposal
      /\ proposals \in Table /\ proposals \in [DOMAIN proposals -> Proposal]
      /\ DOMAIN proposals \subseteq Nat /\ next_id \in Nat
  <2>1. op.of \in DOMAIN proposals
    BY Zenon DEF CanUpdate
  <2>2. proposals \in Table /\ next_id \in Nat
    BY DEF Session, State
  <2> QED BY <2>1, <2>2, TableType
<1>3. q \in Proposal /\ Changed(p, q)
  <2>1. InReview(p) /\ op.kind = "approve" => op.auth = "key"
    BY DEF CanUpdate, AnyOperation
  <2> HIDE DEF p
  <2> QED BY <1>2, <2>1, ApprovedChanges DEF AnyOperation
<1>4. /\ r \in Proposal /\ Changed(p, r) /\ IndexOf(op.of, r) = IndexOf(op.of, q)
      /\ is_authorized_to_execute(r) = is_authorized_to_execute(q)
      /\ r.review_period = p.review_period
  <2> HIDE DEF p, q, runs, deep
  <2>1. CASE runs /\ deep
    <3>1. r = [q EXCEPT !.failed = TRUE]
      BY <2>1
    <3> HIDE DEF r
    <3>2. /\ r \in Proposal /\ Changed(q, r) /\ IndexOf(op.of, r) = IndexOf(op.of, q)
          /\ is_authorized_to_execute(r) = is_authorized_to_execute(q)
      BY <1>3, <3>1, FailedSame
    <3>3. Changed(p, r)
      BY <1>3, <3>2 DEF Changed, InReview, HasReview, review_period_time
    <3> QED BY <3>2, <3>3 DEF Changed
  <2>2. CASE ~ (runs /\ deep)
    BY <1>3, <2>2 DEF Changed
  <2> QED BY <2>1, <2>2
<1> HIDE DEF q, runs, deep, r
<1>5. Kept(State, State')
  <2>1. State' = [proposals |-> proposals', next_id |-> next_id]
    BY <1>1 DEF State
  <2>2. proposals' \in Table
    <3> HIDE DEF p
    <3>1. /\ DOMAIN proposals' = DOMAIN proposals
          /\ proposals' \in [DOMAIN proposals -> Proposal]
      BY <1>1, <1>2, <1>4
    <3> QED BY <1>2, <3>1, TableType
  <2>3. DOMAIN proposals' = DOMAIN proposals
    BY <1>1
  <2>4. \A i \in DOMAIN proposals : Changed(proposals[i], proposals'[i])
    BY <1>1, <1>2, <1>4 DEF Changed
  <2> QED BY <1>2, <2>1, <2>2, <2>3, <2>4 DEF Kept, State, Session
<1>6. IndexOK(by_account', proposals')
  <2>1. \A pair \in by_account : pair[2] = op.of => pair \in IndexOf(op.of, p)
    BY Zenon DEF IndexHasNoStrangers
  <2>2. \A pair \in by_account' :
           IF pair[2] = op.of THEN pair \in IndexOf(op.of, q) ELSE pair \in by_account
    <3>1. q.ops = p.ops
      BY <1>3, Zenon DEF Changed
    <3> HIDE DEF p
    <3> QED BY <1>1, <2>1, <3>1, ReindexedOK, Zenon
  <2> QED BY <1>1, <1>2, <1>4, <2>2 DEF IndexOK, IndexHasNoStrangers
<1>7. \A i \in DOMAIN proposals \ {op.of} :
         i \in DOMAIN proposals' /\ proposals'[i] = proposals[i]
  BY <1>1
<1>8. ASSUME runs, ~ deep
      PROVE  MayRun(op.of, proposals') /\ Len(below) < MaxNesting
  <2>1. Len(below) < MaxNesting
    BY <1>8, ProposalAssumption DEF deep
  <2>2. ~ HasReview(r) /\ is_authorized_to_execute(r)
    BY <1>4, <1>8 DEF runs, HasReview
  <2>3. op.of \in DOMAIN proposals' /\ proposals'[op.of] = r
    BY <1>1, <1>2
  <2> QED BY <2>1, <2>2, <2>3 DEF MayRun
<1> QED BY <1>1, <1>5, <1>6, <1>7, <1>8, Zenon

(* Every kind of operation.                                                *)
LEMMA ApplyKeeps ==
    ASSUME State \in Session, IndexHasNoStrangers,
           NEW op, NEW below, AnyOperation(op), Len(below) \in Nat, Apply(op, below)
    PROVE  /\ Kept(State, State')
           /\ IndexOK(by_account', proposals')
           /\ next_id' = next_id
           /\ \A i \in DOMAIN proposals :
                 op.kind \in {"work", "bad"} \/ i # op.of =>
                    i \in DOMAIN proposals' /\ proposals'[i] = proposals[i]
           /\ \/ stack' = below
              \/ /\ op.kind \notin {"work", "bad"}
                 /\ stack' = Append(below, Frame(op.of, proposals'))
                 /\ MayRun(op.of, proposals')
                 /\ Len(below) < MaxNesting
<1>1. CASE op.kind \in {"approve", "withdraw"}
  <2>1. CanUpdate(op) /\ Update(op, below)
    BY <1>1 DEF Apply, CanApply
  <2>2. op.kind \notin {"work", "bad"}
    BY <1>1
  <2> QED BY <2>1, <2>2, UpdateKeeps, Zenon
<1>2. CASE op.kind = "delete"
  <2>1. Remove(op.of) /\ stack' = below /\ next_id' = next_id
    BY <1>2 DEF Apply
  <2>2. op.kind \notin {"work", "bad"}
    BY <1>2
  <2>3. /\ Kept(State, State')
        /\ IndexOK(by_account', proposals')
        /\ \A i \in DOMAIN proposals \ {op.of} :
              i \in DOMAIN proposals' /\ proposals'[i] = proposals[i]
    BY <2>1, RemoveKeeps, Zenon
  <2> QED BY <2>1, <2>2, <2>3, Zenon
<1>3. CASE op.kind \in {"work", "bad"}
  <2>1. UNCHANGED <<proposals, by_account>> /\ stack' = below /\ next_id' = next_id
    BY <1>3 DEF Apply
  <2>2. State' = State
    BY <2>1 DEF State
  <2>3. IndexOK(by_account', proposals')
    BY <2>1, Zenon DEF IndexOK, IndexHasNoStrangers
  <2> QED BY <2>1, <2>2, <2>3, KeptItself, Zenon
<1> QED BY <1>1, <1>2, <1>3 DEF AnyOperation

(* A sequence with one more element.                                       *)
LEMMA AppendFacts ==
    ASSUME NEW S, NEW q \in Seq(S), NEW f \in S, NEW r, r = Append(q, f)
    PROVE  /\ r \in Seq(S) /\ Len(r) = Len(q) + 1 /\ Len(q) \in Nat
           /\ DOMAIN q = 1..Len(q) /\ DOMAIN r = 1..(Len(q) + 1)
           /\ r[Len(q) + 1] = f
           /\ \A k \in 1..Len(q) : r[k] = q[k]
OBVIOUS

(* Whether a proposal may run does not depend on the step, only on its     *)
(* table and the time.                                                     *)
LEMMA MayRunLater ==
    ASSUME now' = now
    PROVE  \A i, ps : MayRun(i, ps)' <=> MayRun(i, ps)
BY DEF MayRun

(* The frames an operation finds, which it may leave one step further:     *)
SameFrames(below) ==
    /\ below \in Seq(FrameType)
    /\ Len(below) = Len(stack)
    /\ \A k \in DOMAIN stack : /\ below[k].proposal = stack[k].proposal
                               /\ below[k].saved = stack[k].saved

(* Frames that go on to their next operation stay right while each of      *)
(* their proposals may run.                                                *)
LEMMA StackStays ==
    ASSUME StackType, StackOK, NEW below, SameFrames(below),
           \A k \in DOMAIN stack : MayRun(stack[k].proposal, proposals'),
           stack' = below, now' = now
    PROVE  StackOK'
<1>1. DOMAIN stack = 1..Len(stack) /\ DOMAIN below = 1..Len(stack) /\ Len(stack) \in Nat
  BY DEF StackType, SameFrames
<1>2. \A j \in DOMAIN stack' : MayRun(stack'[j].proposal, proposals')
  BY <1>1 DEF SameFrames
<1>3. \A k \in DOMAIN stack' : \A j \in 1..k :
         MayRun(stack'[j].proposal, stack'[k].saved.proposals)
  BY <1>1 DEF SameFrames, StackOK
<1>4. NoReentry'
  BY <1>1 DEF SameFrames, StackOK, NoReentry
<1> QED BY <1>2, <1>3, <1>4, MayRunLater, Zenon DEF StackOK

(* and perhaps one more for an older proposal, which starts from the       *)
(* resulting state.                                                        *)
LEMMA StackGrows ==
    ASSUME StackType, StackOK, NEW below, SameFrames(below),
           \A k \in DOMAIN stack : MayRun(stack[k].proposal, proposals'),
           NEW f \in FrameType, stack' = Append(below, f), now' = now,
           MayRun(f.proposal, proposals'), f.saved.proposals = proposals',
           Len(below) < MaxNesting,
           \A k \in DOMAIN stack : f.proposal < stack[k].proposal
    PROVE  StackOK'
<1> DEFINE n == Len(stack)
<1>1. /\ DOMAIN stack = 1..n /\ n \in Nat /\ Len(below) = n
      /\ \A k \in 1..n : stack[k] \in FrameType
  BY DEF StackType, SameFrames
<1>2. /\ DOMAIN stack' = 1..(n + 1) /\ Len(stack') = n + 1
      /\ stack'[n + 1] = f
      /\ \A k \in 1..n : stack'[k] = below[k]
  BY <1>1, AppendFacts DEF SameFrames
<1>3. \A k \in 1..n : stack[k].proposal \in Nat
  BY <1>1 DEF FrameType
<1>4. \A k \in 1..n : /\ stack'[k].proposal = stack[k].proposal
                      /\ stack'[k].saved = stack[k].saved
  BY <1>1, <1>2 DEF SameFrames
<1> HIDE DEF n
<1>5. ASSUME NEW j \in 1..(n + 1)
      PROVE  MayRun(stack'[j].proposal, proposals')
  <2>1. CASE j = n + 1
    BY <1>2, <2>1
  <2>2. CASE j # n + 1
    <3>1. j \in 1..n
      BY <1>1, <2>2
    <3> QED BY <1>1, <1>4, <3>1, Zenon
  <2> QED BY <2>1, <2>2, Zenon
<1>6. ASSUME NEW k \in 1..(n + 1), NEW j \in 1..k
      PROVE  MayRun(stack'[j].proposal, stack'[k].saved.proposals)
  <2>1. CASE k = n + 1
    BY <1>2, <1>5, <2>1
  <2>2. CASE k # n + 1
    <3>1. k \in 1..n /\ j \in 1..n
      BY <1>1, <2>2
    <3> QED BY <1>1, <1>4, <3>1, Zenon DEF StackOK
  <2> QED BY <2>1, <2>2, Zenon
<1>7. NoReentry'
  <2>1. ASSUME NEW j \in 1..(n + 1), NEW k \in 1..(n + 1), j < k
        PROVE  stack'[k].proposal < stack'[j].proposal
    <3>1. j \in 1..n
      BY <1>1, <2>1
    <3>2. CASE k = n + 1
      BY <1>1, <1>2, <1>4, <3>1, <3>2
    <3>3. CASE k # n + 1
      <4>1. k \in 1..n
        BY <1>1, <3>3
      <4> QED BY <1>1, <1>4, <2>1, <3>1, <4>1, Zenon DEF StackOK, NoReentry
    <3> QED BY <3>2, <3>3, Zenon
  <2>2. n + 1 <= MaxNesting
    BY <1>1, ProposalAssumption
  <2> QED BY <1>2, <2>1, <2>2 DEF NoReentry
<1> QED BY <1>2, <1>5, <1>6, <1>7, MayRunLater, Zenon DEF StackOK

(* The current state is one of the sessions.                               *)
LEMMA CurrentSession ==
    ASSUME SessionsOK
    PROVE  State \in Sessions /\ State \in Session /\ RefersBack(State)
BY Zenon DEF SessionsOK, Sessions

(* An operation that names older proposals than the running ones keeps the *)
(* invariant, whether a transaction or a running proposal contains it.     *)
LEMMA ApplyStep ==
    ASSUME ProposalInv, NEW op, NEW below, AnyOperation(op), SameFrames(below),
           Apply(op, below),
           op.kind \notin {"work", "bad"} =>
              \A k \in DOMAIN stack : op.of < stack[k].proposal,
           mode # "idle", UNCHANGED <<now, mode, before, frozen>>
    PROVE  ProposalInv'
<1>1. /\ StackType /\ SessionsOK /\ StackOK /\ IndexHasNoStrangers
      /\ State \in Sessions /\ State \in Session
  BY CurrentSession, Zenon DEF ProposalInv
<1>2. Len(below) \in Nat /\ below \in Seq(FrameType)
  BY DEF SameFrames
<1>3. /\ Kept(State, State')
      /\ IndexOK(by_account', proposals')
      /\ next_id' = next_id
      /\ \A i \in DOMAIN proposals :
            op.kind \in {"work", "bad"} \/ i # op.of =>
               i \in DOMAIN proposals' /\ proposals'[i] = proposals[i]
      /\ \/ stack' = below
         \/ /\ op.kind \notin {"work", "bad"}
            /\ stack' = Append(below, Frame(op.of, proposals'))
            /\ MayRun(op.of, proposals')
            /\ Len(below) < MaxNesting
  BY <1>1, <1>2, ApplyKeeps, Zenon
<1>4. ASSUME NEW k \in DOMAIN stack
      PROVE  MayRun(stack[k].proposal, proposals')
  <2>1. MayRun(stack[k].proposal, proposals)
    BY <1>1, Zenon DEF StackOK
  <2>2. op.kind \in {"work", "bad"} \/ stack[k].proposal # op.of
    <3>1. op.of \in Nat
      BY DEF AnyOperation
    <3> QED BY <1>4, <3>1
  <2> QED BY <1>3, <2>1, <2>2, Zenon DEF MayRun
<1> DEFINE f == Frame(op.of, proposals')
<1>5. /\ f \in FrameType /\ f.proposal = op.of /\ f.saved = State'
      /\ f.saved.proposals = proposals'
  <2>1. State' \in Session /\ State' = [proposals |-> proposals', next_id |-> next_id]
    BY <1>3 DEF Kept, State
  <2>2. op.of \in Nat
    BY DEF AnyOperation
  <2> QED BY <2>1, <2>2 DEF Frame, FrameType
<1> HIDE DEF f
<1>6. /\ stack' \in Seq(FrameType)
      /\ \A k \in DOMAIN stack' :
            stack'[k].saved \in Sessions \cup {State'}
  <2>0. /\ DOMAIN below = DOMAIN stack /\ DOMAIN below = 1..Len(below)
        /\ \A k \in DOMAIN stack : below[k].saved = stack[k].saved
    BY <1>1 DEF StackType, SameFrames
  <2>1. \A k \in DOMAIN below : below[k].saved \in Sessions
    BY <2>0, Zenon DEF Sessions
  <2>2. CASE stack' = below
    BY <1>2, <2>1, <2>2
  <2>3. CASE stack' = Append(below, f)
    <3>1. /\ stack' \in Seq(FrameType) /\ DOMAIN stack' = 1..(Len(below) + 1)
          /\ stack'[Len(below) + 1] = f
          /\ \A k \in 1..Len(below) : stack'[k] = below[k]
      BY <1>2, <1>5, <2>3, AppendFacts
    <3>2. ASSUME NEW k \in DOMAIN stack'
          PROVE  stack'[k].saved \in Sessions \cup {State'}
      <4>1. k = Len(below) + 1 \/ k \in 1..Len(below)
        BY <1>2, <3>1, <3>2
      <4> QED BY <1>5, <2>0, <2>1, <3>1, <4>1, Zenon
    <3> QED BY <3>1, <3>2, Zenon
  <2> QED BY <1>3, <2>2, <2>3, Zenon DEF f
<1>7. SessionsOK'
  <2>1. Sessions' \subseteq Sessions \cup {State'}
    BY <1>6, Zenon DEF Sessions
  <2> QED BY <1>1, <1>3, <2>1, SessionsStep, Zenon
<1>8. StackOK'
  <2>1. CASE stack' = below
    BY <1>1, <1>4, <2>1, StackStays, Zenon
  <2>2. CASE stack' # below
    <3>1. /\ op.kind \notin {"work", "bad"}
          /\ stack' = Append(below, f)
          /\ MayRun(op.of, proposals')
          /\ Len(below) < MaxNesting
      BY <1>3, <2>2, Zenon DEF f
    <3> QED BY <1>1, <1>4, <1>5, <3>1, StackGrows, Zenon
  <2> QED BY <2>1, <2>2, Zenon
<1>9. StackType'
  BY <1>1, <1>6 DEF StackType, FrameType, Session, Table, Proposal
<1>10. IndexHasNoStrangers'
  BY <1>3, Zenon DEF IndexOK, IndexHasNoStrangers
<1> QED BY <1>7, <1>8, <1>9, <1>10, Zenon DEF ProposalInv
--------------------------------------------------------------------------------
(* The actions that change no more than the mode or drop a session.        *)
LEMMA QuietStep ==
    ASSUME ProposalInv, UNCHANGED <<now, proposals, next_id, by_account, stack, frozen>>,
           mode' \in {"idle", "tx", "expire"}, mode' = "idle" => stack = <<>>,
           \/ mode' = "tx" => mode = "tx" /\ before' = before
           \/ before' = State /\ stack = <<>>
    PROVE  ProposalInv'
<1>1. State' = State
  BY DEF State
<1>2. StackType' /\ StackOK' /\ IndexHasNoStrangers'
  <2>1. StackType'
    BY DEF ProposalInv, StackType, FrameType, Session, Table, Proposal
  <2>2. IndexHasNoStrangers'
    BY Zenon DEF ProposalInv, IndexHasNoStrangers
  <2>3. StackOK'
    BY MayRunLater, Zenon DEF ProposalInv, StackOK, NoReentry
  <2> QED BY <2>1, <2>2, <2>3
<1>3. SessionsOK'
  <2>2. State \in Sessions /\ State \in Session /\ Kept(State, State')
    BY <1>1, CurrentSession, KeptItself, Zenon DEF ProposalInv
  <2>3. CASE mode' = "tx" => mode = "tx" /\ before' = before
    <3>1. Sessions' \subseteq Sessions
      BY <1>1, <2>3, Zenon DEF Sessions
    <3> QED BY <2>2, <2>3, <3>1, SessionsStep, Zenon DEF ProposalInv
  <2>4. CASE before' = State /\ stack = <<>>
    <3>1. \A s \in Sessions' : s = State
      BY <1>1, <2>4 DEF Sessions
    <3>2. SessionsOK
      BY Zenon DEF ProposalInv
    <3>3. State \in Session /\ RefersBack(State) /\ Frozen(State)
      BY <2>2, <3>2, Zenon DEF SessionsOK
    <3>4. RefersBack(State)' /\ Frozen(State)' /\ SameOps(State, State)
      BY <3>3 DEF RefersBack, Frozen, State, InReview, HasReview,
         review_period_time, SameOps
    <3>5. State.next_id <= State.next_id
      BY <3>3 DEF Session
    <3> QED BY <3>1, <3>3, <3>4, <3>5, <1>1, <2>4 DEF SessionsOK
  <2> QED BY <2>3, <2>4
<1> QED BY <1>2, <1>3, Zenon DEF ProposalInv

(* A transaction begins.                                                   *)
LEMMA StartTransaction ==
    ASSUME ProposalInv, start_transaction, frozen' = frozen
    PROVE  ProposalInv'
<1>1. stack = <<>>
  BY DEF ProposalInv, StackType, start_transaction
<1> QED BY <1>1, QuietStep DEF start_transaction

(* A transaction is accepted.                                              *)
LEMMA FinishTransaction ==
    ASSUME ProposalInv, finish_transaction, frozen' = frozen
    PROVE  ProposalInv'
BY QuietStep DEF finish_transaction, AtBottom

(* The proposals that expired are done with.                               *)
LEMMA FinishBlock ==
    ASSUME ProposalInv, finish_block, frozen' = frozen
    PROVE  ProposalInv'
BY QuietStep DEF finish_block, AtBottom

(* The session of the transaction is undone.                               *)
LEMMA AbortTransaction ==
    ASSUME ProposalInv, abort_transaction, frozen' = frozen
    PROVE  ProposalInv'
<1>1. /\ mode = "tx" /\ stack = <<>> /\ Undo(before)
      /\ mode' = "idle" /\ now' = now /\ stack' = stack
  BY DEF abort_transaction, AtBottom
<1>2. StackType /\ SessionsOK /\ StackOK /\ IndexHasNoStrangers
  BY Zenon DEF ProposalInv
<1>3. before \in Sessions /\ before \in Session /\ SameOps(State, before)
  BY <1>1, <1>2, Zenon DEF SessionsOK, Sessions
<1>4. /\ State' = before /\ proposals' = before.proposals
      /\ by_account' = IndexAfterUndo(before)
  BY <1>1, <1>3 DEF Undo, State, Session
<1>5. SessionsOK'
  <2>1. Sessions' \subseteq Sessions \cup {State'}
    BY <1>1, Zenon DEF Sessions
  <2>2. Kept(before, State')
    BY <1>3, <1>4, KeptItself, Zenon
  <2>3. mode' = "tx" => mode = "tx" /\ before' = before
    BY <1>1
  <2> QED BY <1>1, <1>2, <1>3, <2>1, <2>2, <2>3, SessionsStep, Zenon
<1>6. IndexHasNoStrangers'
  <2>1. IndexOK(by_account', proposals')
    BY <1>2, <1>3, <1>4, UndoIndexOK, Zenon
  <2> QED BY <2>1, Zenon DEF IndexOK, IndexHasNoStrangers
<1>7. StackType'
  BY <1>1, <1>2 DEF StackType, FrameType, Session, Table, Proposal
<1>8. StackOK'
  BY <1>1, ProposalAssumption DEF StackOK, NoReentry
<1> QED BY <1>5, <1>6, <1>7, <1>8, Zenon DEF ProposalInv

(* A proposal is created at the bottom of a transaction only.              *)
LEMMA CreateProposal ==
    ASSUME ProposalInv, NEW c \in Creations,
           proposal_create(c.ops, c.lifetime, c.review), frozen' = frozen
    PROVE  ProposalInv'
<1> DEFINE p == [ops |-> c.ops, expiration_time |-> now + c.lifetime,
                 review_period |-> c.review, active |-> {}, owner |-> {},
                 key |-> {}, failed |-> FALSE]
<1>1. /\ mode = "tx" /\ stack = <<>>
      /\ \A id \in Referred(c.ops) : id < next_id
      /\ proposals' = With(next_id, p)
      /\ by_account' = by_account \cup IndexOf(next_id, p)
      /\ next_id' = next_id + 1
      /\ UNCHANGED <<now, stack, mode, before>>
  BY Zenon DEF proposal_create, AtBottom
<1>2. /\ StackType /\ SessionsOK /\ IndexHasNoStrangers
      /\ State \in Sessions /\ State \in Session /\ RefersBack(State)
  BY CurrentSession, Zenon DEF ProposalInv
<1>3. p \in Proposal
  <2>1. c.ops \in {d.ops : d \in Creations}
    OBVIOUS
  <2>2. now + c.lifetime \in Nat /\ c.review \in Nat
    BY <1>2, ProposalAssumption DEF StackType
  <2> QED BY <2>1, <2>2, Zenon DEF Proposal
<1>4. p.ops = c.ops
  OBVIOUS
<1> HIDE DEF p
<1>5. /\ proposals \in [DOMAIN proposals -> Proposal] /\ DOMAIN proposals \subseteq Nat
      /\ next_id \in Nat /\ next_id \notin DOMAIN proposals
      /\ \A i \in DOMAIN proposals :
            i < next_id /\ \A r \in Referred(proposals[i].ops) : r < i
  <2>1. proposals \in Table /\ next_id \in Nat
    BY <1>2 DEF Session, State
  <2>2. \A i \in DOMAIN proposals :
            i < next_id /\ \A r \in Referred(proposals[i].ops) : r < i
    BY <1>2 DEF RefersBack, State
  <2> QED BY <2>1, <2>2, TableType
<1>6. /\ DOMAIN proposals' = DOMAIN proposals \cup {next_id}
      /\ proposals'[next_id] = p
      /\ \A i \in DOMAIN proposals : proposals'[i] = proposals[i]
  BY <1>1, <1>5 DEF With
<1>7. /\ State' = [proposals |-> proposals', next_id |-> next_id + 1]
      /\ State'.proposals = proposals' /\ State'.next_id = next_id + 1
  BY <1>1 DEF State
<1>8. State' \in Session /\ RefersBack(State')
  <2>1. proposals' \in Table
    <3>1. proposals' \in [DOMAIN proposals' -> Proposal]
      BY <1>1, <1>3, <1>5, <1>6 DEF With
    <3>2. DOMAIN proposals' \subseteq Nat
      BY <1>5, <1>6
    <3> QED BY <3>1, <3>2, TableType, Zenon
  <2>2. State' \in Session
    BY <1>5, <1>7, <2>1 DEF Session
  <2>3. ASSUME NEW i \in DOMAIN proposals', NEW r \in Referred(proposals'[i].ops)
        PROVE  i < next_id + 1 /\ r < i
    <3>1. CASE i = next_id
      BY <1>1, <1>4, <1>5, <1>6, <3>1, <2>3
    <3>2. CASE i # next_id
      <4>1. i \in DOMAIN proposals /\ proposals'[i] = proposals[i] /\ i \in Nat
        BY <1>5, <1>6, <3>2
      <4> QED BY <1>5, <2>3, <4>1
    <3> QED BY <3>1, <3>2, Zenon
  <2>4. ASSUME NEW i \in DOMAIN proposals'
        PROVE  i < next_id + 1
    BY <1>5, <1>6
  <2> QED BY <1>7, <2>2, <2>3, <2>4, Zenon DEF RefersBack
<1>9. Frozen(State')
  <2>1. Frozen(State)
    BY <1>2, Zenon DEF SessionsOK
  <2>2. \A i \in DOMAIN frozen : i \in Nat /\ i < next_id
    BY <1>2, <2>1 DEF StackType, Frozen, State
  <2>3. \A i \in DOMAIN proposals \cap DOMAIN frozen :
           InReview(proposals[i]) /\ Approvals(proposals[i]) \subseteq frozen[i]
    BY <2>1 DEF Frozen, State
  <2>4. \A i \in DOMAIN frozen : i < next_id + 1 /\ i # next_id
    BY <1>5, <2>2
  <2>5. ASSUME NEW i \in DOMAIN proposals' \cap DOMAIN frozen
        PROVE  InReview(proposals'[i]) /\ Approvals(proposals'[i]) \subseteq frozen[i]
    BY <1>6, <2>3, <2>4, Zenon
  <2> QED BY <1>7, <2>4, <2>5, Zenon DEF Frozen
<1>10. /\ before \in Session /\ RefersBack(before) /\ Frozen(before)
       /\ before.next_id \in Nat /\ before.next_id <= next_id
       /\ SameOps(State, before)
  <2>1. before \in Sessions
    BY <1>1, Zenon DEF Sessions
  <2>2. /\ before \in Session /\ RefersBack(before) /\ Frozen(before)
        /\ before.next_id <= State.next_id /\ SameOps(State, before)
    BY <1>1, <1>2, <2>1, Zenon DEF SessionsOK
  <2>3. State.next_id = next_id /\ before.next_id \in Nat
    BY <2>2 DEF State, Session
  <2> QED BY <2>2, <2>3
<1>11. SameOps(State', before) /\ SameOps(before, State')
  <2>1. next_id \notin DOMAIN before.proposals
    <3>1. \A i \in DOMAIN before.proposals : i \in Nat
      BY <1>10, TableType DEF Session
    <3> QED BY <1>5, <1>10, <3>1 DEF RefersBack
  <2>2. \A i \in DOMAIN proposals \cap DOMAIN before.proposals :
           proposals[i].ops = before.proposals[i].ops
    BY <1>10 DEF SameOps, State
  <2> QED BY <1>6, <1>7, <2>1, <2>2 DEF SameOps
<1>12. \A s \in Sessions' : s = State' \/ s = before
  BY <1>1 DEF Sessions
<1>13. SessionsOK'
  <2>1. before.next_id <= State'.next_id /\ before.next_id <= before.next_id
    BY <1>5, <1>7, <1>10
  <2>2. \A s : (RefersBack(s)' <=> RefersBack(s)) /\ (Frozen(s)' <=> Frozen(s))
    BY <1>1 DEF RefersBack, Frozen, InReview, HasReview, review_period_time
  <2>3. \A s, t \in Sessions' : SameOps(s, t)
    <3>1. SameOps(State', State') /\ SameOps(before, before)
      BY DEF SameOps
    <3> QED BY <1>11, <1>12, <3>1, Zenon
  <2>4. Session' = Session
    BY DEF Session, Table, Proposal
  <2>5. \A s \in Sessions' :
           /\ s \in Session /\ RefersBack(s) /\ Frozen(s)
           /\ mode' = "tx" => before'.next_id <= s.next_id
    BY <1>1, <1>8, <1>9, <1>10, <1>12, <2>1, Zenon
  <2>6. \A s, t : SameOps(s, t)' <=> SameOps(s, t)
    BY DEF SameOps
  <2> QED BY <2>2, <2>3, <2>4, <2>5, <2>6, Zenon DEF SessionsOK
<1>14. IndexHasNoStrangers'
  <2>1. \A pair \in IndexOf(next_id, p) : pair[2] = next_id
    BY DEF IndexOf, Pairs
  <2>2. IndexOK(by_account', proposals')
    BY <1>1, <1>2, <1>5, <1>6, <2>1, Zenon DEF IndexOK, IndexHasNoStrangers
  <2> QED BY <2>2, Zenon DEF IndexOK, IndexHasNoStrangers
<1>15. StackType'
  BY <1>1, <1>2 DEF StackType, FrameType, Session, Table, Proposal
<1>16. StackOK'
  BY <1>1, ProposalAssumption DEF StackOK, NoReentry
<1> QED BY <1>13, <1>14, <1>15, <1>16, Zenon DEF ProposalInv

(* An operation of the transaction itself: nothing is running.             *)
LEMMA ApplyOperation ==
    ASSUME ProposalInv, NEW op \in Operations, apply_operation(op), frozen' = frozen
    PROVE  ProposalInv'
<1>1. /\ mode = "tx" /\ stack = <<>> /\ Apply(op, stack)
      /\ UNCHANGED <<now, mode, before>>
  BY DEF apply_operation, AtBottom
<1>2. AnyOperation(op)
  BY ProposalAssumption DEF AnyOperation
<1>3. SameFrames(stack)
  BY DEF SameFrames, ProposalInv, StackType
<1>4. \A k \in DOMAIN stack : op.of < stack[k].proposal
  BY <1>1
<1>5. mode # "idle"
  BY <1>1
<1> QED BY <1>1, <1>2, <1>3, <1>4, <1>5, ApplyStep, Zenon

(* An operation that names a proposal refers to it.                        *)
LEMMA ReferredTo ==
    ASSUME NEW ops, NEW k \in DOMAIN ops, ops[k].kind \notin {"work", "bad"}
    PROVE  ops[k].of \in Referred(ops)
BY Zenon DEF Referred

(* What a proposal lists is an operation.                                  *)
LEMMA ListedOperation ==
    ASSUME NEW op \in Listed
    PROVE  AnyOperation(op)
BY DEF Listed, AnyOperation

(* An operation of the innermost running proposal: it names older ones,    *)
(* and the proposals below it are newer still.                             *)
LEMMA RunOperation ==
    ASSUME ProposalInv, run_operation, frozen' = frozen
    PROVE  ProposalInv'
<1> DEFINE n == Len(stack)
           id == stack[n].proposal
           op == proposals[id].ops[stack[n].next]
<1>1. /\ stack # <<>> /\ stack[n].next <= Len(proposals[id].ops)
      /\ Apply(op, Returned) /\ UNCHANGED <<now, mode, before>>
  BY DEF run_operation, AtBottom, Top, Running
<1>2. /\ n \in Nat \ {0} /\ stack \in Seq(FrameType) /\ DOMAIN stack = 1..n
      /\ mode # "idle"
  BY <1>1 DEF ProposalInv, StackType
<1>3. stack[n] \in FrameType /\ id \in Nat /\ stack[n].next \in Nat \ {0}
  <2>1. stack[n] \in FrameType
    BY <1>2
  <2> QED BY <2>1 DEF FrameType
<1>4. id \in DOMAIN proposals
  BY <1>2 DEF ProposalInv, StackOK, MayRun
<1>5. /\ proposals[id].ops \in Seq(Listed)
      /\ \A r \in Referred(proposals[id].ops) : r < id
  <2>1. proposals \in Table /\ RefersBack(State)
    BY CurrentSession DEF ProposalInv, Session, State
  <2>2. proposals[id] \in Proposal
    BY <1>4, <2>1, TableType
  <2>3. \A r \in Referred(proposals[id].ops) : r < id
    BY <1>4, <2>1 DEF RefersBack, State
  <2> QED BY <2>2, <2>3, ProposalType
<1>6. op \in Listed /\ stack[n].next \in DOMAIN proposals[id].ops
  <2>1. stack[n].next \in 1..Len(proposals[id].ops)
    BY <1>1, <1>3, <1>5
  <2> QED BY <1>5, <2>1
<1>7. op.kind \notin {"work", "bad"} => op.of < id
  BY <1>5, <1>6, ReferredTo, Zenon
<1> HIDE DEF op
<1>8. AnyOperation(op) /\ op.of \in Nat
  BY <1>6, ListedOperation DEF AnyOperation
<1>9. SameFrames(Returned)
  <2> DEFINE f == [stack[n] EXCEPT !.next = @ + 1]
  <2>1. f \in FrameType /\ f.proposal = stack[n].proposal /\ f.saved = stack[n].saved
    BY <1>3 DEF FrameType
  <2>2. Returned = [stack EXCEPT ![n] = f]
    BY DEF Returned
  <2> HIDE DEF f
  <2>3. /\ Returned \in Seq(FrameType) /\ Len(Returned) = n
        /\ \A k \in 1..n : Returned[k] = IF k = n THEN f ELSE stack[k]
    BY <1>2, <2>1, <2>2
  <2>4. ASSUME NEW k \in 1..n
        PROVE  Returned[k].proposal = stack[k].proposal /\ Returned[k].saved = stack[k].saved
    BY <2>1, <2>3, Zenon
  <2> QED BY <1>2, <2>3, <2>4, Zenon DEF SameFrames
<1>10. ASSUME op.kind \notin {"work", "bad"}, NEW k \in DOMAIN stack
       PROVE  op.of < stack[k].proposal
  <2>1. k = n \/ id < stack[k].proposal
    BY <1>2, <1>10 DEF ProposalInv, StackOK, NoReentry
  <2>2. stack[k] \in FrameType
    BY <1>2
  <2>3. stack[k].proposal \in Nat
    BY <2>2 DEF FrameType
  <2>4. op.of < id
    BY <1>7, <1>10
  <2> QED BY <1>3, <1>8, <2>1, <2>3, <2>4
<1> QED BY <1>1, <1>2, <1>8, <1>9, <1>10, ApplyStep, Zenon

(* The innermost proposal is done or has failed; the result follows from   *)
(* one of the open sessions, and what still runs may run in it.            *)
LEMMA PopStep ==
    ASSUME ProposalInv, stack # <<>>, stack' = Popped,
           NEW s0 \in Sessions, Kept(s0, State'), IndexOK(by_account', proposals'),
           \A k \in 1..(Len(stack) - 1) : MayRun(stack[k].proposal, proposals'),
           UNCHANGED <<now, mode, before, frozen>>
    PROVE  ProposalInv'
<1> DEFINE n == Len(stack)
<1>1. /\ n \in Nat \ {0} /\ stack \in Seq(FrameType) /\ DOMAIN stack = 1..n
      /\ mode # "idle"
  BY DEF ProposalInv, StackType
<1>2. /\ stack' \in Seq(FrameType) /\ Len(stack') = n - 1 /\ DOMAIN stack' = 1..(n - 1)
      /\ \A k \in 1..(n - 1) : stack'[k] = stack[k]
  BY <1>1 DEF Popped
<1>3. \A k \in 1..(n - 1) : k \in 1..n
  BY <1>1
<1>4. SessionsOK'
  <2>1. Sessions' \subseteq Sessions \cup {State'}
    BY <1>1, <1>2, <1>3, Zenon DEF Sessions
  <2> QED BY <2>1, SessionsStep, Zenon DEF ProposalInv
<1>5. StackType'
  BY <1>1, <1>2 DEF ProposalInv, StackType, FrameType, Session, Table, Proposal
<1>6. IndexHasNoStrangers'
  BY Zenon DEF IndexOK, IndexHasNoStrangers
<1>7. StackOK'
  <2> HIDE DEF n
  <2>1. \A j \in 1..(n - 1) : MayRun(stack'[j].proposal, proposals')
    BY <1>2, Zenon DEF n
  <2>2. ASSUME NEW k \in 1..(n - 1), NEW j \in 1..k
        PROVE  MayRun(stack'[j].proposal, stack'[k].saved.proposals)
    <3>1. j \in 1..(n - 1)
      BY <1>1
    <3> QED BY <1>1, <1>2, <1>3, <3>1, Zenon DEF ProposalInv, StackOK
  <2>3. NoReentry'
    <3>1. NoReentry
      BY DEF ProposalInv, StackOK
    <3>2. n - 1 <= MaxNesting
      BY <1>1, <3>1, ProposalAssumption DEF NoReentry, n
    <3>3. \A j, k \in 1..(n - 1) : j < k => stack'[k].proposal < stack'[j].proposal
      BY <1>1, <1>2, <1>3, <3>1, Zenon DEF NoReentry
    <3> QED BY <1>2, <3>2, <3>3, Zenon DEF NoReentry
  <2> QED BY <1>2, <2>1, <2>2, <2>3, MayRunLater, Zenon DEF StackOK
<1> QED BY <1>4, <1>5, <1>6, <1>7, Zenon DEF ProposalInv

(* The proposals below the innermost one are others, and may run.          *)
LEMMA RunningBelow ==
    ASSUME ProposalInv, stack # <<>>
    PROVE  /\ stack[Len(stack)].saved \in Sessions
           /\ MayRun(stack[Len(stack)].proposal, stack[Len(stack)].saved.proposals)
           /\ \A k \in 1..(Len(stack) - 1) :
                 /\ stack[k].proposal # stack[Len(stack)].proposal
                 /\ MayRun(stack[k].proposal, proposals)
                 /\ MayRun(stack[k].proposal, stack[Len(stack)].saved.proposals)
<1> DEFINE n == Len(stack)
<1>1. n \in Nat \ {0} /\ DOMAIN stack = 1..n /\ \A k \in 1..n : stack[k] \in FrameType
  BY DEF ProposalInv, StackType
<1>2. \A k \in 1..n : stack[k].proposal \in Nat
  BY <1>1 DEF FrameType
<1>3. n \in 1..n
  BY <1>1
<1>4. stack[n].saved \in Sessions /\ MayRun(stack[n].proposal, stack[n].saved.proposals)
  BY <1>1, <1>3, Zenon DEF Sessions, ProposalInv, StackOK
<1>5. ASSUME NEW k \in 1..(n - 1)
      PROVE  /\ stack[k].proposal # stack[n].proposal
             /\ MayRun(stack[k].proposal, proposals)
             /\ MayRun(stack[k].proposal, stack[n].saved.proposals)
  <2>1. k \in 1..n /\ k < n
    BY <1>1
  <2>2. stack[n].proposal < stack[k].proposal
    BY <1>1, <1>3, <2>1, Zenon DEF ProposalInv, StackOK, NoReentry
  <2>3. stack[k].proposal # stack[n].proposal
    BY <1>2, <1>3, <2>1, <2>2
  <2> QED BY <1>1, <1>3, <2>1, <2>3, Zenon DEF ProposalInv, StackOK
<1> QED BY <1>4, <1>5, Zenon

(* The operations of a proposal are all applied: push_proposal removes it. *)
LEMMA FinishProposal ==
    ASSUME ProposalInv, finish_proposal, frozen' = frozen
    PROVE  ProposalInv'
<1> DEFINE id == stack[Len(stack)].proposal
<1>1. /\ stack # <<>> /\ Remove(id) /\ stack' = Popped
      /\ UNCHANGED <<now, next_id, mode, before>>
  BY DEF finish_proposal, AtBottom, Top
<1>2. State \in Sessions /\ State \in Session /\ IndexHasNoStrangers
  BY CurrentSession, Zenon DEF ProposalInv
<1>3. /\ Kept(State, State') /\ IndexOK(by_account', proposals')
      /\ \A i \in DOMAIN proposals \ {id} :
            i \in DOMAIN proposals' /\ proposals'[i] = proposals[i]
  BY <1>1, <1>2, RemoveKeeps, Zenon
<1>4. \A k \in 1..(Len(stack) - 1) : MayRun(stack[k].proposal, proposals')
  BY <1>1, <1>3, RunningBelow, Zenon DEF MayRun
<1> QED BY <1>1, <1>2, <1>3, <1>4, PopStep, Zenon

(* An operation has thrown: what its session saved comes back, without the *)
(* proposal when it has expired, and with a mark on it otherwise.          *)
LEMMA FailProposal ==
    ASSUME ProposalInv, fail_proposal, frozen' = frozen
    PROVE  ProposalInv'
<1> DEFINE n == Len(stack)
           id == stack[n].proposal
           old == stack[n].saved
           expired == mode = "expire" /\ Len(stack) = 1
           index == IndexAfterUndo(old)
<1>1. /\ stack # <<>> /\ stack' = Popped
      /\ UNCHANGED <<now, mode, before>>
      /\ proposals' = IF expired
                      THEN [i \in DOMAIN old.proposals \ {id} |-> old.proposals[i]]
                      ELSE [old.proposals EXCEPT ![id].failed = TRUE]
      /\ by_account' = IF expired THEN index \ IndexOf(id, old.proposals[id]) ELSE index
      /\ next_id' = old.next_id
  BY DEF fail_proposal, AtBottom, Top
<1>2. /\ SessionsOK /\ IndexHasNoStrangers /\ State \in Sessions
      /\ old \in Sessions /\ MayRun(id, old.proposals)
      /\ \A k \in 1..(n - 1) : /\ stack[k].proposal # id
                               /\ MayRun(stack[k].proposal, old.proposals)
  BY <1>1, CurrentSession, RunningBelow, Zenon DEF ProposalInv
<1> HIDE DEF old, n, id, expired
<1>3. old \in Session /\ SameOps(State, old)
  BY <1>2, Zenon DEF SessionsOK
<1>4. IndexOK(index, old.proposals)
  BY <1>2, <1>3, UndoIndexOK, Zenon
<1> HIDE DEF index
<1>5. State' = [proposals |-> proposals', next_id |-> old.next_id]
  BY <1>1 DEF State
<1>6. CASE expired
  <2>1. /\ proposals' = [i \in DOMAIN old.proposals \ {id} |-> old.proposals[i]]
        /\ by_account' = index \ IndexOf(id, old.proposals[id])
    BY <1>1, <1>6
  <2>2. Kept(old, State')
    BY <1>3, <1>5, <2>1, WithoutKept
  <2>3. IndexOK(by_account', proposals')
    BY <1>4, <2>1, WithoutIndex, Zenon
  <2>4. \A i \in DOMAIN old.proposals :
           i # id => i \in DOMAIN proposals' /\ proposals'[i] = old.proposals[i]
    BY <2>1
  <2>5. \A k \in 1..(n - 1) : MayRun(stack[k].proposal, proposals')
    BY <1>2, <2>4, Zenon DEF MayRun
  <2> QED BY <1>1, <1>2, <2>2, <2>3, <2>5, PopStep, Zenon DEF n
<1>7. CASE ~ expired
  <2> DEFINE q == old.proposals[id]
             f == [q EXCEPT !.failed = TRUE]
  <2>1. /\ old.proposals \in [DOMAIN old.proposals -> Proposal]
        /\ DOMAIN old.proposals \subseteq Nat /\ old.next_id \in Nat
        /\ id \in DOMAIN old.proposals /\ q \in Proposal
    <3>1. old.proposals \in Table /\ old.next_id \in Nat
      BY <1>3 DEF Session
    <3>2. id \in DOMAIN old.proposals
      BY <1>2, Zenon DEF MayRun
    <3> QED BY <3>1, <3>2, TableType
  <2>2. proposals' = [old.proposals EXCEPT ![id] = f] /\ by_account' = index
    BY <1>1, <1>7
  <2>3. /\ f \in Proposal /\ Changed(q, f)
        /\ \A i : IndexOf(i, f) = IndexOf(i, q)
    BY <2>1, FailedSame, Zenon
  <2> HIDE DEF f, q
  <2>4. /\ DOMAIN proposals' = DOMAIN old.proposals
        /\ proposals' \in [DOMAIN old.proposals -> Proposal]
        /\ proposals'[id] = f
        /\ \A i \in DOMAIN old.proposals : i # id => proposals'[i] = old.proposals[i]
    BY <2>1, <2>2, <2>3
  <2>5. Kept(old, State')
    <3>1. proposals' \in Table
      BY <2>1, <2>4, TableType
    <3>2. \A i \in DOMAIN proposals' : Changed(old.proposals[i], proposals'[i])
      <4>1. \A i \in DOMAIN old.proposals : Changed(old.proposals[i], old.proposals[i])
        BY DEF Changed
      <4> QED BY <2>3, <2>4, <4>1, Zenon DEF q
    <3>3. State' \in Session /\ State'.proposals = proposals' /\ State'.next_id = old.next_id
      BY <1>5, <2>1, <3>1 DEF Session
    <3> QED BY <2>4, <3>2, <3>3, Zenon DEF Kept
  <2>6. IndexOK(by_account', proposals')
    BY <1>4, <2>1, <2>2, <2>3, <2>4, Zenon DEF IndexOK, q
  <2>7. \A k \in 1..(n - 1) : MayRun(stack[k].proposal, proposals')
    BY <1>2, <2>4, Zenon DEF MayRun
  <2> QED BY <1>1, <1>2, <2>5, <2>6, <2>7, PopStep, Zenon DEF n
<1> QED BY <1>6, <1>7

(* clear_expired_proposals runs the proposal that expires first if it is   *)
(* approved, and removes it otherwise.                                     *)
LEMMA ExpireProposal ==
    ASSUME ProposalInv, NEW id \in DOMAIN proposals, expire_proposal(id),
           frozen' = frozen
    PROVE  ProposalInv'
<1>1. /\ mode = "expire" /\ stack = <<>> /\ Expired(id)
      /\ UNCHANGED <<now, next_id, mode, before>>
  BY DEF expire_proposal, AtBottom
<1>2. /\ StackType /\ SessionsOK /\ StackOK /\ IndexHasNoStrangers
      /\ State \in Sessions /\ State \in Session /\ SameFrames(stack)
  BY CurrentSession DEF ProposalInv, SameFrames, StackType
<1>3. mode' = "tx" => mode = "tx" /\ before' = before
  BY <1>1
<1>4. CASE is_authorized_to_execute(proposals[id])
  <2> DEFINE f == Frame(id, proposals)
  <2>1. stack' = <<f>> /\ UNCHANGED <<proposals, by_account>>
    BY <1>4 DEF expire_proposal
  <2>2. State' = State /\ Kept(State, State')
    BY <1>1, <1>2, <2>1, KeptItself DEF State
  <2>3. /\ f \in FrameType /\ f.proposal = id /\ f.saved = State
        /\ f.saved.proposals = proposals
    <3>1. proposals \in Table
      BY <1>2 DEF Session, State
    <3>2. id \in Nat
      BY <3>1, TableType
    <3>3. State = [proposals |-> proposals, next_id |-> next_id]
      BY DEF State
    <3> QED BY <1>2, <3>2, <3>3 DEF Frame, FrameType
  <2> HIDE DEF f
  <2>4. MayRun(f.proposal, proposals')
    BY <1>1, <1>4, <2>1, <2>3, Zenon DEF MayRun, Expired
  <2>5. stack' = Append(stack, f) /\ Len(stack) < MaxNesting
    BY <1>1, <2>1, ProposalAssumption
  <2>6. StackOK'
    <3>1. /\ \A k \in DOMAIN stack : MayRun(stack[k].proposal, proposals')
          /\ \A k \in DOMAIN stack : f.proposal < stack[k].proposal
      BY <1>1
    <3>2. f.saved.proposals = proposals'
      BY <2>1, <2>3
    <3> QED BY <1>1, <1>2, <2>3, <2>4, <2>5, <3>1, <3>2, StackGrows, Zenon
  <2>7. SessionsOK'
    <3>1. DOMAIN stack' = {1} /\ stack'[1] = f
      BY <2>1
    <3>2. Sessions' \subseteq Sessions \cup {State'}
      BY <1>1, <2>2, <2>3, <3>1, Zenon DEF Sessions
    <3> QED BY <1>1, <1>2, <1>3, <2>2, <3>2, SessionsStep, Zenon
  <2>8. StackType'
    BY <1>1, <1>2, <2>1, <2>3 DEF StackType, FrameType, Session, Table, Proposal
  <2>9. IndexHasNoStrangers'
    BY <1>2, <2>1, Zenon DEF IndexHasNoStrangers
  <2> QED BY <2>6, <2>7, <2>8, <2>9, Zenon DEF ProposalInv
<1>5. CASE ~ is_authorized_to_execute(proposals[id])
  <2>1. Remove(id) /\ stack' = stack
    BY <1>5 DEF expire_proposal
  <2>2. Kept(State, State') /\ IndexOK(by_account', proposals')
    BY <1>1, <1>2, <2>1, RemoveKeeps, Zenon
  <2>3. SessionsOK'
    <3>1. Sessions' \subseteq Sessions \cup {State'}
      BY <1>1, <2>1, Zenon DEF Sessions
    <3> QED BY <1>1, <1>2, <1>3, <2>2, <3>1, SessionsStep, Zenon
  <2>4. StackOK'
    BY <1>1, <2>1, ProposalAssumption DEF StackOK, NoReentry
  <2>5. StackType'
    BY <1>1, <1>2, <2>1 DEF StackType, FrameType, Session, Table, Proposal
  <2>6. IndexHasNoStrangers'
    BY <2>2, Zenon DEF IndexOK, IndexHasNoStrangers
  <2> QED BY <2>3, <2>4, <2>5, <2>6, Zenon DEF ProposalInv
<1> QED BY <1>4, <1>5

(* A block begins when nothing runs and no session is open; the review     *)
(* periods that begin with it freeze the approvals as they are.            *)
LEMMA ApplyBlock ==
    ASSUME ProposalInv, apply_block, HNext
    PROVE  ProposalInv'
<1>1. /\ mode = "idle" /\ stack = <<>> /\ now \in Nat /\ now' = now + 1
      /\ mode' = "expire" /\ UNCHANGED <<proposals, next_id, by_account, stack>>
  BY DEF apply_block, ProposalInv, StackType
<1> DEFINE D == {j \in DOMAIN proposals : InReview(proposals[j])'}
<1>2. frozen' = [i \in D |-> IF i \in DOMAIN frozen THEN frozen[i]
                             ELSE Approvals(proposals[i])]
  <2>1. now' # now
    BY <1>1
  <2> QED BY <2>1, Zenon DEF HNext
<1>3. State' = State
  BY <1>1 DEF State
<1>4. /\ IndexHasNoStrangers /\ State \in Session /\ RefersBack(State) /\ Frozen(State)
      /\ State.proposals = proposals /\ State.next_id = next_id
      /\ DOMAIN proposals \subseteq Nat
  <2>1. State \in Session /\ RefersBack(State) /\ Frozen(State)
    BY CurrentSession, Zenon DEF ProposalInv, SessionsOK
  <2>2. State.proposals = proposals /\ State.next_id = next_id
    BY DEF State
  <2>3. proposals \in Table
    BY <2>1, <2>2 DEF Session
  <2> QED BY <2>1, <2>2, <2>3, TableType DEF ProposalInv
<1>5. \A s \in Sessions' : s = State
  BY <1>1, <1>3 DEF Sessions
<1>6. Frozen(State)'
  <2>1. \A i \in D : i < next_id
    BY <1>4, Zenon DEF RefersBack
  <2>2. ASSUME NEW i \in D
        PROVE  InReview(proposals[i])' /\ Approvals(proposals[i]) \subseteq frozen'[i]
    <3>1. CASE i \in DOMAIN frozen
      <4>1. frozen'[i] = frozen[i]
        BY <1>2, <3>1
      <4>2. i \in DOMAIN State.proposals \cap DOMAIN frozen
        BY <1>4, <3>1
      <4> QED BY <1>4, <4>1, <4>2, Zenon DEF Frozen
    <3>2. CASE i \notin DOMAIN frozen
      BY <1>2, <3>2
    <3> QED BY <3>1, <3>2
  <2>3. DOMAIN frozen' = D
    BY <1>2
  <2>4. (State.proposals)' = proposals' /\ (State.next_id)' = next_id'
    BY DEF State
  <2>5. \A i : Approvals(proposals[i])' = Approvals(proposals[i])
    BY <1>1 DEF Approvals
  <2> QED BY <1>1, <2>1, <2>2, <2>3, <2>4, <2>5 DEF Frozen
<1>7. SessionsOK'
  <2>1. \A s \in Sessions' : s = State'
    BY <1>3, <1>5, Zenon
  <2>2. RefersBack(State)' /\ SameOps(State, State)'
    BY <1>3, <1>4 DEF RefersBack, SameOps
  <2>3. State' \in Session'
    BY <1>3, <1>4 DEF Session, Table, Proposal
  <2> QED BY <1>1, <1>6, <2>1, <2>2, <2>3 DEF SessionsOK
<1>8. StackType'
  BY <1>1, <1>2, <1>4 DEF StackType, FrameType, Session, Table, Proposal
<1>9. StackOK'
  BY <1>1, ProposalAssumption DEF StackOK, NoReentry
<1>10. IndexHasNoStrangers'
  BY <1>1, <1>4, Zenon DEF IndexHasNoStrangers
<1> QED BY <1>7, <1>8, <1>9, <1>10, Zenon DEF ProposalInv
--------------------------------------------------------------------------------
(* Every step of the system, of push_transaction, push_proposal and        *)
(* clear_expired_proposals, keeps the invariant.                           *)
THEOREM ProposalInvariant == HSpec => []ProposalInv
<1>1. HInit => ProposalInv
  <2> SUFFICES ASSUME HInit PROVE ProposalInv
    OBVIOUS
  <2>1. /\ now = 0 /\ proposals = [i \in {} |-> 0] /\ next_id = 1 /\ by_account = {}
        /\ stack = <<>> /\ mode = "idle" /\ DOMAIN frozen = {}
    BY DEF HInit, Init
  <2>2. DOMAIN proposals = {} /\ proposals \in Table
    <3>1. DOMAIN proposals = {} /\ proposals \in [DOMAIN proposals -> Proposal]
      BY <2>1
    <3>2. DOMAIN proposals \subseteq Nat
      BY <3>1
    <3> QED BY <3>1, <3>2, TableType, Zenon
  <2>3. State \in Session /\ State.proposals = proposals /\ State.next_id = next_id
    BY <2>1, <2>2 DEF Session, State
  <2>4. \A s \in Sessions : s = State
    BY <2>1 DEF Sessions
  <2>5. RefersBack(State) /\ Frozen(State) /\ SameOps(State, State)
    BY <2>1, <2>2, <2>3 DEF RefersBack, Frozen, SameOps
  <2>6. SessionsOK
    BY <2>1, <2>3, <2>4, <2>5 DEF SessionsOK
  <2>7. StackType /\ StackOK /\ IndexHasNoStrangers
    BY <2>1, ProposalAssumption DEF StackType, StackOK, NoReentry, IndexHasNoStrangers
  <2> QED BY <2>6, <2>7 DEF ProposalInv
<1>2. ProposalInv /\ [HNext]_hvars => ProposalInv'
  <2> SUFFICES ASSUME ProposalInv, [HNext]_hvars PROVE ProposalInv'
    OBVIOUS
  <2>1. CASE UNCHANGED hvars
    <3>1. /\ UNCHANGED <<now, proposals, next_id, by_account, stack, frozen>>
          /\ mode' = mode /\ before' = before
      BY <2>1 DEF hvars, vars
    <3>2. mode \in {"idle", "tx", "expire"} /\ (mode = "idle" => stack = <<>>)
      BY DEF ProposalInv, StackType
    <3> QED BY <3>1, <3>2, QuietStep
  <2>2. CASE HNext /\ apply_block
    BY <2>2, ApplyBlock
  <2>3. ASSUME HNext, now' = now PROVE frozen' = frozen
    BY <2>3, Zenon DEF HNext
  <2>4. CASE HNext /\ Transaction
    <3>1. CASE start_transaction
      BY <2>3, <2>4, <3>1, StartTransaction DEF start_transaction
    <3>2. ASSUME NEW c \in Creations, proposal_create(c.ops, c.lifetime, c.review)
          PROVE  ProposalInv'
      <4>1. now' = now
        BY <3>2 DEF proposal_create
      <4> QED BY <2>3, <2>4, <3>2, <4>1, CreateProposal, Zenon
    <3>3. ASSUME NEW op \in Operations, apply_operation(op)
          PROVE  ProposalInv'
      BY <2>3, <2>4, <3>3, ApplyOperation DEF apply_operation
    <3>4. CASE abort_transaction
      BY <2>3, <2>4, <3>4, AbortTransaction DEF abort_transaction
    <3> QED BY <2>4, <3>1, <3>2, <3>3, <3>4, Zenon DEF Transaction
  <2>5. CASE HNext /\ Run
    <3>1. CASE run_operation
      BY <2>3, <2>5, <3>1, RunOperation DEF run_operation
    <3>2. CASE finish_proposal
      BY <2>3, <2>5, <3>2, FinishProposal DEF finish_proposal
    <3>3. CASE fail_proposal
      <4>1. now' = now
        BY <3>3 DEF fail_proposal
      <4> QED BY <2>3, <2>5, <3>3, <4>1, FailProposal, Zenon
    <3>4. CASE finish_transaction
      BY <2>3, <2>5, <3>4, FinishTransaction DEF finish_transaction
    <3>5. ASSUME NEW id \in DOMAIN proposals, expire_proposal(id)
          PROVE  ProposalInv'
      BY <2>3, <2>5, <3>5, ExpireProposal DEF expire_proposal
    <3>6. CASE finish_block
      BY <2>3, <2>5, <3>6, FinishBlock DEF finish_block
    <3> QED BY <2>5, <3>1, <3>2, <3>3, <3>4, <3>5, <3>6, Zenon DEF Run
  <2> QED BY <2>1, <2>2, <2>4, <2>5, Zenon DEF HNext, Next
<1> QED BY <1>1, <1>2, PTL DEF HSpec

(* push_proposal never works on a proposal that is gone, has lost its      *)
(* approval or waits for the end of its review period, however proposals   *)
(* change, run and undo each other.                                        *)
THEOREM RunningApproved == HSpec => []RunningProposalsAreApproved
<1>1. ProposalInv => RunningProposalsAreApproved
  BY Zenon DEF ProposalInv, StackOK, RunningProposalsAreApproved, MayRun, Expired
<1> QED BY <1>1, ProposalInvariant, PTL

(* No proposal runs inside itself, and push_proposal nests no deeper than  *)
(* its limit.                                                              *)
THEOREM NoReentryEver == HSpec => []NoReentry
<1>1. ProposalInv => NoReentry
  BY Zenon DEF ProposalInv, StackOK
<1> QED BY <1>1, ProposalInvariant, PTL

(* The review period of proposal_update_evaluator only takes approvals     *)
(* away, also when a transaction or a proposal that took one fails.        *)
THEOREM ReviewFreezes == HSpec => []ReviewFreezesApprovals
<1>1. ProposalInv => ReviewFreezesApprovals
  <2> SUFFICES ASSUME ProposalInv PROVE ReviewFreezesApprovals
    OBVIOUS
  <2>1. Frozen(State)
    BY CurrentSession, Zenon DEF ProposalInv, SessionsOK
  <2>2. State.proposals = proposals
    BY DEF State
  <2> QED BY <2>1, <2>2, Zenon DEF Frozen, ReviewFreezesApprovals
<1> QED BY <1>1, ProposalInvariant, PTL

(* required_approval_index has no entry without its proposal or its        *)
(* account, although undo() replays it from separate notifications.        *)
THEOREM NoStrangers == HSpec => []IndexHasNoStrangers
<1>1. ProposalInv => IndexHasNoStrangers
  BY Zenon DEF ProposalInv
<1> QED BY <1>1, ProposalInvariant, PTL
===============================================================================
