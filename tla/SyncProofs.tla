------------------------------ MODULE SyncProofs ------------------------------
(***************************************************************************)
(* Every sync block is asked for from one peer at a time: for any tree of  *)
(* blocks, any finite set of peers, whatever chains they have and get, any *)
(* limits, and any order in which fibers, replies and disconnections come. *)
(*                                                                         *)
(* Besides the property itself the invariant says that a closed connection *)
(* has no requests, so that a new one starts with none.  The lemmas come   *)
(* in this order: loops over a list; what fetch_sync_items_loop plans; the *)
(* steps that leave the requests alone; those that change them.            *)
(***************************************************************************)
EXTENDS SyncProperties, FiniteSetTheorems, WellFoundedInduction, TLAPS

(* A step that names no prover is tried with the SMT solver, with Zenon,   *)
(* and with the SMT solver once more.                                      *)
USE SMTT(20), Zenon, SMTT(30)

(* What holds at 0 and goes from each number to the next holds up to n.    *)
LEMMA Climbs ==
    ASSUME NEW n \in Nat, NEW M, 0 \in M, \A i \in 1..n : i - 1 \in M => i \in M
    PROVE  \A i \in 0..n : i \in M
<1> DEFINE R == OpToRel(<, Nat)
           N == (0..n) \ M
<1> SUFFICES ASSUME NEW x \in N PROVE FALSE
  BY Zenon
<1>1. IsWellFoundedOn(R, Nat)
  BY NatLessThanWellFounded, Zenon
<1>2. \A j, k \in Nat : j < k => <<j, k>> \in R
  <2> SUFFICES ASSUME NEW j \in Nat, NEW k \in Nat, j < k PROVE <<j, k>> \in R
    BY Zenon
  <2>1. <<j, k>> \in Nat \X Nat /\ <<j, k>>[1] < <<j, k>>[2]
    OBVIOUS
  <2> QED BY <2>1, Zenon DEF OpToRel
<1>3. N \subseteq Nat /\ N # {}
  OBVIOUS
<1> HIDE DEF R
<1>4. PICK k \in N : \A j \in N : ~ (<<j, k>> \in R)
  BY <1>1, <1>3, WFMin, Zenon
<1>5. k \in 1..n /\ k - 1 \in 0..n /\ k - 1 \in Nat /\ k \in Nat /\ k - 1 < k
  <2>1. k # 0 /\ k \in 0..n
    BY <1>4, Zenon
  <2> QED BY <2>1
<1>6. k - 1 \notin N
  BY <1>2, <1>4, <1>5, Zenon
<1> QED BY <1>4, <1>5, <1>6, Zenon

(* The values g that a loop over n items takes, each of which turns a      *)
(* member of S into another.                                               *)
LoopOver(n, S, base, step, g) ==
    /\ g \in [0..n -> S] /\ g[0] = base
    /\ \A i \in 1..n : g[i] = step[i][g[i - 1]]

(* There are such values.                                                  *)
LEMMA Loop ==
    ASSUME NEW n \in Nat, NEW S, NEW base \in S, NEW step \in [1..n -> [S -> S]]
    PROVE  \E g : LoopOver(n, S, base, step, g)
<1> DEFINE Solves(m, g) == /\ g \in [0..m -> S] /\ g[0] = base
                           /\ \A i \in 1..m : g[i] = step[i][g[i - 1]]
           M == {m \in 0..n : \E g : Solves(m, g)}
<1>1. 0 \in M
  <2>1. Solves(0, [i \in 0..0 |-> base])
    OBVIOUS
  <2>2. 0 \in 0..n
    OBVIOUS
  <2> HIDE DEF Solves
  <2> QED BY <2>1, <2>2, Zenon
<1>2. ASSUME NEW m \in 1..n, m - 1 \in M PROVE m \in M
  <2>1. PICK g : Solves(m - 1, g)
    BY <1>2, Zenon
  <2> DEFINE h == [i \in 0..m |-> IF i = m THEN step[m][g[m - 1]] ELSE g[i]]
  <2>2. g[m - 1] \in S /\ step[m][g[m - 1]] \in S
    BY <2>1
  <2>3. h \in [0..m -> S] /\ h[0] = base
    BY <2>1, <2>2
  <2>4. ASSUME NEW i \in 1..m PROVE h[i] = step[i][h[i - 1]]
    <3>1. CASE i = m
      BY <3>1
    <3>2. CASE i # m
      BY <3>2, <2>1
    <3> QED BY <3>1, <3>2, Zenon
  <2> HIDE DEF h
  <2>5. Solves(m, h) /\ m \in 0..n
    BY <2>3, <2>4
  <2> HIDE DEF Solves
  <2> QED BY <2>5, Zenon
<1> HIDE DEF Solves
<1>3. \A i \in 0..n : i \in M
  <2> HIDE DEF M
  <2> QED BY <1>1, <1>2, Climbs, Zenon
<1>4. n \in 0..n
  OBVIOUS
<1>5. \E g : Solves(n, g)
  BY <1>3, <1>4, Zenon
<1> QED BY <1>5, Zenon DEF Solves, LoopOver

(* The values of a loop stay in S.                                         *)
LEMMA LoopStays ==
    ASSUME NEW n \in Nat, NEW S, NEW g, g[0] \in S,
           \A i \in 1..n : g[i - 1] \in S => g[i] \in S
    PROVE  \A i \in 0..n : g[i] \in S
<1> DEFINE M == {i \in 0..n : g[i] \in S}
<1>1. 0 \in M /\ \A i \in 1..n : i - 1 \in M => i \in M
  OBVIOUS
<1> HIDE DEF M
<1>2. \A i \in 0..n : i \in M
  BY <1>1, Climbs, Zenon
<1> QED BY <1>2, Zenon DEF M

-------------------------------------------------------------------------------
(* The requests planned for some of the peers: for blocks that have not    *)
(* been received or asked for, and no block from two peers.                *)
Planned(plan, who) ==
    /\ \A p \in Peer \ who : plan[p] = {}
    /\ \A p \in Peer : plan[p] \cap (received \cup active_sync_requests) = {}
    /\ \A p, q \in Peer : p # q => plan[p] \cap plan[q] = {}

(* One iteration of fetch_sync_items_loop plans such requests.             *)
LEMMA PlanFact ==
    ASSUME NEW who \in SUBSET Peer, NEW order \in Seq(who)
    PROVE  Planned(Plan(order), who)
<1> DEFINE n == Len(order)
           Listed == UNION {{peer[p].to_get[k] : k \in DOMAIN peer[p].to_get} : p \in Peer}
           S == {f \in [Peer -> SUBSET Listed] : Planned(f, who)}
           given(f) == (UNION {f[q] : q \in Peer}) \cup received \cup active_sync_requests
           open(f, i) == FirstOpen(peer[order[i]].to_get,
                                   (UNION {f[q] : q \in Peer}) \cup received \cup active_sync_requests)
           Ask(f, i) == [f EXCEPT ![order[i]] = open(f, i)]
           none == [p \in Peer |-> {}]
           Body(f) == [i \in 0 .. Len(order) |-> IF i = 0 THEN none ELSE Ask(f[i-1], i)]
           plan == CHOOSE f : f = Body(f)
           step == [i \in 1..n |-> [f \in S |-> Ask(f, i)]]
<1>1. n \in Nat /\ \A i \in 1..n : order[i] \in who /\ order[i] \in Peer
  OBVIOUS
<1>2. none \in S
  <2>1. none \in [Peer -> SUBSET Listed] /\ \A p \in Peer : none[p] = {}
    <3> HIDE DEF Listed
    <3> QED BY Zenon
  <2> HIDE DEF none, Listed
  <2> QED BY <2>1, Zenon DEF Planned
<1>3. ASSUME NEW f \in S, NEW i \in 1..n PROVE Ask(f, i) \in S
  <2> DEFINE x == order[i]
             o == open(f, i)
             g == Ask(f, i)
  <2>1. x \in Peer /\ x \in who /\ f \in [Peer -> SUBSET Listed] /\ Planned(f, who)
    <3> HIDE DEF Listed
    <3> QED BY <1>1, Zenon
  <2>2. o \in SUBSET Listed /\ o \cap given(f) = {}
    <3>1. ASSUME NEW b \in o PROVE b \in Listed /\ b \notin given(f)
      <4>1. PICK k \in DOMAIN peer[x].to_get : peer[x].to_get[k] = b /\ peer[x].to_get[k] \notin given(f)
        BY Zenon DEF FirstOpen
      <4>2. b \in Listed
        <5> DEFINE L(p) == {peer[p].to_get[j] : j \in DOMAIN peer[p].to_get}
        <5>1. b \in L(x)
          BY <4>1, Zenon
        <5> HIDE DEF x, o
        <5>2. Listed = UNION {L(p) : p \in Peer}
          BY Zenon
        <5> HIDE DEF L, Listed
        <5> QED BY <2>1, <5>1, <5>2, Zenon
      <4> QED BY <4>1, <4>2, Zenon
    <3> HIDE DEF o, Listed, given
    <3> QED BY <3>1, Zenon
  <2>3. /\ o \cap (received \cup active_sync_requests) = {}
        /\ \A q \in Peer : o \cap f[q] = {}
    <3>1. \A q \in Peer : f[q] \subseteq given(f)
      <4> SUFFICES ASSUME NEW q \in Peer, NEW b \in f[q] PROVE b \in given(f)
        BY Zenon
      <4> HIDE DEF S, Listed, o, x, g
      <4>1. f[q] \in {f[r] : r \in Peer}
        BY Zenon
      <4>2. b \in UNION {f[r] : r \in Peer}
        BY <4>1, Zenon
      <4> QED BY <4>2, Zenon
    <3>2. received \cup active_sync_requests \subseteq given(f)
      BY Zenon
    <3> HIDE DEF given, o
    <3> QED BY <2>2, <3>1, <3>2, Zenon
  <2>4. g \in [Peer -> SUBSET Listed] /\ \A p \in Peer : g[p] = IF p = x THEN o ELSE f[p]
    <3> HIDE DEF open, S, Listed
    <3> QED BY <2>1, <2>2
  <2> HIDE DEF g, o, x, S, Listed
  <2>5. \A p \in Peer \ who : g[p] = {}
    BY <2>1, <2>4, Zenon DEF Planned
  <2>6. ASSUME NEW p \in Peer PROVE g[p] \cap (received \cup active_sync_requests) = {}
    BY <2>1, <2>3, <2>4, Zenon DEF Planned
  <2>7. ASSUME NEW p \in Peer, NEW q \in Peer, p # q
        PROVE  g[p] \cap g[q] = {}
    <3>1. CASE p = x
      <4>1. g[p] = o /\ g[q] = f[q]
        BY <2>4, <2>7, <3>1, Zenon
      <4> QED BY <4>1, <2>3, Zenon
    <3>2. CASE q = x
      <4>1. g[q] = o /\ g[p] = f[p]
        BY <2>4, <2>7, <3>2, Zenon
      <4> QED BY <4>1, <2>3, Zenon
    <3>3. CASE p # x /\ q # x
      <4>1. g[q] = f[q] /\ g[p] = f[p]
        BY <2>4, <3>3, Zenon
      <4> QED BY <4>1, <2>1, <2>7, Zenon DEF Planned
    <3> QED BY <3>1, <3>2, <3>3, Zenon
  <2>8. Planned(g, who)
    BY <2>5, <2>6, <2>7, Zenon DEF Planned
  <2> QED BY <2>4, <2>8, Zenon DEF g, S
<1> HIDE DEF open, Listed
<1>4. \E f : f = Body(f)
  <2>1. step \in [1..n -> [S -> S]]
    <3> HIDE DEF Ask, S, n
    <3> QED BY <1>3, Zenon
  <2>2. PICK g : LoopOver(n, S, none, step, g)
    <3> HIDE DEF step, S, n, none
    <3> QED BY <1>1, <1>2, <2>1, Loop, Zenon
  <2>3. g \in [0..n -> S] /\ g[0] = none /\ \A i \in 1..n : g[i] = step[i][g[i - 1]]
    <3> HIDE DEF step, S, n, none
    <3> QED BY <2>2, Zenon DEF LoopOver
  <2>4. ASSUME NEW i \in 1..n PROVE g[i] = Ask(g[i - 1], i)
    <3>1. i - 1 \in 0..n
      BY <1>1
    <3>2. g[i - 1] \in S /\ g[i] = step[i][g[i - 1]]
      <4> HIDE DEF step, S, n, none
      <4> QED BY <2>3, <3>1, Zenon
    <3> HIDE DEF Ask, S, n
    <3> QED BY <3>2, Zenon
  <2>5. ASSUME NEW i \in 0..n PROVE g[i] = IF i = 0 THEN none ELSE Ask(g[i - 1], i)
    <3>1. i # 0 => i \in 1..n
      BY <1>1
    <3> HIDE DEF Ask, n, S, none
    <3> QED BY <2>3, <2>4, <3>1, Zenon
  <2>6. g = [i \in 0..n |-> g[i]]
    <3> HIDE DEF S, n, step, none
    <3> QED BY <2>3
  <2> HIDE DEF Ask, none
  <2> QED BY <2>5, <2>6, Zenon
<1>5. plan = Body(plan)
  <2> HIDE DEF Body
  <2> QED BY <1>4, Zenon
<1>6. plan[0] = none /\ \A i \in 1..n : plan[i] = Ask(plan[i - 1], i)
  <2>1. 0 \in 0..n /\ \A i \in 1..n : i \in 0..n /\ i # 0
    BY <1>1
  <2> HIDE DEF plan, n, Ask, none
  <2> QED BY <1>5, <2>1, Zenon DEF n
<1>7. plan[n] \in S
  <2>1. n \in 0..n
    BY <1>1
  <2> HIDE DEF plan, n, S, Ask, none
  <2>2. \A i \in 0..n : plan[i] \in S
    BY <1>1, <1>2, <1>3, <1>6, LoopStays, Zenon
  <2> QED BY <2>1, <2>2, Zenon
<1>8. Plan(order) = plan[n]
  BY Zenon DEF Plan, open
<1> HIDE DEF plan, n
<1> QED BY <1>7, <1>8, Zenon

-------------------------------------------------------------------------------
(* The inductive invariant.                                                *)
PeerInv == DOMAIN peer = Peer /\ \A p \in Peer : "wanted" \in DOMAIN peer[p]

(* A connection that is closed has no requests.                            *)
ConnInv == DOMAIN conn = Peer /\ \A p \in Peer : conn[p] = "off" => peer[p].wanted = {}

RequestInv == PeerInv /\ ConnInv /\ OneRequestPerBlock

(* Record s has the same requests as r.                                    *)
Same(r, s) == "wanted" \in DOMAIN s /\ s.wanted = r.wanted

(* And so do all records.                                                  *)
Like(recs) == DOMAIN recs = Peer /\ \A q \in Peer : Same(peer[q], recs[q])

-------------------------------------------------------------------------------
(* Steps that leave the requests alone.                                    *)

(* The other fields of a record have no bearing on them.                   *)
LEMMA SameFact ==
    ASSUME NEW r, "wanted" \in DOMAIN r, NEW x, NEW y
    PROVE  /\ Same(r, r)
           /\ Same(r, [r EXCEPT !.asked = x])
           /\ Same(r, [r EXCEPT !.we_need = x])
           /\ Same(r, [r EXCEPT !.unfetched = x])
           /\ Same(r, [r EXCEPT !.seen = x])
           /\ Same(r, [r EXCEPT !.peer_needs = x])
           /\ Same(r, [r EXCEPT !.processing = x])
           /\ Same(r, [r EXCEPT !.to_get = x])
           /\ Same(r, [r EXCEPT !.to_get = x, !.seen = y])
           /\ Same(r, [r EXCEPT !.to_get = x, !.processing = y])
           /\ Same(r, [r EXCEPT !.seen = x, !.processing = y])
           /\ Same(r, Restarted(r))
BY DEF Same, Restarted

(* It does not matter through how many records they go.                    *)
LEMMA SameTrans ==
    ASSUME NEW r, NEW s, NEW t, Same(r, s), Same(s, t)
    PROVE  Same(r, t)
BY Zenon DEF Same

(* Records that are not changed, or one of which is replaced.              *)
LEMMA LikeFact ==
    ASSUME PeerInv
    PROVE  /\ Like(peer)
           /\ \A recs, p, rec : Like(recs) /\ (p \in Peer => Same(peer[p], rec))
                                => Like([recs EXCEPT ![p] = rec])
<1>1. Like(peer)
  <2>1. \A q \in Peer : Same(peer[q], peer[q])
    BY SameFact, Zenon DEF PeerInv
  <2> QED BY <2>1, Zenon DEF Like, PeerInv
<1>2. ASSUME NEW recs, NEW p, NEW rec, Like(recs), p \in Peer => Same(peer[p], rec)
      PROVE  Like([recs EXCEPT ![p] = rec])
  <2> DEFINE new == [recs EXCEPT ![p] = rec]
  <2>1. DOMAIN recs = Peer /\ \A q \in Peer : Same(peer[q], recs[q])
    BY <1>2, Zenon DEF Like
  <2>2. DOMAIN new = Peer /\ \A q \in Peer : new[q] = IF q = p THEN rec ELSE recs[q]
    BY <2>1
  <2> HIDE DEF new
  <2>3. Like(new)
    BY <1>2, <2>1, <2>2, Zenon DEF Like
  <2> QED BY <2>3, Zenon DEF new
<1> QED BY <1>1, <1>2, Zenon

(* A step that makes no requests, and closes no connection, is harmless.   *)
LEMMA QuietStep ==
    ASSUME RequestInv, Like(peer'), DOMAIN conn' = Peer,
           \A p \in Peer : conn'[p] = "off" => conn[p] = "off",
           active_sync_requests' = active_sync_requests, received' \subseteq received
    PROVE  RequestInv'
<1>1. PeerInv'
  BY Zenon DEF Like, Same, PeerInv
<1>2. \A p \in Peer : peer'[p].wanted = peer[p].wanted
  BY Zenon DEF Like, Same
<1>3. ConnInv'
  BY <1>2, Zenon DEF ConnInv, RequestInv
<1>4. UNION {peer'[p].wanted : p \in Peer} = UNION {peer[p].wanted : p \in Peer}
  BY <1>2
<1>5. OneRequestPerBlock'
  <2>1. active_sync_requests' = UNION {peer'[p].wanted : p \in Peer}
    BY <1>4, Zenon DEF RequestInv, OneRequestPerBlock
  <2>2. \A p, q \in Peer : p # q => peer'[p].wanted \cap peer'[q].wanted = {}
    BY <1>2, Zenon DEF RequestInv, OneRequestPerBlock
  <2>3. received' \cap active_sync_requests' = {}
    BY Zenon DEF RequestInv, OneRequestPerBlock
  <2> QED BY <2>1, <2>2, <2>3, Zenon DEF OneRequestPerBlock
<1> QED BY <1>1, <1>3, <1>5, Zenon DEF RequestInv

(* disconnect_from_peer closes none: the peer is only marked.              *)
LEMMA Marked ==
    ASSUME ConnInv, \/ \E S : disconnect(S)
                    \/ UNCHANGED conn
                    \/ \E p \in Peer : conn' = Closing({p})
                    \/ \E p \in Peer : conn' = [conn EXCEPT ![p] = "closing"]
    PROVE  DOMAIN conn' = Peer /\ \A p \in Peer : conn'[p] = "off" => conn[p] = "off"
<1>1. ASSUME NEW S, conn' = Closing(S)
      PROVE  DOMAIN conn' = Peer /\ \A p \in Peer : conn'[p] = "off" => conn[p] = "off"
  BY <1>1 DEF Closing
<1>2. ASSUME NEW p \in Peer, conn' = [conn EXCEPT ![p] = "closing"]
      PROVE  DOMAIN conn' = Peer /\ \A q \in Peer : conn'[q] = "off" => conn[q] = "off"
  BY <1>2 DEF ConnInv
<1>3. UNCHANGED conn => DOMAIN conn' = Peer /\ \A p \in Peer : conn'[p] = "off" => conn[p] = "off"
  BY Zenon DEF ConnInv
<1> QED BY <1>1, <1>2, <1>3, Zenon DEF disconnect

(* AppendIds makes no requests.                                            *)
LEMMA AppendFact ==
    ASSUME PeerInv, NEW p \in Peer, NEW rec, Same(peer[p], rec),
           NEW items, NEW remaining, AppendIds(p, rec, items, remaining)
    PROVE  Like(peer')
<1> DEFINE new == [rec EXCEPT !.to_get = @ \o items]
<1>1. peer' = [peer EXCEPT ![p] = new]
  BY Zenon DEF AppendIds, Put
<1>2. Same(peer[p], new)
  <2>1. Same(rec, new)
    BY SameFact, Zenon DEF Same
  <2> HIDE DEF new
  <2> QED BY <2>1, SameTrans, Zenon
<1> HIDE DEF new
<1> QED BY <1>1, <1>2, LikeFact, Zenon

(* Nor does TakeIds, whether it splices lists or waits for the delegate.   *)
LEMMA TakeFact ==
    ASSUME PeerInv, NEW p \in Peer, NEW rec, Same(peer[p], rec),
           NEW items, NEW remaining, TakeIds(p, rec, items, remaining)
    PROVE  Like(peer')
<1> DEFINE new == [rec EXCEPT !.unfetched = remaining]
<1>1. Same(peer[p], new) /\ "wanted" \in DOMAIN new
  <2>1. Same(rec, new)
    BY SameFact, Zenon DEF Same
  <2> HIDE DEF new
  <2> QED BY <2>1, SameTrans, Zenon DEF Same
<1>2. CASE items = <<>>
  <2>1. AppendIds(p, new, items, remaining)
    BY <1>2, Zenon DEF TakeIds
  <2> HIDE DEF new
  <2> QED BY <2>1, <1>1, AppendFact, Zenon
<1>3. CASE items # <<>> /\ new.to_get # <<>>
  <2>1. Splice(p, new, items, remaining)
    BY <1>3, Zenon DEF TakeIds
  <2> HIDE DEF new
  <2>2. \E s, x, t : \/ AppendIds(p, [new EXCEPT !.to_get = s, !.seen = x], t, remaining)
                     \/ AppendIds(p, [new EXCEPT !.to_get = s], t, remaining)
    BY <2>1, Zenon DEF Splice
  <2>3. PICK s, x, t : \/ AppendIds(p, [new EXCEPT !.to_get = s, !.seen = x], t, remaining)
                       \/ AppendIds(p, [new EXCEPT !.to_get = s], t, remaining)
    BY <2>2, Zenon
  <2>4. Same(new, [new EXCEPT !.to_get = s, !.seen = x]) /\ Same(new, [new EXCEPT !.to_get = s])
    BY <1>1, SameFact, Zenon
  <2>5. /\ Same(peer[p], [new EXCEPT !.to_get = s, !.seen = x])
        /\ Same(peer[p], [new EXCEPT !.to_get = s])
    BY <1>1, <2>4, SameTrans, Zenon
  <2> QED BY <2>3, <2>5, AppendFact, Zenon
<1>4. CASE items # <<>> /\ new.to_get = <<>>
  <2>1. AppendIds(p, new, items, remaining) \/ Put(p, new)
    BY <1>4, Zenon DEF TakeIds
  <2> HIDE DEF new
  <2>2. CASE AppendIds(p, new, items, remaining)
    BY <2>2, <1>1, AppendFact, Zenon
  <2>3. CASE Put(p, new)
    BY <2>3, <1>1, LikeFact, Zenon DEF Put
  <2> QED BY <2>1, <2>2, <2>3, Zenon
<1> QED BY <1>2, <1>3, <1>4, Zenon

(* Nor do the calls a task has saved for its end.                          *)
LEMMA TaskFact ==
    ASSUME PeerInv, NEW ts, NEW i, NEW recs, NEW waiting, Like(recs),
           TaskGoesOn(ts, i, recs, waiting)
    PROVE  Like(peer')
<1>1. \/ \E p : peer' = [recs EXCEPT ![p] = recs[p]]
      \/ \E p : peer' = [recs EXCEPT ![p] = Restarted(recs[p])]
      \/ peer' = recs
  BY Zenon DEF TaskGoesOn, TaskCalls, TaskEnds
<1>2. \A p \in Peer : Same(peer[p], recs[p]) /\ "wanted" \in DOMAIN recs[p]
  BY Zenon DEF Like, Same
<1>3. \A p \in Peer : Same(recs[p], Restarted(recs[p]))
  BY <1>2, SameFact, Zenon
<1>4. \A p \in Peer : Same(peer[p], Restarted(recs[p]))
  BY <1>2, <1>3, SameTrans, Zenon
<1>5. ASSUME NEW p, peer' = [recs EXCEPT ![p] = recs[p]] PROVE Like(peer')
  <2>1. p \in Peer => Same(peer[p], recs[p])
    BY <1>2, Zenon
  <2>2. Like([recs EXCEPT ![p] = recs[p]])
    BY <2>1, LikeFact, Zenon
  <2> QED BY <2>2, <1>5, Zenon
<1>6. ASSUME NEW p, peer' = [recs EXCEPT ![p] = Restarted(recs[p])] PROVE Like(peer')
  <2>1. p \in Peer => Same(peer[p], Restarted(recs[p]))
    BY <1>4, Zenon
  <2>2. Like([recs EXCEPT ![p] = Restarted(recs[p])])
    BY <2>1, LikeFact, Zenon
  <2> QED BY <2>2, <1>6, Zenon
<1>7. peer' = recs => Like(peer')
  BY Zenon
<1> QED BY <1>1, <1>5, <1>6, <1>7, Zenon

-------------------------------------------------------------------------------
(* The steps that make no requests.                                        *)

(* What they have in common.                                               *)
Quiet ==
    /\ Like(peer')
    /\ DOMAIN conn' = Peer
    /\ \A p \in Peer : conn'[p] = "off" => conn[p] = "off"
    /\ UNCHANGED pool

(* A handler that only changes other fields of the peer's record.          *)
LEMMA PutFact ==
    ASSUME PeerInv, NEW p \in Peer, NEW rec, Same(peer[p], rec), Put(p, rec)
    PROVE  Like(peer')
BY LikeFact, Zenon DEF Put

(* The records of several peers change.                                    *)
LEMMA EachFact ==
    ASSUME NEW new(_), \A p \in Peer : Same(peer[p], new(p)),
           peer' = [p \in Peer |-> new(p)]
    PROVE  Like(peer')
BY Zenon DEF Like

(* A list of ids arrives.                                                  *)
LEMMA ListQuiet ==
    ASSUME PeerInv, ConnInv, NEW p \in Peer, on_blockchain_item_ids_inventory_message(p)
    PROVE  Quiet
<1> DEFINE rec == [peer[p] EXCEPT !.asked = NoRequest]
           end == [rec EXCEPT !.we_need = FALSE]
<1>1. "wanted" \in DOMAIN peer[p]
  BY Zenon DEF PeerInv
<1>2. Same(peer[p], rec) /\ "wanted" \in DOMAIN rec
  BY <1>1, SameFact, Zenon DEF Same
<1>3. Same(peer[p], end)
  <2> HIDE DEF rec
  <2>1. Same(rec, end)
    BY <1>2, SameFact, Zenon
  <2> HIDE DEF end
  <2> QED BY <1>2, <2>1, SameTrans, Zenon
<1>4. \/ UNCHANGED peer \/ Put(p, rec) \/ Put(p, end)
      \/ \E items, remaining : TakeIds(p, rec, items, remaining)
  BY Zenon DEF on_blockchain_item_ids_inventory_message, InSync
<1>5. (UNCHANGED conn \/ disconnect({p})) /\ UNCHANGED pool
  BY Zenon DEF on_blockchain_item_ids_inventory_message, links
<1> HIDE DEF rec, end
<1>6. Like(peer')
  <2>1. CASE UNCHANGED peer
    BY <2>1, LikeFact, Zenon
  <2>2. CASE Put(p, rec)
    BY <2>2, <1>2, PutFact, Zenon
  <2>3. CASE Put(p, end)
    BY <2>3, <1>3, PutFact, Zenon
  <2>4. CASE \E items, remaining : TakeIds(p, rec, items, remaining)
    BY <2>4, <1>2, TakeFact, Zenon
  <2> QED BY <1>4, <2>1, <2>2, <2>3, <2>4, Zenon
<1> QED BY <1>5, <1>6, Marked, Zenon DEF Quiet

(* The delegate answers has_item.                                          *)
LEMMA HasItemQuiet ==
    ASSUME PeerInv, ConnInv, NEW p \in Peer, LastIdIsKnown(p) \/ FlushKnownId(p)
    PROVE  Quiet
<1> DEFINE r == peer[p]
           end == [r EXCEPT !.we_need = FALSE]
           flushed == [r EXCEPT !.seen = fiber[p].items[1]]
<1>1. /\ Same(r, r) /\ Same(r, end) /\ Same(r, flushed)
  BY SameFact, Zenon DEF PeerInv
<1>2. \/ Put(p, end) \/ Put(p, flushed)
      \/ \E items, remaining : \/ TakeIds(p, r, items, remaining)
                               \/ AppendIds(p, r, items, remaining)
                               \/ AppendIds(p, flushed, items, remaining)
  BY Zenon DEF LastIdIsKnown, FlushKnownId, InSync
<1>3. UNCHANGED conn /\ UNCHANGED pool
  BY Zenon DEF LastIdIsKnown, FlushKnownId, links
<1> HIDE DEF end, flushed
<1>4. Like(peer')
  <2>1. CASE Put(p, end)
    BY <2>1, <1>1, PutFact, Zenon
  <2>2. CASE Put(p, flushed)
    BY <2>2, <1>1, PutFact, Zenon
  <2>3. ASSUME NEW items, NEW remaining, TakeIds(p, r, items, remaining) PROVE Like(peer')
    BY <2>3, <1>1, TakeFact, Zenon
  <2>4. ASSUME NEW items, NEW remaining, AppendIds(p, r, items, remaining) PROVE Like(peer')
    BY <2>4, <1>1, AppendFact, Zenon
  <2>5. ASSUME NEW items, NEW remaining, AppendIds(p, flushed, items, remaining)
        PROVE  Like(peer')
    BY <2>5, <1>1, AppendFact, Zenon
  <2> QED BY <1>2, <2>1, <2>2, <2>3, <2>4, <2>5, Zenon
<1> QED BY <1>3, <1>4, Marked, Zenon DEF Quiet

(* The delegate answers get_blockchain_synopsis to a message loop.         *)
LEMMA SynopsisQuiet ==
    ASSUME PeerInv, ConnInv, NEW p \in Peer, SynopsisReturns(p)
    PROVE  Quiet
<1> DEFINE asking(x) == [peer[p] EXCEPT !.asked = x]
<1>1. UNCHANGED peer \/ \E x : peer' = [peer EXCEPT ![p].asked = x]
  BY Zenon DEF SynopsisReturns
<1>2. (UNCHANGED conn \/ disconnect({p})) /\ UNCHANGED pool
  BY Zenon DEF SynopsisReturns, links
<1>3. ASSUME NEW x, peer' = [peer EXCEPT ![p].asked = x] PROVE Like(peer')
  <2>1. Same(peer[p], asking(x))
    BY SameFact, Zenon DEF PeerInv
  <2>2. peer' = [peer EXCEPT ![p] = asking(x)]
    BY <1>3
  <2> HIDE DEF asking
  <2> QED BY <2>1, <2>2, LikeFact, Zenon
<1>4. Like(peer')
  BY <1>1, <1>3, LikeFact, Zenon
<1> QED BY <1>2, <1>4, Marked, Zenon DEF Quiet

(* A peer asks for ids, or fetches a block.                                *)
LEMMA ServeQuiet ==
    ASSUME PeerInv, ConnInv, NEW p \in Peer,
           \/ on_fetch_blockchain_item_ids_message(p)
           \/ \E b \in Block : on_fetch_items_message(p, b)
    PROVE  Quiet
<1>1. "wanted" \in DOMAIN peer[p]
  BY Zenon DEF PeerInv
<1>2. CASE on_fetch_blockchain_item_ids_message(p)
  <2> DEFINE needs(x) == [peer[p] EXCEPT !.peer_needs = x]
  <2>1. \E x : Put(p, needs(x)) \/ Put(p, Restarted(needs(x)))
    BY <1>2, Zenon DEF on_fetch_blockchain_item_ids_message
  <2>2. PICK x : Put(p, needs(x)) \/ Put(p, Restarted(needs(x)))
    BY <2>1, Zenon
  <2>3. Same(peer[p], needs(x)) /\ "wanted" \in DOMAIN needs(x)
    BY <1>1, SameFact, Zenon DEF Same
  <2> HIDE DEF needs
  <2>4. Same(peer[p], Restarted(needs(x)))
    BY <2>3, SameFact, SameTrans, Zenon
  <2>5. Like(peer')
    BY <2>2, <2>3, <2>4, PutFact, Zenon
  <2>6. (UNCHANGED conn \/ disconnect({p})) /\ UNCHANGED pool
    BY <1>2, Zenon DEF on_fetch_blockchain_item_ids_message, links
  <2> QED BY <2>5, <2>6, Marked, Zenon DEF Quiet
<1>3. ASSUME NEW b \in Block, on_fetch_items_message(p, b) PROVE Quiet
  <2>1. Put(p, [peer[p] EXCEPT !.seen = b]) /\ UNCHANGED conn /\ UNCHANGED pool
    BY <1>3, Zenon DEF on_fetch_items_message, links
  <2>2. Same(peer[p], [peer[p] EXCEPT !.seen = b])
    BY <1>1, SameFact, Zenon
  <2>3. Like(peer')
    BY <2>1, <2>2, PutFact, Zenon
  <2> QED BY <2>1, <2>3, Marked, Zenon DEF Quiet
<1> QED BY <1>2, <1>3, Zenon

(* The fiber of a sync block makes its calls and ends.                     *)
LEMMA TaskQuiet ==
    ASSUME PeerInv, ConnInv, NEW i,
           SyncBlockAccepted(i) \/ SyncBlockRejected(i) \/ TaskReturns(i)
    PROVE  Quiet
<1>1. CASE SyncBlockAccepted(i)
  <2> DEFINE b == tasks[i].block
             had == {p \in Active : b \in peer[p].processing}
             new(p) == IF p \notin had THEN peer[p]
                       ELSE [peer[p] EXCEPT !.seen = b, !.processing = @ \ {b}]
             recs == [p \in Peer |-> new(p)]
  <2>1. \E ts : TaskGoesOn(ts, i, recs, calls)
    BY <1>1, Zenon DEF SyncBlockAccepted
  <2>2. ASSUME NEW p \in Peer PROVE Same(peer[p], new(p))
    <3>1. /\ Same(peer[p], peer[p])
          /\ Same(peer[p], [peer[p] EXCEPT !.seen = b, !.processing = @ \ {b}])
      BY SameFact, Zenon DEF PeerInv
    <3> HIDE DEF had, b
    <3> QED BY <3>1, Zenon
  <2> HIDE DEF new
  <2>3. Like(recs)
    BY <2>2, Zenon DEF Like
  <2> HIDE DEF recs
  <2>4. Like(peer')
    BY <2>1, <2>3, TaskFact, Zenon
  <2>5. UNCHANGED conn /\ UNCHANGED pool
    BY <1>1, Zenon DEF SyncBlockAccepted, links
  <2> QED BY <2>4, <2>5, Marked, Zenon DEF Quiet
<1>2. CASE SyncBlockRejected(i)
  <2>1. peer' = peer /\ (\E S : disconnect(S)) /\ UNCHANGED pool
    BY <1>2, Zenon DEF SyncBlockRejected, TaskEnds
  <2> QED BY <2>1, LikeFact, Marked, Zenon DEF Quiet
<1>3. CASE TaskReturns(i)
  <2> DEFINE q == tasks[i].call[1]
  <2>1. \/ UNCHANGED peer
        \/ TaskGoesOn(tasks, i, peer, Tail(calls))
        \/ \E x : TaskGoesOn(tasks, i, [peer EXCEPT ![q].asked = x], Tail(calls))
    BY <1>3, Zenon DEF TaskReturns
  <2>2. (UNCHANGED conn \/ \E S : disconnect(S)) /\ UNCHANGED pool
    BY <1>3, Zenon DEF TaskReturns, links
  <2>3. ASSUME NEW x, TaskGoesOn(tasks, i, [peer EXCEPT ![q].asked = x], Tail(calls))
        PROVE  Like(peer')
    <3> DEFINE asking == [peer[q] EXCEPT !.asked = x]
    <3>1. q \in Peer => Same(peer[q], asking)
      BY SameFact, Zenon DEF PeerInv
    <3>2. [peer EXCEPT ![q].asked = x] = [peer EXCEPT ![q] = asking]
      OBVIOUS
    <3> HIDE DEF asking, q
    <3>3. Like([peer EXCEPT ![q] = asking])
      BY <3>1, LikeFact, Zenon
    <3>4. TaskGoesOn(tasks, i, [peer EXCEPT ![q] = asking], Tail(calls))
      BY <2>3, <3>2, Zenon
    <3> QED BY <3>3, <3>4, TaskFact, Zenon
  <2> HIDE DEF q
  <2>4. Like(peer')
    BY <2>1, <2>3, LikeFact, TaskFact, Zenon
  <2> QED BY <2>2, <2>4, Marked, Zenon DEF Quiet
<1> QED BY <1>1, <1>2, <1>3, Zenon

(* Blocks leave the lists they head.                                       *)
LEMMA PoppedFact ==
    ASSUME PeerInv, NEW b
    PROVE  /\ DOMAIN Popped(b) = Peer
           /\ \A p \in Peer : Same(peer[p], Popped(b)[p])
<1> DEFINE new(p) == IF p \notin Firsts(b) THEN peer[p]
                     ELSE [peer[p] EXCEPT !.to_get = Tail(@), !.processing = @ \cup {b}]
<1>1. ASSUME NEW p \in Peer PROVE Same(peer[p], new(p))
  <2>1. /\ Same(peer[p], peer[p])
        /\ Same(peer[p], [peer[p] EXCEPT !.to_get = Tail(@), !.processing = @ \cup {b}])
    BY SameFact, Zenon DEF PeerInv
  <2> QED BY <2>1, Zenon
<1>2. Popped(b) = [p \in Peer |-> new(p)]
  BY Zenon DEF Popped
<1> HIDE DEF new
<1> QED BY <1>1, <1>2, Zenon

(* The backlog skips a block that was accepted meanwhile.                  *)
LEMMA SkipQuiet ==
    ASSUME PeerInv, ConnInv, NEW b, BacklogSkips(b)
    PROVE  Quiet
<1> DEFINE popped == Popped(b)
           had == {p \in Active : b \in popped[p].processing}
           new(p) == IF p \notin had THEN popped[p]
                     ELSE [popped[p] EXCEPT !.processing = @ \ {b}]
           recs == [p \in Peer |-> new(p)]
<1>1. \E ts, i : TaskGoesOn(ts, i, recs, calls)
  BY Zenon DEF BacklogSkips
<1>2. UNCHANGED conn /\ UNCHANGED pool
  BY Zenon DEF BacklogSkips, links
<1> HIDE DEF popped
<1>3. \A p \in Peer : Same(peer[p], popped[p]) /\ "wanted" \in DOMAIN popped[p]
  BY PoppedFact, Zenon DEF Same, popped
<1>4. ASSUME NEW p \in Peer PROVE Same(peer[p], new(p))
  <2>1. Same(popped[p], [popped[p] EXCEPT !.processing = @ \ {b}])
    BY <1>3, SameFact, Zenon
  <2>2. Same(peer[p], [popped[p] EXCEPT !.processing = @ \ {b}])
    BY <1>3, <2>1, SameTrans, Zenon
  <2> HIDE DEF had
  <2> QED BY <1>3, <2>2, Zenon
<1> HIDE DEF new
<1>5. Like(recs)
  BY <1>4, Zenon DEF Like
<1> HIDE DEF recs
<1>6. Like(peer')
  BY <1>1, <1>5, TaskFact, Zenon
<1> QED BY <1>2, <1>6, Marked, Zenon DEF Quiet

(* The steps that do not touch the records at all.                         *)
LEMMA OtherQuiet ==
    ASSUME PeerInv, ConnInv,
           \/ \E p \in Peer : PeerListsIds(p) \/ PeerSendsBlocks(p)
           \/ \E p \in Peer, b \in Block : PeerLearns(p, b)
           \/ DelegatePushesSync \/ BacklogStarts \/ BacklogEnds
           \/ \E p \in Peer : kill_inactive_conns_loop(p) \/ ConnectionBreaks(p)
           \/ UNCHANGED sync_vars
    PROVE  Quiet
<1>1. UNCHANGED peer /\ UNCHANGED pool
  BY Zenon DEF PeerListsIds, PeerSendsBlocks, PeerLearns, DelegatePushesSync, BacklogStarts,
               BacklogEnds, kill_inactive_conns_loop, ConnectionBreaks, sync_vars
<1>2. \/ UNCHANGED conn
      \/ \E p \in Peer : conn' = Closing({p})
      \/ \E p \in Peer : conn' = [conn EXCEPT ![p] = "closing"]
  BY Zenon DEF PeerListsIds, PeerSendsBlocks, PeerLearns, DelegatePushesSync, BacklogStarts,
               BacklogEnds, kill_inactive_conns_loop, ConnectionBreaks, sync_vars, links
<1> QED BY <1>1, <1>2, LikeFact, Marked, Zenon DEF Quiet

(* All of them keep the invariant; so does handing over a received block.  *)
LEMMA QuietInv ==
    ASSUME RequestInv,
           \/ Quiet
           \/ \E b \in Block : BacklogHandsOver(b)
    PROVE  RequestInv'
<1>1. CASE Quiet
  <2>1. active_sync_requests' = active_sync_requests /\ received' = received
    BY <1>1, Zenon DEF Quiet, pool
  <2> QED BY <1>1, <2>1, QuietStep, Zenon DEF Quiet
<1>2. ASSUME NEW b \in Block, BacklogHandsOver(b) PROVE RequestInv'
  <2>1. /\ peer' = Popped(b) /\ received' \subseteq received /\ UNCHANGED conn
        /\ active_sync_requests' = active_sync_requests
    BY <1>2, Zenon DEF BacklogHandsOver, links
  <2>2. Like(peer')
    BY <2>1, PoppedFact, Zenon DEF Like, RequestInv
  <2>3. DOMAIN conn' = Peer /\ \A p \in Peer : conn'[p] = "off" => conn[p] = "off"
    BY <2>1, Marked, Zenon DEF RequestInv
  <2> QED BY <2>1, <2>2, <2>3, QuietStep, Zenon
<1> QED BY <1>1, <1>2, Zenon

-------------------------------------------------------------------------------
(* The steps that change the requests.                                     *)

(* The sequences of SetToSeqs are sequences of the set.                    *)
LEMMA OrderFact ==
    ASSUME NEW S \in SUBSET Peer, NEW order \in SetToSeqs(S)
    PROVE  order \in Seq(S)
<1>1. IsFiniteSet(S)
  BY PeerAssumption, FS_Subset, Zenon
<1>2. Cardinality(S) \in Nat
  BY <1>1, FS_CardinalityType, Zenon
<1>3. order \in [1..Cardinality(S) -> S]
  BY Zenon DEF SetToSeqs
<1> QED BY <1>2, <1>3

(* The requests of some peers grow by what one iteration of the loop       *)
(* plans for them.                                                         *)
LEMMA LoopStep ==
    ASSUME RequestInv, fetch_sync_items_loop
    PROVE  RequestInv'
<1>0. PeerInv /\ ConnInv /\ OneRequestPerBlock
  BY Zenon DEF RequestInv
<1>1. UNCHANGED conn /\ UNCHANGED received
  BY Zenon DEF fetch_sync_items_loop, links
<1>2. CASE suspend
  <2>1. UNCHANGED peer /\ UNCHANGED active_sync_requests
    BY <1>2, Zenon DEF fetch_sync_items_loop
  <2>2. Quiet
    BY <1>0, <1>1, <2>1, LikeFact, Marked, Zenon DEF Quiet, pool
  <2> QED BY <2>2, QuietInv, Zenon
<1>3. CASE ~ suspend
  <2> DEFINE who == {p \in Active : /\ peer[p].we_need /\ idle(peer[p])
                                    /\ ~peer[p].inhibit}
  <2>1. PICK order \in SetToSeqs(who) :
            /\ peer' = [p \in Peer |-> [peer[p] EXCEPT !.wanted = @ \cup Plan(order)[p]]]
            /\ active_sync_requests' = active_sync_requests \cup UNION {Plan(order)[p] : p \in Peer}
    BY <1>3, Zenon DEF fetch_sync_items_loop
  <2>2. who \in SUBSET Peer /\ \A p \in who : conn[p] = "active"
    BY Zenon DEF Active
  <2> HIDE DEF who
  <2>3. Planned(Plan(order), who)
    BY <2>1, <2>2, OrderFact, PlanFact, Zenon
  <2> DEFINE plan == Plan(order)
             add == UNION {plan[p] : p \in Peer}
  <2>4. /\ peer' = [p \in Peer |-> [peer[p] EXCEPT !.wanted = @ \cup plan[p]]]
        /\ active_sync_requests' = active_sync_requests \cup add
    BY <2>1, Zenon
  <2> HIDE DEF plan
  <2>5. /\ \A p \in Peer \ who : plan[p] = {}
        /\ \A p \in Peer : plan[p] \cap (received \cup active_sync_requests) = {}
        /\ \A p, q \in Peer : p # q => plan[p] \cap plan[q] = {}
    BY <2>3, Zenon DEF Planned, plan
  <2>6. PeerInv' /\ \A p \in Peer : peer'[p].wanted = peer[p].wanted \cup plan[p]
    <3>1. DOMAIN peer' = Peer
          /\ \A p \in Peer : peer'[p] = [peer[p] EXCEPT !.wanted = @ \cup plan[p]]
      BY <2>4, Zenon
    <3>2. ASSUME NEW p \in Peer
          PROVE  "wanted" \in DOMAIN peer'[p] /\ peer'[p].wanted = peer[p].wanted \cup plan[p]
      <4> DEFINE r == peer[p]
      <4>1. "wanted" \in DOMAIN r /\ peer'[p] = [r EXCEPT !.wanted = @ \cup plan[p]]
        BY <1>0, <3>1, Zenon DEF PeerInv
      <4> HIDE DEF r
      <4>2. "wanted" \in DOMAIN peer'[p] /\ peer'[p].wanted = r.wanted \cup plan[p]
        BY <4>1
      <4> QED BY <4>2, Zenon DEF r
    <3> QED BY <3>1, <3>2, Zenon DEF PeerInv
  <2>7. ConnInv'
    <3>1. ASSUME NEW p \in Peer, conn'[p] = "off" PROVE peer'[p].wanted = {}
      <4>1. conn[p] = "off" /\ conn[p] # "active"
        BY <3>1, <1>1
      <4>2. peer[p].wanted = {} /\ plan[p] = {}
        BY <4>1, <1>0, <2>2, <2>5, Zenon DEF ConnInv
      <4> QED BY <4>2, <2>6
    <3> QED BY <3>1, <1>0, <1>1, Zenon DEF ConnInv
  <2> DEFINE W == UNION {peer[p].wanted : p \in Peer}
  <2>8. active_sync_requests = W
    BY <1>0, Zenon DEF OneRequestPerBlock
  <2>9. active_sync_requests' = UNION {peer'[p].wanted : p \in Peer}
    <3> DEFINE V == UNION {peer'[p].wanted : p \in Peer}
    <3>1. ASSUME NEW b PROVE b \in W \cup add <=> b \in V
      <4>1. b \in V <=> \E p \in Peer : b \in peer'[p].wanted
        OBVIOUS
      <4>2. b \in W <=> \E p \in Peer : b \in peer[p].wanted
        OBVIOUS
      <4>3. b \in add <=> \E p \in Peer : b \in plan[p]
        OBVIOUS
      <4>4. \A p \in Peer : b \in peer'[p].wanted <=> b \in peer[p].wanted \/ b \in plan[p]
        BY <2>6
      <4> HIDE DEF V, W, add
      <4> QED BY <4>1, <4>2, <4>3, <4>4, Zenon
    <3> HIDE DEF V, W, add
    <3>2. W \cup add = V
      BY <3>1, SMT
    <3> QED BY <2>4, <2>8, <3>2, Zenon DEF V
  <2>10. \A p \in Peer : peer[p].wanted \subseteq active_sync_requests
    BY <2>8
  <2>11. ASSUME NEW p \in Peer, NEW q \in Peer, p # q
         PROVE  peer'[p].wanted \cap peer'[q].wanted = {}
    <3>1. /\ peer[p].wanted \cap peer[q].wanted = {} /\ plan[p] \cap plan[q] = {}
          /\ peer[p].wanted \cap plan[q] = {} /\ plan[p] \cap peer[q].wanted = {}
      BY <1>0, <2>5, <2>10, <2>11, Zenon DEF OneRequestPerBlock
    <3> QED BY <2>6, <3>1
  <2>12. received' \cap active_sync_requests' = {}
    <3>1. received \cap add = {}
      BY <2>5
    <3> HIDE DEF add
    <3> QED BY <1>0, <1>1, <2>4, <3>1, Zenon DEF OneRequestPerBlock
  <2>13. OneRequestPerBlock'
    BY <2>9, <2>11, <2>12, Zenon DEF OneRequestPerBlock
  <2> QED BY <2>6, <2>7, <2>13, Zenon DEF RequestInv
<1> QED BY <1>2, <1>3, Zenon

(* A request of one peer ends: the block arrives, or the peer does not     *)
(* have it.  Nobody else was asked for it.                                 *)
LEMMA RequestEnds ==
    ASSUME RequestInv, NEW p \in Peer, NEW B, B \subseteq peer[p].wanted,
           DOMAIN peer' = Peer, \A q \in Peer : q # p => peer'[q] = peer[q],
           "wanted" \in DOMAIN peer'[p], peer'[p].wanted = peer[p].wanted \ B,
           DOMAIN conn' = Peer,
           \A q \in Peer : conn'[q] = "off" => conn[q] = "off" \/ (q = p /\ B = peer[p].wanted),
           active_sync_requests' = active_sync_requests \ B,
           received' \subseteq received \cup B
    PROVE  RequestInv'
<1>0. PeerInv /\ ConnInv /\ OneRequestPerBlock
  BY Zenon DEF RequestInv
<1>1. PeerInv'
  BY <1>0, Zenon DEF PeerInv
<1>2. \A q \in Peer : peer'[q].wanted \subseteq peer[q].wanted
  BY Zenon
<1>3. ConnInv'
  <2>1. ASSUME NEW q \in Peer, conn'[q] = "off" PROVE peer'[q].wanted = {}
    <3>1. CASE conn[q] = "off"
      <4>1. peer[q].wanted = {}
        BY <3>1, <1>0, Zenon DEF ConnInv
      <4> QED BY <4>1, <1>2, Zenon
    <3>2. CASE q = p /\ B = peer[p].wanted
      <4>1. peer'[q].wanted = peer[p].wanted \ peer[p].wanted
        BY <3>2, Zenon
      <4> QED BY <4>1, Zenon
    <3> QED BY <2>1, <3>1, <3>2, Zenon
  <2> QED BY <2>1, Zenon DEF ConnInv
<1> DEFINE W == UNION {peer[q].wanted : q \in Peer}
           V == UNION {peer'[q].wanted : q \in Peer}
<1>4. active_sync_requests = W
  BY <1>0, Zenon DEF OneRequestPerBlock
<1>5. ASSUME NEW b PROVE b \in W \ B <=> b \in V
  <2>1. b \in V <=> \E q \in Peer : b \in peer'[q].wanted
    OBVIOUS
  <2>2. b \in W <=> \E q \in Peer : b \in peer[q].wanted
    OBVIOUS
  <2>3. \A q \in Peer : b \in peer'[q].wanted <=> b \in peer[q].wanted /\ b \notin B
    <3> SUFFICES ASSUME NEW q \in Peer
                 PROVE  b \in peer'[q].wanted <=> b \in peer[q].wanted /\ b \notin B
      BY Zenon
    <3>1. CASE q = p
      BY <3>1, Zenon
    <3>2. CASE q # p
      <4>1. peer'[q] = peer[q] /\ peer[q].wanted \cap peer[p].wanted = {}
        BY <3>2, <1>0, Zenon DEF OneRequestPerBlock
      <4> QED BY <4>1, Zenon
    <3> QED BY <3>1, <3>2, Zenon
  <2> HIDE DEF V, W
  <2> QED BY <2>1, <2>2, <2>3, Zenon
<1> HIDE DEF V, W
<1>6. W \ B = V
  BY <1>5, SMT
<1>7. active_sync_requests' = UNION {peer'[q].wanted : q \in Peer}
  BY <1>4, <1>6, Zenon DEF V
<1>8. \A q, r \in Peer : q # r => peer'[q].wanted \cap peer'[r].wanted = {}
  <2> SUFFICES ASSUME NEW q \in Peer, NEW r \in Peer, q # r
               PROVE  peer'[q].wanted \cap peer'[r].wanted = {}
    BY Zenon
  <2>1. peer[q].wanted \cap peer[r].wanted = {}
    BY <1>0, Zenon DEF OneRequestPerBlock
  <2> QED BY <2>1, <1>2, Zenon
<1>9. received' \cap active_sync_requests' = {}
  <2>1. received \cap active_sync_requests = {}
    BY <1>0, Zenon DEF OneRequestPerBlock
  <2> QED BY <2>1, Zenon
<1>10. OneRequestPerBlock'
  BY <1>7, <1>8, <1>9, Zenon DEF OneRequestPerBlock
<1> QED BY <1>1, <1>3, <1>10, Zenon DEF RequestInv

(* One record is replaced.                                                 *)
LEMMA OneRecord ==
    ASSUME PeerInv, NEW p \in Peer, NEW rec, Put(p, rec)
    PROVE  /\ DOMAIN peer' = Peer /\ peer'[p] = rec
           /\ \A q \in Peer : q # p => peer'[q] = peer[q]
<1>1. DOMAIN peer = Peer /\ peer' = [peer EXCEPT ![p] = rec]
  BY Zenon DEF PeerInv, Put
<1> QED BY <1>1

(* A block arrives.                                                        *)
LEMMA BlockStep ==
    ASSUME RequestInv, NEW p \in Peer, process_block_message(p)
    PROVE  RequestInv'
<1>0. PeerInv /\ ConnInv
  BY Zenon DEF RequestInv
<1> DEFINE b == Received(p).block
<1>1. CASE b \in peer[p].wanted
  <2> DEFINE rec == [peer[p] EXCEPT !.wanted = @ \ {b}]
  <2>1. SyncBlock(p, b)
    BY <1>1, Zenon DEF process_block_message
  <2>2. /\ Put(p, rec) /\ UNCHANGED conn
        /\ active_sync_requests' = active_sync_requests \ {b}
        /\ received' = received \cup {b}
    BY <2>1, Zenon DEF SyncBlock, links
  <2> HIDE DEF b
  <2>3. "wanted" \in DOMAIN rec /\ rec.wanted = peer[p].wanted \ {b}
    <3> DEFINE r == peer[p]
    <3>1. "wanted" \in DOMAIN r
      BY <1>0, Zenon DEF PeerInv
    <3> HIDE DEF r
    <3>2. LET s == [r EXCEPT !.wanted = @ \ {b}]
          IN  "wanted" \in DOMAIN s /\ s.wanted = r.wanted \ {b}
      BY <3>1
    <3> QED BY <3>2, Zenon DEF r
  <2> HIDE DEF rec
  <2>4. /\ DOMAIN peer' = Peer /\ peer'[p] = rec
        /\ \A q \in Peer : q # p => peer'[q] = peer[q]
    BY <1>0, <2>2, OneRecord, Zenon
  <2>5. DOMAIN conn' = Peer /\ \A q \in Peer : conn'[q] = "off" => conn[q] = "off"
    BY <1>0, <2>2, Marked, Zenon
  <2>6. {b} \subseteq peer[p].wanted
    BY <1>1, Zenon
  <2> DEFINE B == {b}
  <2>7. /\ B \subseteq peer[p].wanted /\ peer'[p].wanted = peer[p].wanted \ B
        /\ "wanted" \in DOMAIN peer'[p]
        /\ active_sync_requests' = active_sync_requests \ B
        /\ received' \subseteq received \cup B
    BY <2>2, <2>3, <2>4, <2>6, Zenon
  <2> HIDE DEF B
  <2> QED BY <2>4, <2>5, <2>7, RequestEnds, Zenon
<1>2. CASE b \notin peer[p].wanted
  <2>1. disconnect({p}) /\ UNCHANGED peer /\ UNCHANGED pool
    BY <1>2, Zenon DEF process_block_message, UnknownBlock
  <2>2. Quiet
    BY <1>0, <2>1, LikeFact, Marked, Zenon DEF Quiet
  <2> QED BY <2>2, QuietInv, Zenon
<1> QED BY <1>1, <1>2, Zenon

(* The peer does not have a block it listed.                               *)
LEMMA NotAvailableStep ==
    ASSUME RequestInv, NEW p \in Peer, on_item_not_available_message(p)
    PROVE  RequestInv'
<1>0. PeerInv /\ ConnInv
  BY Zenon DEF RequestInv
<1> DEFINE b == Received(p).block
           r == peer[p]
           rec == [r EXCEPT !.wanted = @ \ {b}, !.inhibit = @ \/ r.peer_needs]
           B == {b}
<1>1. /\ b \in r.wanted /\ Put(p, rec) /\ UNCHANGED received
      /\ active_sync_requests' = active_sync_requests \ {b}
      /\ UNCHANGED conn \/ disconnect({p})
  BY Zenon DEF on_item_not_available_message, links
<1> HIDE DEF b
<1>2. "wanted" \in DOMAIN r
  BY <1>0, Zenon DEF PeerInv
<1> HIDE DEF r
<1>3. "wanted" \in DOMAIN rec /\ rec.wanted = r.wanted \ {b}
  BY <1>2
<1> HIDE DEF rec
<1>4. /\ DOMAIN peer' = Peer /\ peer'[p] = rec
      /\ \A q \in Peer : q # p => peer'[q] = peer[q]
  BY <1>0, <1>1, OneRecord, Zenon
<1>5. DOMAIN conn' = Peer /\ \A q \in Peer : conn'[q] = "off" => conn[q] = "off"
  BY <1>0, <1>1, Marked, Zenon
<1>6. {b} \subseteq r.wanted
  BY <1>1, Zenon
<1>7. /\ B \subseteq peer[p].wanted /\ peer'[p].wanted = peer[p].wanted \ B
      /\ "wanted" \in DOMAIN peer'[p]
      /\ active_sync_requests' = active_sync_requests \ B
      /\ received' \subseteq received \cup B
  BY <1>1, <1>3, <1>4, <1>6, Zenon DEF r
<1> HIDE DEF B
<1> QED BY <1>4, <1>5, <1>7, RequestEnds, Zenon

(* A connection is gone: what was asked of the peer is open again.         *)
LEMMA ClosedStep ==
    ASSUME RequestInv, NEW p \in Peer, on_connection_closed(p)
    PROVE  RequestInv'
<1>0. PeerInv /\ ConnInv
  BY Zenon DEF RequestInv
<1> DEFINE B == peer[p].wanted
<1>1. /\ Put(p, NewPeer) /\ UNCHANGED received
      /\ active_sync_requests' = active_sync_requests \ B
      /\ conn' = [conn EXCEPT ![p] = "off"]
  BY Zenon DEF on_connection_closed
<1>2. "wanted" \in DOMAIN NewPeer /\ NewPeer.wanted = {}
  BY DEF NewPeer
<1>3. /\ DOMAIN peer' = Peer /\ peer'[p] = NewPeer
      /\ \A q \in Peer : q # p => peer'[q] = peer[q]
  BY <1>0, <1>1, OneRecord, Zenon
<1>4. DOMAIN conn' = Peer /\ \A q \in Peer : conn'[q] = "off" => conn[q] = "off" \/ q = p
  <2>1. DOMAIN conn = Peer
    BY <1>0, Zenon DEF ConnInv
  <2> QED BY <1>1, <2>1
<1>5. peer[p].wanted = B /\ B \ B = {} /\ B \subseteq B
  BY Zenon
<1> HIDE DEF B
<1>6. /\ B \subseteq peer[p].wanted /\ peer'[p].wanted = peer[p].wanted \ B
      /\ "wanted" \in DOMAIN peer'[p] /\ received' \subseteq received \cup B
      /\ \A q \in Peer : conn'[q] = "off" => conn[q] = "off" \/ (q = p /\ B = peer[p].wanted)
  BY <1>1, <1>2, <1>3, <1>4, <1>5, Zenon
<1> QED BY <1>1, <1>3, <1>4, <1>6, RequestEnds, Zenon

(* A connection is established, with a fresh record.                       *)
LEMMA ConnectedQuiet ==
    ASSUME PeerInv, ConnInv, NEW p \in Peer, new_peer_just_added(p)
    PROVE  Quiet
<1>1. /\ conn[p] = "off" /\ conn' = [conn EXCEPT ![p] = "active"]
      /\ Put(p, NewPeer) /\ UNCHANGED pool
  BY Zenon DEF new_peer_just_added
<1>2. "wanted" \in DOMAIN NewPeer /\ NewPeer.wanted = {}
  BY DEF NewPeer
<1>3. Same(peer[p], NewPeer)
  BY <1>1, <1>2, Zenon DEF ConnInv, Same
<1>4. Like(peer')
  BY <1>1, <1>3, PutFact, Zenon
<1>5. DOMAIN conn' = Peer /\ \A q \in Peer : conn'[q] = "off" => conn[q] = "off"
  <2>1. DOMAIN conn = Peer
    BY Zenon DEF ConnInv
  <2> QED BY <1>1, <2>1
<1> QED BY <1>1, <1>4, <1>5, Zenon DEF Quiet

-------------------------------------------------------------------------------
(* The node starts with connections and no requests.                       *)
LEMMA InitRequests == Init => RequestInv
<1> SUFFICES ASSUME Init PROVE RequestInv
  BY Zenon
<1>1. /\ peer = [p \in Peer |-> NewPeer] /\ conn = [p \in Peer |-> "active"]
      /\ active_sync_requests = {} /\ received = {}
  BY Zenon DEF Init
<1>2. "wanted" \in DOMAIN NewPeer /\ NewPeer.wanted = {}
  BY DEF NewPeer
<1>3. /\ DOMAIN peer = Peer /\ DOMAIN conn = Peer
      /\ \A p \in Peer : "wanted" \in DOMAIN peer[p] /\ peer[p].wanted = {}
  BY <1>1, <1>2, Zenon
<1>4. UNION {peer[p].wanted : p \in Peer} = {}
  BY <1>3
<1> QED BY <1>1, <1>3, <1>4, Zenon DEF RequestInv, PeerInv, ConnInv, OneRequestPerBlock

(* Every step keeps the invariant.                                         *)
LEMMA RequestStep ==
    ASSUME RequestInv, [Next]_sync_vars
    PROVE  RequestInv'
<1>0. PeerInv /\ ConnInv
  BY Zenon DEF RequestInv
<1>1. ASSUME NEW p \in Peer, Handlers(p) PROVE RequestInv'
  <2>1. CASE \/ on_blockchain_item_ids_inventory_message(p) \/ LastIdIsKnown(p)
             \/ FlushKnownId(p) \/ SynopsisReturns(p)
             \/ on_fetch_blockchain_item_ids_message(p)
    BY <2>1, <1>0, ListQuiet, HasItemQuiet, SynopsisQuiet, ServeQuiet, QuietInv, Zenon
  <2>2. CASE process_block_message(p) \/ on_item_not_available_message(p)
    BY <2>2, BlockStep, NotAvailableStep, Zenon
  <2> QED BY <1>1, <2>1, <2>2, Zenon DEF Handlers
<1>2. CASE Loops
  <2>1. CASE DelegatePushesSync \/ BacklogStarts \/ BacklogEnds
    BY <2>1, <1>0, OtherQuiet, QuietInv, Zenon
  <2>2. ASSUME NEW b \in Block, BacklogHandsOver(b) \/ BacklogSkips(b) PROVE RequestInv'
    BY <2>2, <1>0, SkipQuiet, QuietInv, Zenon
  <2>3. CASE fetch_sync_items_loop
    BY <2>3, LoopStep, Zenon
  <2> QED BY <1>2, <2>1, <2>2, <2>3, Zenon DEF Loops
<1>3. ASSUME NEW i, Tasks(i) PROVE RequestInv'
  BY <1>3, <1>0, TaskQuiet, QuietInv, Zenon DEF Tasks
<1>4. ASSUME NEW p \in Peer, \/ new_peer_just_added(p) \/ kill_inactive_conns_loop(p)
                             \/ on_connection_closed(p)
      PROVE  RequestInv'
  <2>1. CASE new_peer_just_added(p)
    BY <2>1, <1>0, ConnectedQuiet, QuietInv, Zenon
  <2>2. CASE kill_inactive_conns_loop(p)
    BY <2>2, <1>0, OtherQuiet, QuietInv, Zenon
  <2>3. CASE on_connection_closed(p)
    BY <2>3, ClosedStep, Zenon
  <2> QED BY <1>4, <2>1, <2>2, <2>3, Zenon
<1>5. ASSUME NEW p \in Peer, Answers(p) PROVE RequestInv'
  BY <1>5, <1>0, OtherQuiet, QuietInv, Zenon DEF Answers
<1>6. CASE Runs
  BY <1>6, <1>1, <1>2, <1>3, <1>4, <1>5, Zenon DEF Runs
<1>7. ASSUME NEW p \in Peer, NEW b \in Block, PeerLearns(p, b) \/ on_fetch_items_message(p, b)
      PROVE  RequestInv'
  <2>1. CASE PeerLearns(p, b)
    BY <2>1, <1>0, OtherQuiet, QuietInv, Zenon
  <2>2. CASE on_fetch_items_message(p, b)
    BY <2>2, <1>0, ServeQuiet, QuietInv, Zenon
  <2> QED BY <1>7, <2>1, <2>2, Zenon
<1>8. ASSUME NEW p \in Peer, ConnectionBreaks(p) PROVE RequestInv'
  BY <1>8, <1>0, OtherQuiet, QuietInv, Zenon
<1>9. CASE UNCHANGED sync_vars
  BY <1>9, <1>0, OtherQuiet, QuietInv, Zenon
<1> QED BY <1>6, <1>7, <1>8, <1>9, Zenon DEF Next

(* Every sync block is asked for from one peer at a time, nothing already  *)
(* received is asked for, and _active_sync_requests is exactly what the    *)
(* peers have been asked for: for any tree of blocks, any finite set of    *)
(* peers and any limits, through disconnections, reconnections, missing    *)
(* items and overlapping lists (node.cpp, fetch_sync_items_loop,           *)
(* on_connection_closed).                                                  *)
THEOREM OneRequestHolds == Spec => []OneRequestPerBlock
<1>1. RequestInv => OneRequestPerBlock
  BY Zenon DEF RequestInv
<1> QED BY <1>1, InitRequests, RequestStep, PTL DEF Spec
===============================================================================
