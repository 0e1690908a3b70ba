------------------------------ MODULE MCProposals ------------------------------
(* Proposals that do some work, that approve an earlier proposal, and that *)
(* delete one and then fail, run inside each other; one has a review       *)
(* period.                                                                 *)
EXTENDS ProposalProperties

Op(kind, of, who, auth) == [kind |-> kind, of |-> of, who |-> who, auth |-> auth]

Create(ops, lifetime, review) ==
    [ops |-> ops, lifetime |-> lifetime, review |-> review]

MCNested ==
    {Create(<<Op("work", 0, "a", "active")>>, 2, 0),
     Create(<<Op("work", 0, "a", "active")>>, 2, 1),
     Create(<<Op("approve", 1, "a", "active"), Op("work", 0, "b", "active")>>, 2, 0),
     Create(<<Op("approve", 2, "a", "active")>>, 2, 0),
     Create(<<Op("delete", 1, "a", "active"), Op("bad", 0, "a", "active")>>, 2, 0)}

MCOperations ==
    {Op("approve", i, "a", "active") : i \in 1..3}
    \cup {Op("approve", 2, "b", "active"), Op("withdraw", 1, "a", "active"),
          Op("delete", 2, "a", "active")}
================================================================================
