-------------------------------- MODULE MCSync --------------------------------
(* Two peers and a chain a1 a2 a3: one has all of it, the other gets a2    *)
(* while we synchronise, and so asks and is asked again.                   *)
EXTENDS SyncProperties

CONSTANTS a1, a2, a3, peer_p, peer_q

MCBlock    == {a1, a2, a3}
MCprevious == (a1 :> Null) @@ (a2 :> a1) @@ (a3 :> a2)
MCnum      == (a1 :> 1) @@ (a2 :> 2) @@ (a3 :> 3)

Genesis   == <<a1>>
LateStart == (peer_p :> <<a1>>) @@ (peer_q :> <<a1, a2, a3>>)
LateGrow  == (peer_p :> {a2}) @@ (peer_q :> {})
===============================================================================
