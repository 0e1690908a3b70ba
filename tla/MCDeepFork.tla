------------------------------ MODULE MCDeepFork ------------------------------
(* A network that splits after block 2: each side has one of the two       *)
(* witnesses, so no side makes blocks irreversible while both grow.        *)
EXTENDS ChainProperties

(* A block is its branch (r is the common root) and its number.            *)
MCBlock == ({"r"} \X (1..2)) \cup ({"a"} \X (3..6)) \cup ({"b"} \X (3..7))

MCprevious ==
    [b \in MCBlock |->
        CASE b[2] = 1 -> Null [] b[2] = 3 -> <<"r", 2>> [] OTHER -> <<b[1], b[2] - 1>>]

MCnum == [b \in MCBlock |-> b[2]]

MCwitness ==
    [b \in MCBlock |-> IF b[1] = "a" \/ b = <<"r", 1>> THEN "w1" ELSE "w2"]

MCtransactions == [b \in MCBlock |-> <<>>]
MCNone == [t \in {} |-> {}]
MCTip == {<<"b", 7>>}
=============================================================================
