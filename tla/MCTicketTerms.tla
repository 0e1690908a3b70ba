----------------------------- MODULE MCTicketTerms -----------------------------
(* One ticket, which is not split, over a time in which it can charge to   *)
(* the longest term and be refunded again, or be locked for ever and fade. *)
EXTENDS TicketTerms, TLC

MCSupply == [a \in Account |-> 2]
MCSecondsToDowngrade == (0 :> 3) @@ (1 :> 3) @@ (2 :> 4)
================================================================================
