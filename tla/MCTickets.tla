------------------------------- MODULE MCTickets -------------------------------
(* Two accounts, two tickets: of different accounts, of one account, or    *)
(* one split off the other.  Charging takes longer than one block, so that *)
(* a downgrade can fall due meanwhile; the other steps are short.          *)
EXTENDS TicketProperties, TLC

MCSupply == ("a" :> 2) @@ ("b" :> 1)
MCSecondsToDowngrade == (0 :> 2) @@ (1 :> 2) @@ (2 :> 2)
================================================================================
