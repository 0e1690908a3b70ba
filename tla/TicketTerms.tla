------------------------------ MODULE TicketTerms ------------------------------
(***************************************************************************)
(* How long tokens stay in a ticket.  The history variable `held' is the   *)
(* last time, between two handlers, at which a ticket had at least a given *)
(* type; -1 when it never had.                                             *)
(***************************************************************************)
EXTENDS TicketProperties

VARIABLE held

tvars == <<hvars, held>>

TermType == 1..lock_720_days

TInit == HInit /\ held = [i \in {} |-> 0]

TNext ==
    /\ HNext
    /\ held' = [i \in DOMAIN tickets' |->
                   [k \in TermType |->
                       IF loop' = "idle" /\ tickets'[i].current_type >= k
                       THEN now' ELSE IF i \in DOMAIN tickets THEN held[i][k]
                       ELSE -1]]

TSpec == TInit /\ [][TNext]_tvars /\ WF_tvars(Loop /\ TNext)

(* The time it takes to get from type k down to a refund.                  *)
TimeToRefund(k) == SumFunctionOnSet(SecondsToDowngrade, 0..(k - 1))

(* A ticket is refunded no sooner than the full terms after it last had a  *)
(* type, short of at most one charging step: going back and forth between  *)
(* charging and withdrawing, and catching up on a downgrade time that lies *)
(* in the past, gain no more than that.                                    *)
TermsAreServed ==
    [][\A i \in DOMAIN tickets \ DOMAIN tickets' :
          \A k \in TermType :
              held[i][k] >= 0 => now > held[i][k] + TimeToRefund(k) - ChargingStep
      ]_tvars

(* process_tickets ends, however far behind the tickets are: every         *)
(* automatic update moves the ticket's next one later or stops it.         *)
ProcessingEnds == loop \in {"block", "update"} ~> loop \notin {"block", "update"}
================================================================================
