-------------------------- MODULE ProposalProperties --------------------------
(***************************************************************************)
(* What proposals promise.  The history variable `frozen' remembers the    *)
(* approvals a proposal had when its review period began.                  *)
(***************************************************************************)
EXTENDS Proposals

VARIABLE frozen

hvars == <<vars, frozen>>

Approvals(p) == p.active \cup p.owner

HInit == Init /\ frozen = [i \in {} |-> {}]

(* Only a block can begin a review period.                                 *)
HNext ==
    /\ Next
    /\ frozen' =
          IF now' = now THEN frozen
          ELSE [i \in {j \in DOMAIN proposals : InReview(proposals[j])'} |->
                   IF i \in DOMAIN frozen THEN frozen[i]
                   ELSE Approvals(proposals[i])]

HSpec == HInit /\ [][HNext]_hvars /\ WF_hvars(Run /\ HNext)
--------------------------------------------------------------------------------
(* push_proposal and its callers keep a reference to the proposal they run *)
(* and use it after its operations, which may themselves approve, change   *)
(* or delete proposals.  Every running proposal still exists, is still     *)
(* approved, and, if it has a review period, has expired.                  *)
RunningProposalsAreApproved ==
    \A k \in DOMAIN stack :
        LET id == stack[k].proposal
        IN  /\ id \in DOMAIN proposals
            /\ is_authorized_to_execute(proposals[id])
            /\ HasReview(proposals[id]) => Expired(id)

(* No proposal runs inside itself, and the nesting is limited.             *)
NoReentry ==
    /\ \A j, k \in DOMAIN stack : j < k => stack[k].proposal < stack[j].proposal
    /\ Len(stack) <= MaxNesting

(* During its review period a proposal can lose approvals of accounts but  *)
(* gain none, whatever is undone and redone meanwhile.                     *)
ReviewFreezesApprovals ==
    \A i \in DOMAIN proposals \cap DOMAIN frozen :
        InReview(proposals[i]) => Approvals(proposals[i]) \subseteq frozen[i]

(* An entry of required_approval_index always belongs to a proposal that   *)
(* exists and to an account that is required for it or has approved it,    *)
(* also after undo.                                                        *)
IndexHasNoStrangers ==
    \A pair \in by_account :
        /\ pair[2] \in DOMAIN proposals
        /\ pair \in IndexOf(pair[2], proposals[pair[2]])

(* Whatever proposals run, fail and delete each other, a transaction and   *)
(* the expiry in a block come to their end.                                *)
ExecutionEnds == mode # "idle" ~> mode = "idle"
--------------------------------------------------------------------------------
===============================================================================
