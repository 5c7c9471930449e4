------------------------------ MODULE Approval ------------------------------
(***************************************************************************)
(* What a confirmation provider promises to the tools that ask it          *)
(* (src/src/types.ts, ConfirmationProvider): a request is answered at most *)
(* once, and it is approved only with the user's consent.  It may stay     *)
(* open or be turned down at any time.                                     *)
(***************************************************************************)
CONSTANT Requests

VARIABLES
  verdict,   \* each request: "none", "pending", "approved", "rejected", "failed"
  consent    \* the requests the user has agreed to, at least once

Ask(r) ==
  /\ verdict[r] = "none"
  /\ verdict' = [verdict EXCEPT ![r] = "pending"]
  /\ UNCHANGED consent

\* The user agrees, whether or not anyone is listening.
Consent(S) == consent' = consent \cup S /\ UNCHANGED verdict

\* Requests asked in one message are decided together.
Approve(S) ==
  /\ \A r \in S : verdict[r] = "pending" /\ r \in consent
  /\ verdict' = [r \in Requests |-> IF r \in S THEN "approved" ELSE verdict[r]]
  /\ UNCHANGED consent

Refuse(S) ==
  /\ \A r \in S : verdict[r] = "pending"
  /\ \E v \in {"rejected", "failed"} :
       verdict' = [r \in Requests |-> IF r \in S THEN v ELSE verdict[r]]
  /\ UNCHANGED consent

ApprovalInit == verdict = [r \in Requests |-> "none"] /\ consent = {}

ApprovalNext ==
  \/ \E r \in Requests : Ask(r)
  \/ \E S \in SUBSET Requests : Consent(S) \/ Approve(S) \/ Refuse(S)

Approvals == ApprovalInit /\ [][ApprovalNext]_<<verdict, consent>>
=============================================================================
