------------------------------ MODULE Withdrawal ------------------------------
(***************************************************************************)
(* Withdrawal requests of one organisation: WithdrawalService, with the    *)
(* balance of RevenueService, against the payments that complete and the   *)
(* KYC reviews that happen meanwhile.  createRequest locks the             *)
(* organisation's row (SELECT ... FOR UPDATE) for the whole of its         *)
(* transaction, the reviews lock the withdrawal's row.                     *)
(***************************************************************************)
EXTENDS Payouts

VARIABLES
  org_lock, \* request that holds the lock of the organizations row
  row_lock, \* row_lock[r]: reviewer that holds the lock of row r
  pc, loc,  \* next step of each creating request, and its PHP variables
  review    \* review[a]: next step of a reviewer, and the withdrawal it is about

revenues == <<earned, reversed>>
vars == <<kyc, revenues, row, org_lock, row_lock, pc, loc, review>>

-----------------------------------------------------------------------------
Local == [amount : 0 .. MaxAmount, revenue : Nat]
Review == [step : {"idle", "lock", "decide"}, of : Request \cup {Nobody}]

NoLocal == [amount |-> 0, revenue |-> 0]
NoReview == [step |-> "idle", of |-> Nobody]

Steps == {"idle", "lock", "outstanding", "revenue", "reserved", "insert", "done"}
InTransaction == {"outstanding", "revenue", "reserved", "insert"}

Init ==
  /\ kyc = "pending"
  /\ earned = 0 /\ reversed = 0
  /\ row = [r \in Request |-> [status |-> "none", amount |-> 0]]
  /\ org_lock = Nobody
  /\ row_lock = [r \in Request |-> Nobody]
  /\ pc = [r \in Request |-> "idle"]
  /\ loc = [r \in Request |-> NoLocal]
  /\ review = [a \in Reviewer |-> NoReview]

-----------------------------------------------------------------------------
(* createRequest, one statement at a time.                                   *)
Goto(r, step) == pc' = [pc EXCEPT ![r] = step]

(* The transaction ends, by COMMIT or ROLLBACK: its lock is released.        *)
Finish(r) == /\ Goto(r, "done")
             /\ loc' = [loc EXCEPT ![r] = NoLocal]
             /\ org_lock' = Nobody

Receive(r) ==
  /\ pc[r] = "idle"
  /\ \E amount \in 1 .. MaxAmount : loc' = [loc EXCEPT ![r].amount = amount]
  /\ Goto(r, "lock")
  /\ UNCHANGED <<kyc, revenues, row, org_lock, row_lock, review>>

(* The locked row is read again: its kyc_status is the one tested.           *)
LockOrganization(r) ==
  /\ pc[r] = "lock" /\ org_lock = Nobody
  /\ IF kyc = "verified"
     THEN Goto(r, "outstanding") /\ org_lock' = r /\ UNCHANGED loc
     ELSE Finish(r)
  /\ UNCHANGED <<kyc, revenues, row, row_lock, review>>

(* A mutant: approved withdrawals are forgotten.                             *)
CheckOutstanding_Pending(r) ==
  /\ pc[r] = "outstanding"
  /\ IF \E q \in Request : row[q].status = "pending"
     THEN Finish(r)
     ELSE Goto(r, "revenue") /\ UNCHANGED <<org_lock, loc>>
  /\ UNCHANGED <<kyc, revenues, row, row_lock, review>>

CheckOutstanding(r) ==
  /\ pc[r] = "outstanding"
  /\ IF \E q \in Request : row[q].status \in Outstanding
     THEN Finish(r)
     ELSE Goto(r, "revenue") /\ UNCHANGED <<org_lock, loc>>
  /\ UNCHANGED <<kyc, revenues, row, row_lock, review>>

(* availableBalance is the difference of two queries.                        *)
SumRevenue(r) ==
  /\ pc[r] = "revenue"
  /\ loc' = [loc EXCEPT ![r].revenue = Revenue]
  /\ Goto(r, "reserved")
  /\ UNCHANGED <<kyc, revenues, row, org_lock, row_lock, review>>

(* A mutant: earlier withdrawals are forgotten.                              *)
SumReserved_Ignored(r) ==
  /\ pc[r] = "reserved"
  /\ IF loc[r].amount > loc[r].revenue
     THEN Finish(r)
     ELSE Goto(r, "insert") /\ UNCHANGED <<org_lock, loc>>
  /\ UNCHANGED <<kyc, revenues, row, row_lock, review>>

SumReserved(r) ==
  /\ pc[r] = "reserved"
  /\ IF loc[r].amount + TotalReserved > loc[r].revenue
     THEN Finish(r)
     ELSE Goto(r, "insert") /\ UNCHANGED <<org_lock, loc>>
  /\ UNCHANGED <<kyc, revenues, row, row_lock, review>>

Insert(r) ==
  /\ pc[r] = "insert"
  /\ row' = [row EXCEPT ![r] = [status |-> "pending", amount |-> loc[r].amount]]
  /\ Finish(r)
  /\ UNCHANGED <<kyc, revenues, row_lock, review>>

(* The worker dies: the transaction is rolled back.                          *)
Crash(r) ==
  /\ pc[r] \in InTransaction
  /\ Finish(r)
  /\ UNCHANGED <<kyc, revenues, row, row_lock, review>>

-----------------------------------------------------------------------------
(* approve, reject, markPaid and cancel: the withdrawal is named by the      *)
(* route, then locked and read again, then decided.                          *)
ReceiveReview(a, r) ==
  /\ review[a].step = "idle" /\ row[r].status # "none"
  /\ review' = [review EXCEPT ![a] = [step |-> "lock", of |-> r]]
  /\ UNCHANGED <<kyc, revenues, row, org_lock, row_lock, pc, loc>>

LockRow(a, r) ==
  /\ review[a] = [step |-> "lock", of |-> r]
  /\ row_lock[r] = Nobody
  /\ row_lock' = [row_lock EXCEPT ![r] = a]
  /\ review' = [review EXCEPT ![a].step = "decide"]
  /\ UNCHANGED <<kyc, revenues, row, org_lock, pc, loc>>

(* A mutant: the status is not tested again under the lock.                  *)
Decide_Unchecked(a, r, from, to) ==
  /\ review[a] = [step |-> "decide", of |-> r]
  /\ row' = [row EXCEPT ![r].status = to]
  /\ row_lock' = [row_lock EXCEPT ![r] = Nobody]
  /\ review' = [review EXCEPT ![a] = NoReview]
  /\ UNCHANGED <<kyc, revenues, org_lock, pc, loc>>

(* The operation is refused, and the row left as it is, when its status is   *)
(* not the one the operation starts from.                                    *)
Decide(a, r, from, to) ==
  /\ review[a] = [step |-> "decide", of |-> r]
  /\ row' = [row EXCEPT ![r].status = IF @ = from THEN to ELSE @]
  /\ row_lock' = [row_lock EXCEPT ![r] = Nobody]
  /\ review' = [review EXCEPT ![a] = NoReview]
  /\ UNCHANGED <<kyc, revenues, org_lock, pc, loc>>

Approve(a, r)  == Decide(a, r, "pending", "approved")
Reject(a, r)   == Decide(a, r, "pending", "rejected")
Cancel(a, r)   == Decide(a, r, "pending", "cancelled")
MarkPaid(a, r) == Decide(a, r, "approved", "paid")

(* The reviewer may not cancel, or its worker dies: ROLLBACK.                *)
Abandon(a, r) ==
  /\ review[a] = [step |-> "decide", of |-> r]
  /\ row_lock' = [row_lock EXCEPT ![r] = Nobody]
  /\ review' = [review EXCEPT ![a] = NoReview]
  /\ UNCHANGED <<kyc, revenues, row, org_lock, pc, loc>>

-----------------------------------------------------------------------------
(* A mutant: the review does not wait for the lock.                          *)
UpdateKyc_Unlocked ==
  /\ kyc' \in {"pending", "verified", "rejected"} \ {kyc}
  /\ UNCHANGED <<revenues, row, org_lock, row_lock, pc, loc, review>>

(* OrganizationKycController::submit and review: an UPDATE of the            *)
(* organizations row, which waits for its lock.                              *)
UpdateKyc ==
  /\ org_lock = Nobody
  /\ kyc' \in {"pending", "verified", "rejected"} \ {kyc}
  /\ UNCHANGED <<revenues, row, org_lock, row_lock, pc, loc, review>>

(* A transaction is completed.                                               *)
Earn ==
  /\ \E n \in earned + 1 .. MaxRevenue : earned' = n
  /\ UNCHANGED <<kyc, reversed, row, org_lock, row_lock, pc, loc, review>>

(* verifyPayment marks a completed transaction as failed, or its election is *)
(* deleted and forOrganization no longer finds it.                           *)
Reverse ==
  /\ \E n \in reversed + 1 .. earned : reversed' = n
  /\ UNCHANGED <<kyc, earned, row, org_lock, row_lock, pc, loc, review>>

-----------------------------------------------------------------------------
Create(r) == \/ LockOrganization(r) \/ CheckOutstanding(r) \/ SumRevenue(r)
             \/ SumReserved(r) \/ Insert(r)

Next == \/ \E r \in Request : Receive(r) \/ Create(r) \/ Crash(r)
        \/ \E a \in Reviewer, r \in Request :
             \/ ReceiveReview(a, r) \/ LockRow(a, r)
             \/ Approve(a, r) \/ Reject(a, r) \/ Cancel(a, r) \/ MarkPaid(a, r)
             \/ Abandon(a, r)
        \/ UpdateKyc \/ Earn \/ Reverse

Spec == Init /\ [][Next]_vars

-----------------------------------------------------------------------------
TypeOK ==
  /\ kyc \in {"pending", "verified", "rejected"}
  /\ earned \in Nat /\ reversed \in 0 .. earned
  /\ row \in [Request -> Row]
  /\ org_lock \in Request \cup {Nobody}
  /\ row_lock \in [Request -> Reviewer \cup {Nobody}]
  /\ pc \in [Request -> Steps]
  /\ loc \in [Request -> Local]
  /\ review \in [Reviewer -> Review]
=============================================================================
