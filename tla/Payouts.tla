------------------------------- MODULE Payouts -------------------------------
(***************************************************************************)
(* The withdrawal requests of one organisation as an administrator sees    *)
(* them: their rows, the KYC and the revenue that they depend on, and what *)
(* is promised of them however requests and reviews overlap.               *)
(* A withdrawal_requests row is named after the request that creates it.   *)
(***************************************************************************)
EXTENDS Naturals, FiniteSets, Functions

CONSTANTS
  Request,    \* requests POST /withdrawals, and the rows they create
  Reviewer,   \* requests approve, reject, mark-paid, cancel
  MaxAmount,  \* bound: largest amount asked, in units
  MaxRevenue, \* bound: net revenue ever earned
  Nobody      \* the holder of a lock that is free

ASSUME RequestAssumption == IsFiniteSet(Request)
ASSUME AmountAssumption == MaxAmount \in Nat \ {0} /\ MaxRevenue \in Nat
ASSUME NobodyAssumption == Nobody \notin Request \cup Reviewer

VARIABLES
  kyc,      \* organizations.kyc_status
  earned,   \* SUM(net_amount) of the transactions that were completed at some time
  reversed, \* of those that failed since, or whose election was deleted
  row       \* row[r]: the withdrawal_requests row

-----------------------------------------------------------------------------
Status == {"none", "pending", "approved", "rejected", "paid", "cancelled"}
IsFinal == {"rejected", "paid", "cancelled"}
ReservesBalance == {"pending", "approved", "paid"}
Outstanding == {"pending", "approved"}

Row == [status : Status, amount : 0 .. MaxAmount]

(* RevenueService sums the transactions that are completed now.              *)
Revenue == earned - reversed

TotalReserved ==
  FoldFunctionOnSet(+, 0, [r \in Request |-> row[r].amount],
                    {r \in Request : row[r].status \in ReservesBalance})

-----------------------------------------------------------------------------
(* "empecher deux demandes concurrentes" (WithdrawalService.php:19): two     *)
(* withdrawals of the organisation are never under way together.             *)
OneOutstanding ==
  \A q, r \in Request : (row[q].status \in Outstanding /\ row[r].status \in Outstanding) => q = r

(* The withdrawals that reserve money never exceed what was earned, although *)
(* their sum and the revenue are read by two queries while payments complete *)
(* and reviews are decided: an organisation is overdrawn by no more than the *)
(* transactions that were reversed.                                          *)
NeverOverdrawn == TotalReserved <= Revenue + reversed

(* A withdrawal is created only while the KYC is verified: the reviews of    *)
(* the KYC wait for the lock under which it was tested.                      *)
CreatedIfVerified ==
  [][\A r \in Request : (row[r].status = "none" /\ row'[r].status # "none") => kyc = "verified"]_<<kyc, row>>

(* WithdrawalStatus::isFinal: however two reviewers race, a withdrawal that  *)
(* is rejected, cancelled or paid stays so, and its amount never changes.    *)
FinalIsFinal ==
  [][\A r \in Request : /\ row[r].status \in IsFinal => row'[r] = row[r]
                        /\ row[r].status # "none" => row'[r].amount = row[r].amount]_<<kyc, row>>
=============================================================================
