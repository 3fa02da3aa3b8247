----------------------------- MODULE VotePayment -----------------------------
(***************************************************************************)
(* Payment of the votes of a paid election: PaymentController (initiate,   *)
(* verify, webhook), PaymentService, PaymentTransaction::markAsCompleted   *)
(* and Vote::markAsCompleted, executed concurrently against one payment    *)
(* provider.  None of these paths opens a database transaction: every      *)
(* save() and increment() is visible at once, and a worker may die between *)
(* two of them.                                                            *)
(***************************************************************************)
EXTENDS Naturals, FiniteSets, Functions

CONSTANTS
  Vote,          \* votes submitted and pending (VotingService returned them unpaid)
  Tx,            \* payment_transactions rows that may be created
  Worker,        \* PHP workers executing payment requests
  Quantity,      \* Quantity[v]: voices bought by v; total_amount = Quantity[v] * vote_price
  ErrorStatus,   \* what checkStatus answers on an HTTP error: MTN and Orange "failed", CamPay "pending"
  WaitingStatus, \* what it answers of a payment not yet made: Stripe "failed", the others "pending"
  HttpErrors,    \* whether calls to the provider may fail
  Crashes,       \* whether workers may die
  None

ASSUME QuantityAssumption == Quantity \in [Vote -> Nat \ {0}]
ASSUME ProviderAssumption == ErrorStatus \in {"pending", "failed"} /\ WaitingStatus \in {"pending", "failed"}
ASSUME FaultAssumption == HttpErrors \in BOOLEAN /\ Crashes \in BOOLEAN
ASSUME NoneAssumption == None \notin Vote \cup Tx
ASSUME FiniteAssumption == IsFiniteSet(Vote) /\ IsFiniteSet(Worker)

VARIABLES
  vote,      \* votes.status
  tx,        \* payment_transactions: vote_id, status, and whether provider_reference is set
  charge,    \* what the provider did with the transaction
  hooked,    \* transactions of which a payment_webhooks row says processed = true
  total,     \* elections.total_votes
  revenue,   \* elections.total_revenue, in units of vote_price
  tally,     \* the sum of candidates.vote_count
  pc, mem    \* the next step of each worker, and the models it holds in memory

counters == <<total, revenue, tally>>
vars == <<vote, tx, charge, hooked, counters, pc, mem>>

-----------------------------------------------------------------------------
Transaction == [state : {"none", "processing", "completed", "failed"},
                vote : Vote \cup {None}, ref : BOOLEAN]
NoTransaction == [state |-> "none", vote |-> None, ref |-> FALSE]

Models == [tx : Tx \cup {None}, state : {"none", "processing", "completed", "failed"},
           ref : BOOLEAN, answer : {"pending", "completed", "failed"}, webhook : BOOLEAN]
NoModels == [tx |-> None, state |-> "none", ref |-> FALSE, answer |-> "pending", webhook |-> FALSE]

Steps == {"idle", "call", "saveRef", "failed", "ask", "save", "load", "complete",
          "total", "revenue", "tally", "record"}

VoteOf(w) == tx[mem[w].tx].vote

Init ==
  /\ vote = [v \in Vote |-> "pending"]
  /\ tx = [t \in Tx |-> NoTransaction]
  /\ charge = [t \in Tx |-> "none"]
  /\ hooked = {}
  /\ total = 0 /\ revenue = 0 /\ tally = 0
  /\ pc = [w \in Worker |-> "idle"]
  /\ mem = [w \in Worker |-> NoModels]

Goto(w, step) == pc' = [pc EXCEPT ![w] = step]
Finish(w) == Goto(w, "idle") /\ mem' = [mem EXCEPT ![w] = NoModels]

(* The call of verifyPayment ends; handleWebhook still records the webhook.  *)
Return(w) == IF mem[w].webhook THEN Goto(w, "record") /\ UNCHANGED mem ELSE Finish(w)

-----------------------------------------------------------------------------
(* initiateForVote: refused for a completed vote, but not for one that has   *)
(* another transaction under way.                                            *)
Initiate(w) ==
  /\ pc[w] = "idle"
  /\ \E v \in Vote, t \in Tx :
       /\ vote[v] # "completed"
       /\ tx[t].state = "none"
       /\ tx' = [tx EXCEPT ![t] = [state |-> "processing", vote |-> v, ref |-> FALSE]]
       /\ mem' = [mem EXCEPT ![w].tx = t, ![w].state = "processing"]
  /\ Goto(w, "call")
  /\ UNCHANGED <<vote, charge, hooked, counters>>

(* initiatePayment: accepted, refused, or accepted with the answer lost, in  *)
(* which case processPayment catches the same exception as for a refusal.    *)
CallProvider(w) ==
  /\ pc[w] = "call"
  /\ \/ /\ charge' = [charge EXCEPT ![mem[w].tx] = "waiting"]
        /\ \/ Goto(w, "saveRef")
           \/ HttpErrors /\ Goto(w, "failed")
     \/ Goto(w, "failed") /\ UNCHANGED charge
  /\ UNCHANGED <<vote, tx, hooked, counters, mem>>

SaveReference(w) ==
  /\ pc[w] = "saveRef"
  /\ tx' = [tx EXCEPT ![mem[w].tx].ref = TRUE]
  /\ Finish(w)
  /\ UNCHANGED <<vote, charge, hooked, counters>>

FailInitiation(w) ==
  /\ pc[w] = "failed"
  /\ tx' = [tx EXCEPT ![mem[w].tx].state = "failed"]
  /\ Finish(w)
  /\ UNCHANGED <<vote, charge, hooked, counters>>

(* The customer confirms or refuses the payment on the phone: final.         *)
Settle(t) ==
  /\ charge[t] = "waiting"
  /\ \E outcome \in {"success", "refused"} : charge' = [charge EXCEPT ![t] = outcome]
  /\ UNCHANGED <<vote, tx, hooked, counters, pc, mem>>

-----------------------------------------------------------------------------
(* verifyVotePayment, polled by the browser that received the transaction's  *)
(* uuid: the row is read, whatever its status.                               *)
StartVerify(w, t) ==
  /\ pc[w] = "idle"
  /\ tx[t].ref
  /\ mem' = [mem EXCEPT ![w].tx = t, ![w].state = tx[t].state, ![w].ref = TRUE]
  /\ Goto(w, "ask")
  /\ UNCHANGED <<vote, tx, charge, hooked, counters>>

(* handleWebhook, called by the provider once the payment is settled, and    *)
(* again: the row is found by its external_reference, and verified only      *)
(* while it is "processing".                                                 *)
StartWebhook(w, t) ==
  /\ pc[w] = "idle"
  /\ charge[t] \in {"success", "refused"}
  /\ mem' = [mem EXCEPT ![w] = [tx |-> t, state |-> tx[t].state, ref |-> tx[t].ref,
                                answer |-> "pending", webhook |-> TRUE]]
  /\ Goto(w, IF tx[t].state = "processing" THEN "ask" ELSE "record")
  /\ UNCHANGED <<vote, tx, charge, hooked, counters>>

(* Mutants: a payment that is not settled is taken for a success, a failure. *)
ProviderStatus_Optimistic(t) == IF charge[t] = "refused" THEN "failed" ELSE "completed"
ProviderStatus_Strict(t) == IF charge[t] = "success" THEN "completed" ELSE "failed"

ProviderStatus(t) == CASE charge[t] = "success" -> "completed"
                       [] charge[t] = "refused" -> "failed"
                       [] OTHER -> WaitingStatus

(* checkStatus; with the empty provider_reference of a row read before       *)
(* SaveReference, the provider answers 404.                                  *)
Ask(w) ==
  /\ pc[w] = "ask"
  /\ \E answer \in (IF mem[w].ref THEN {ProviderStatus(mem[w].tx)} ELSE {})
                   \cup (IF HttpErrors \/ ~mem[w].ref THEN {ErrorStatus} ELSE {}) :
       mem' = [mem EXCEPT ![w].answer = answer]
  /\ Goto(w, "save")
  /\ UNCHANGED <<vote, tx, charge, hooked, counters>>

(* A mutant: everything that is not a success is a failure.                  *)
NewState_Strict(w) == IF mem[w].answer = "completed" THEN "completed" ELSE "failed"

NewState(w) == IF mem[w].answer = "pending" THEN mem[w].state ELSE mem[w].answer

(* markAsCompleted or markAsFailed: save() writes the status only if it      *)
(* differs from the one in memory, whatever the row holds by now.            *)
SaveTransaction(w) ==
  /\ pc[w] = "save"
  /\ tx' = IF NewState(w) = mem[w].state THEN tx
                                         ELSE [tx EXCEPT ![mem[w].tx].state = NewState(w)]
  /\ IF mem[w].answer = "completed" THEN Goto(w, "load") /\ UNCHANGED mem ELSE Return(w)
  /\ UNCHANGED <<vote, charge, hooked, counters>>

(* A mutant: a vote that is completed is completed again.                    *)
LoadVote_Unchecked(w) ==
  /\ pc[w] = "load"
  /\ Goto(w, "complete")
  /\ UNCHANGED <<vote, tx, charge, hooked, counters, mem>>

(* $this->vote is loaded; Vote::markAsCompleted returns if it is completed.  *)
LoadVote(w) ==
  /\ pc[w] = "load"
  /\ IF vote[VoteOf(w)] = "completed" THEN Return(w)
                                      ELSE Goto(w, "complete") /\ UNCHANGED mem
  /\ UNCHANGED <<vote, tx, charge, hooked, counters>>

CompleteVote(w) ==
  /\ pc[w] = "complete"
  /\ vote' = [vote EXCEPT ![VoteOf(w)] = "completed"]
  /\ Goto(w, "total")
  /\ UNCHANGED <<tx, charge, hooked, counters, mem>>

IncrementTotal(w) ==
  /\ pc[w] = "total"
  /\ total' = total + 1
  /\ Goto(w, "revenue")
  /\ UNCHANGED <<vote, tx, charge, hooked, revenue, tally, mem>>

IncrementRevenue(w) ==
  /\ pc[w] = "revenue"
  /\ revenue' = revenue + Quantity[VoteOf(w)]
  /\ Goto(w, "tally")
  /\ UNCHANGED <<vote, tx, charge, hooked, total, tally, mem>>

(* A mutant: one voice per vote, whatever was bought.                        *)
IncrementCandidates_ByOne(w) ==
  /\ pc[w] = "tally"
  /\ tally' = tally + 1
  /\ Return(w)
  /\ UNCHANGED <<vote, tx, charge, hooked, total, revenue>>

IncrementCandidates(w) ==
  /\ pc[w] = "tally"
  /\ tally' = tally + Quantity[VoteOf(w)]
  /\ Return(w)
  /\ UNCHANGED <<vote, tx, charge, hooked, total, revenue>>

RecordWebhook(w) ==
  /\ pc[w] = "record"
  /\ hooked' = hooked \cup {mem[w].tx}
  /\ Finish(w)
  /\ UNCHANGED <<vote, tx, charge, counters>>

Crash(w) ==
  /\ Crashes
  /\ pc[w] # "idle"
  /\ Finish(w)
  /\ UNCHANGED <<vote, tx, charge, hooked, counters>>

-----------------------------------------------------------------------------
Execute(w) == \/ CallProvider(w) \/ SaveReference(w) \/ FailInitiation(w)
              \/ Ask(w) \/ SaveTransaction(w) \/ LoadVote(w) \/ CompleteVote(w)
              \/ IncrementTotal(w) \/ IncrementRevenue(w) \/ IncrementCandidates(w)
              \/ RecordWebhook(w)

Next == \/ \E w \in Worker : Initiate(w) \/ Execute(w) \/ Crash(w)
        \/ \E w \in Worker, t \in Tx : StartVerify(w, t) \/ StartWebhook(w, t)
        \/ \E t \in Tx : Settle(t)

Spec == Init /\ [][Next]_vars

(* Workers go on; the provider repeats a webhook until it is acknowledged;   *)
(* the page (VotePayment.jsx) polls a transaction that is "processing" every *)
(* four seconds for two minutes, thus once more after a webhook that came    *)
(* before the reference was known.                                           *)
Deliver(t) == t \notin hooked /\ \E w \in Worker : StartWebhook(w, t)

Poll(t) == t \in hooked /\ tx[t].state = "processing" /\ \E w \in Worker : StartVerify(w, t)

FairSpec == /\ Spec
            /\ \A w \in Worker : WF_vars(Execute(w))
            /\ \A t \in Tx : SF_vars(Deliver(t)) /\ SF_vars(Poll(t))

-----------------------------------------------------------------------------
TypeOK ==
  /\ vote \in [Vote -> {"pending", "completed"}]
  /\ tx \in [Tx -> Transaction]
  /\ charge \in [Tx -> {"none", "waiting", "success", "refused"}]
  /\ hooked \subseteq Tx
  /\ total \in Nat /\ revenue \in Nat /\ tally \in Nat
  /\ pc \in [Worker -> Steps]
  /\ mem \in [Worker -> Models]

(* A vote is counted only once the provider has taken the money for it:      *)
(* neither a webhook received before the reference is known nor a retry nor  *)
(* an error answer of the provider completes an unpaid vote.                 *)
CountedIsPaid ==
  \A v \in Vote : vote[v] = "completed" =>
    \E t \in Tx : tx[t].vote = v /\ charge[t] = "success"

Completed == {v \in Vote : vote[v] = "completed"}
Quiet == \A w \in Worker : pc[w] = "idle"

(* However many workers confirm the same vote at once, the voices given to   *)
(* candidates are those that the revenue counts, and no completed vote is    *)
(* left out of a counter.                                                    *)
CountersAgree ==
  Quiet => /\ tally = revenue
           /\ total >= Cardinality(Completed)
           /\ revenue >= FoldFunctionOnSet(+, 0, Quantity, Completed)

(* However often a payment is verified, notified and tried again, and        *)
(* whichever workers die on the way: a vote is counted once at most by each  *)
(* of the workers that were confirming it together, before any of them had   *)
(* completed it, and never by one that comes later.  Voices that a dead      *)
(* worker left out of the revenue are not the candidates' either.            *)
OvercountBounded ==
  LET together == Cardinality(Worker)
  IN  /\ total <= together * Cardinality(Completed)
      /\ revenue <= together * FoldFunctionOnSet(+, 0, Quantity, Completed)
      /\ tally <= revenue

(* PaymentStatus::isFinal: a completed transaction stays completed.          *)
CompletedIsFinal ==
  [][\A t \in Tx : tx[t].state = "completed" => tx'[t].state = "completed"]_vars

(* A transaction that the platform shows as failed has taken no money, and   *)
(* will not.                                                                 *)
FailedIsFree == \A t \in Tx : tx[t].state = "failed" => charge[t] \in {"none", "refused"}

(* A payment that was made ends up in a counted vote.                        *)
PaidIsCounted ==
  \A t \in Tx : charge[t] = "success" ~> (tx[t].state # "none" /\ vote[tx[t].vote] = "completed")
=============================================================================
