------------------------------- MODULE Results --------------------------------
(***************************************************************************)
(* The results of one election: ElectionService::end and                   *)
(* ResultController::calculate dispatch CalculateElectionResults on the    *)
(* redis queue; queue workers run it under a 60-second Cache::lock and     *)
(* recompute the results rows in one transaction, while votes whose        *)
(* request began before the closure, or whose payment arrives after it,    *)
(* are still being completed.                                              *)
(***************************************************************************)
EXTENDS PublishedResults, FiniteSets

CONSTANTS
  Job,        \* CalculateElectionResults jobs that may be dispatched
  Worker,     \* queue workers (supervisord.conf)
  MaxTries,   \* queue:work --tries
  MaxCrashes, \* bound: crashes of a process in a behaviour
  Slow,       \* a calculation may outlast the lock (60 s) and retry_after (90 s)
  None

ASSUME TriesAssumption == MaxTries \in Nat \ {0}
ASSUME CrashesAssumption == MaxCrashes \in Nat
ASSUME SlowAssumption == Slow \in BOOLEAN
ASSUME NoneAssumption == None \notin Job \cup Worker

VARIABLES
  status,    \* elections.status: "ongoing" or "closed"
  ending,    \* ElectionService::end is between close() and dispatch()
  vote,      \* vote[v]: votes.status; "begun" before its transaction commits
  job,       \* job[j]: its place in the queue and its number of attempts
  lock,      \* Redis key results_calculation_{election}: its owner
  pc, mem,   \* the next step of each worker; what it holds in memory
  crashes

vars == <<status, ending, vote, job, lock, rows, pc, mem, crashes>>

-----------------------------------------------------------------------------
Blank == [job |-> None, tries |-> 0, replaced |-> 0, of |-> [v \in Vote |-> "none"]]
InTransaction == {"delete", "blocked", "count", "insert", "commit"}
Init ==
  /\ status = "ongoing"
  /\ ending = FALSE
  /\ vote = [v \in Vote |-> "none"]
  /\ job = [j \in Job |-> [place |-> "none", tries |-> 0]]
  /\ lock = None
  /\ rows = NoRows
  /\ pc = [w \in Worker |-> "idle"]
  /\ mem = [w \in Worker |-> Blank]
  /\ crashes = 0

-----------------------------------------------------------------------------
(* Voters.  BeginVote is the is_votable check of submitPublic (or the        *)
(* pending vote of a paid election); CompleteVote is the commit of           *)
(* submitVote, or the payment that completes the vote.                       *)
BeginVote(v) ==
  /\ status = "ongoing" /\ vote[v] = "none"
  /\ vote' = [vote EXCEPT ![v] = "begun"]
  /\ UNCHANGED <<status, ending, job, lock, rows, pc, mem, crashes>>

CompleteVote(v) ==
  /\ vote[v] = "begun"
  /\ vote' = [vote EXCEPT ![v] = "completed"]
  /\ UNCHANGED <<status, ending, job, lock, rows, pc, mem, crashes>>

(* ProcessFraudDetection, queued by the vote.                                *)
FlagFraud(v) ==
  /\ vote[v] = "completed"
  /\ vote' = [vote EXCEPT ![v] = "fraud_suspected"]
  /\ UNCHANGED <<status, ending, job, lock, rows, pc, mem, crashes>>

-----------------------------------------------------------------------------
(* ElectionService::end: the status is saved, then the job is dispatched.    *)
End ==
  /\ status = "ongoing"
  /\ status' = "closed"
  /\ ending' = TRUE
  /\ UNCHANGED <<vote, job, lock, rows, pc, mem, crashes>>

Dispatch == \E j \in Job : /\ job[j].place = "none"
                           /\ job' = [job EXCEPT ![j].place = "ready"]

DispatchAtEnd ==
  /\ ending
  /\ Dispatch
  /\ ending' = FALSE
  /\ UNCHANGED <<status, vote, lock, rows, pc, mem, crashes>>

CrashAtEnd ==
  /\ ending /\ crashes < MaxCrashes
  /\ ending' = FALSE
  /\ crashes' = crashes + 1
  /\ UNCHANGED <<status, vote, job, lock, rows, pc, mem>>

(* ResultController::calculate, on the organiser's request.                  *)
Calculate ==
  /\ status = "closed" /\ ~ending
  /\ Dispatch
  /\ UNCHANGED <<status, ending, vote, lock, rows, pc, mem, crashes>>

-----------------------------------------------------------------------------
(* The queue worker.  A job is reserved with one more attempt; one that has  *)
(* used its attempts is failed without being run.                            *)
Take(w, j) ==
  /\ pc[w] = "idle" /\ job[j].place = "ready"
  /\ IF job[j].tries >= MaxTries
     THEN /\ job' = [job EXCEPT ![j].place = "failed"]
          /\ UNCHANGED <<pc, mem>>
     ELSE /\ job' = [job EXCEPT ![j] = [place |-> "reserved", tries |-> @.tries + 1]]
          /\ pc' = [pc EXCEPT ![w] = "lock"]
          /\ mem' = [mem EXCEPT ![w] = [Blank EXCEPT !.job = j, !.tries = job[j].tries + 1]]
  /\ UNCHANGED <<status, ending, vote, lock, rows, crashes>>

Free(w) == pc' = [pc EXCEPT ![w] = "idle"] /\ mem' = [mem EXCEPT ![w] = Blank]

(* The worker leaves the job, unless the queue has given it to another.      *)
Leave(w, place) ==
  /\ job' = IF job[mem[w].job] = [place |-> "reserved", tries |-> mem[w].tries]
            THEN [job EXCEPT ![mem[w].job].place = place] ELSE job
  /\ Free(w)

(* Cache::lock(...)->get(callback): when the lock is held, nothing is done   *)
(* and the job succeeds.                                                     *)
Lock(w) ==
  /\ pc[w] = "lock"
  /\ IF lock = None
     THEN /\ lock' = w
          /\ pc' = [pc EXCEPT ![w] = "delete"]
          /\ UNCHANGED <<job, mem>>
     ELSE Leave(w, "done") /\ UNCHANGED lock
  /\ UNCHANGED <<status, ending, vote, rows, crashes>>

(* The transaction of calculateResults.  DELETE removes the rows it sees when *)
(* it starts; it waits for an open transaction that deleted the same ones.   *)
HasDeleted(q) == /\ rows.made /\ mem[q].replaced = rows.generation
                 /\ pc[q] \in {"count", "insert", "commit"}

DeleteRows(w) ==
  /\ pc[w] = "delete"
  /\ mem' = [mem EXCEPT ![w].replaced = rows.generation]
  /\ pc' = [pc EXCEPT ![w] = IF \E q \in Worker : HasDeleted(q) THEN "blocked" ELSE "count"]
  /\ UNCHANGED <<status, ending, vote, job, lock, rows, crashes>>

Unblock(w) ==
  /\ pc[w] = "blocked"
  /\ ~\E q \in Worker : HasDeleted(q)
  /\ pc' = [pc EXCEPT ![w] = "count"]
  /\ UNCHANGED <<status, ending, vote, job, lock, rows, mem, crashes>>

(* voteAggregatesByCandidate (or loadBallots): one query.                    *)
CountVotes(w) ==
  /\ pc[w] = "count"
  /\ mem' = [mem EXCEPT ![w].of = vote]
  /\ pc' = [pc EXCEPT ![w] = "insert"]
  /\ UNCHANGED <<status, ending, vote, job, lock, rows, crashes>>

(* A mutant: the unique index is missing.                                    *)
InsertRows_Unchecked(w) ==
  /\ pc[w] = "insert"
  /\ pc' = [pc EXCEPT ![w] = "commit"]
  /\ UNCHANGED <<status, ending, vote, job, lock, rows, mem, crashes>>

(* Result::create: UNIQUE (election_id, candidate_id) waits for an open      *)
(* transaction that inserted the same rows, and fails if it committed: the   *)
(* lock is released, and the job is put back for another attempt.            *)
InsertRows(w) ==
  /\ pc[w] = "insert"
  /\ \A q \in Worker : pc[q] # "commit"
  /\ IF rows.generation = mem[w].replaced
     THEN /\ pc' = [pc EXCEPT ![w] = "commit"]
          /\ UNCHANGED <<job, lock, mem>>
     ELSE /\ Leave(w, "ready")
          /\ lock' = IF lock = w THEN None ELSE lock
  /\ UNCHANGED <<status, ending, vote, rows, crashes>>

Commit(w) ==
  /\ pc[w] = "commit"
  /\ rows' = [made |-> TRUE, of |-> mem[w].of, generation |-> rows.generation + 1]
  /\ lock' = IF lock = w THEN None ELSE lock
  /\ Leave(w, "done")
  /\ UNCHANGED <<status, ending, vote, crashes>>

(* The transaction of a worker that dies is rolled back; its lock and its    *)
(* reservation stay, until they expire.                                      *)
Crash(w) ==
  /\ pc[w] # "idle" /\ crashes < MaxCrashes
  /\ Free(w)
  /\ crashes' = crashes + 1
  /\ UNCHANGED <<status, ending, vote, job, lock, rows>>

-----------------------------------------------------------------------------
(* A mutant: a lock without an expiry.                                       *)
ExpireLock_Never == FALSE /\ UNCHANGED vars

(* 60 seconds: the owner is dead, or slow.                                   *)
ExpireLock ==
  /\ lock # None
  /\ Slow \/ pc[lock] \notin InTransaction
  /\ lock' = None
  /\ UNCHANGED <<status, ending, vote, job, rows, pc, mem, crashes>>

(* 90 seconds (retry_after) after the job was reserved: the lock that the    *)
(* same attempt took has expired.                                            *)
Redeliver(j) ==
  LET Runners == {w \in Worker : mem[w].job = j /\ mem[w].tries = job[j].tries}
  IN /\ job[j].place = "reserved"
     /\ \A w \in Runners : Slow /\ pc[w] \in InTransaction
     /\ lock # None => lock \notin Runners /\ pc[lock] \in InTransaction
     /\ job' = [job EXCEPT ![j].place = "ready"]
     /\ UNCHANGED <<status, ending, vote, lock, rows, pc, mem, crashes>>

-----------------------------------------------------------------------------
Work(w) == \/ \E j \in Job : Take(w, j)
           \/ Lock(w) \/ DeleteRows(w) \/ Unblock(w) \/ CountVotes(w) \/ InsertRows(w) \/ Commit(w)

Queue == ExpireLock \/ \E j \in Job : Redeliver(j)

Next == \/ \E v \in Vote : BeginVote(v) \/ CompleteVote(v) \/ FlagFraud(v)
        \/ End \/ DispatchAtEnd \/ CrashAtEnd \/ Calculate
        \/ \E w \in Worker : Work(w) \/ Crash(w)
        \/ Queue

Spec == Init /\ [][Next]_vars

(* The request that ends the election, the workers and the clocks of redis   *)
(* go on; voters and the organiser need not.                                 *)
FairSpec == /\ Spec
            /\ WF_vars(DispatchAtEnd)
            /\ \A w \in Worker : WF_vars(Work(w))
            /\ WF_vars(ExpireLock)
            /\ \A j \in Job : WF_vars(Redeliver(j))

-----------------------------------------------------------------------------
(* A requested calculation ends in published results: neither the crash of a *)
(* worker, nor the jobs skipped because the lock was held, nor a failed      *)
(* attempt leaves the closed election without.                               *)
RequestedGetsResults == (\E j \in Job : job[j].place = "ready") ~> rows.made

=============================================================================
