------------------------------- MODULE Voting -------------------------------
(***************************************************************************)
(* The public ballot of one election: VoteController::submitPublic and     *)
(* everything it calls (VoterFingerprintService, Elector::firstOrCreate,   *)
(* CreateVoteAction, VotingService::submitVote, Vote::markAsCompleted),    *)
(* executed by several PHP workers over one PostgreSQL database (READ      *)
(* COMMITTED) and one Redis cache.                                         *)
(*                                                                         *)
(* A request is a process.  Each of its steps is one database statement or *)
(* one cache call: what two requests can see of each other is decided by   *)
(* where those steps fall.  A row is named after the request that inserted *)
(* it, since a request inserts at most one elector and at most one vote.   *)
(***************************************************************************)
EXTENDS Naturals, FiniteSets

CONSTANTS
  Request,      \* HTTP requests that may be made
  Fingerprint,  \* voters, as VoterFingerprintService::resolve tells them apart
  Key,          \* idempotency keys chosen by the clients
  MaxVotes,     \* elections.max_votes_per_user
  Workers,      \* requests the PHP pool executes at once
  None          \* SQL NULL, a cache miss, an unset PHP variable

ASSUME RequestAssumption == IsFiniteSet(Request)
ASSUME MaxVotesAssumption == MaxVotes \in Nat \ {0}
ASSUME WorkersAssumption == Workers \in Nat \ {0}
ASSUME NoneAssumption == None \notin Request \cup Fingerprint \cup Key \cup Nat

VARIABLES
  paid,       \* elections.payment_type = 'paid' (and vote_price > 0)
  status,     \* elections.status, once the election has been started
  ended,      \* elections.end_at < now()
  total,      \* elections.total_votes, in a free election (VotePayment has the paid ones)
  elector,    \* elector[r]: fingerprint of the electors row inserted by r, or None
  has_voted,  \* electors.has_voted of that row
  vote,       \* vote[r]: the votes row inserted by r
  cache,      \* cache[f]: the Redis key vote_count_fp_{election}_{f}
  pc,         \* pc[r]: the next step of request r
  loc         \* loc[r]: the variables of the PHP call that executes r

election == <<paid, status, ended, total>>
vars == <<paid, status, ended, total, elector, has_voted, vote, cache, pc, loc>>

-----------------------------------------------------------------------------
Counted == {"completed", "fraud_suspected"}
Committed == {"pending"} \cup Counted

(* A vote is "none" until its INSERT and "inserted" while its transaction is *)
(* open; then state is the committed votes.status.                           *)
Row == [state : {"none", "inserted"} \cup Committed,
        elector : Request \cup {None}, seq : Nat, key : Key \cup {None}]
NoRow == [state |-> "none", elector |-> None, seq |-> 0, key |-> None]

Local == [fp : Fingerprint \cup {None}, key : Key \cup {None}, elector : Request \cup {None},
          round : {1, 2}, seen : Nat, seq : Nat, full : BOOLEAN]
NoLocal == [fp |-> None, key |-> None, elector |-> None,
            round |-> 1, seen |-> 0, seq |-> 0, full |-> FALSE]

Answered == {"answered", "refused", "lost"}
Steps == {"idle", "check", "put", "elector", "create", "execute", "count", "sequence",
          "insert", "complete", "commit", "mark", "markPut"} \cup Answered

Busy(r) == pc[r] \notin Answered \cup {"idle"}

VotesOf(e) == {r \in Request : vote[r].state \in Committed /\ vote[r].elector = e}

CompletedOf(e) == {r \in VotesOf(e) : vote[r].state = "completed"}

(* A mutant: the wrong status is counted.                                    *)
VotesUsed_Pending(e) == Cardinality({v \in VotesOf(e) : vote[v].state = "pending"})

VotesUsed(e) == Cardinality(CompletedOf(e))

(* A mutant: the vote being completed is forgotten.                          *)
IsExhausted_Before(e, own) == VotesUsed(e) >= MaxVotes

(* Elector::markAsVoted counts the completed votes: those that others have   *)
(* committed, and those (own) of its transaction.                            *)
IsExhausted(e, own) == VotesUsed(e) + own >= MaxVotes

Electors(f) == {e \in Request : elector[e] = f}

IsVotable == status = "ongoing" /\ ~ended

(* Elector::canVote re-reads the election through $elector->election: a      *)
(* pause or a closure since the request began is seen here, and only here.   *)
CanVote(e) == IsVotable /\ VotesUsed(e) < MaxVotes

-----------------------------------------------------------------------------
Init ==
  /\ paid \in BOOLEAN
  /\ status = "ongoing"
  /\ ended = FALSE
  /\ total = 0
  /\ elector = [r \in Request |-> None]
  /\ has_voted = [r \in Request |-> FALSE]
  /\ vote = [r \in Request |-> NoRow]
  /\ cache = [f \in Fingerprint |-> None]
  /\ pc = [r \in Request |-> "idle"]
  /\ loc = [r \in Request |-> NoLocal]

Goto(r, step) == pc' = [pc EXCEPT ![r] = step]

(* The response is sent: the PHP variables are gone.                         *)
Finish(r, outcome) == /\ Goto(r, outcome)
                      /\ loc' = [loc EXCEPT ![r] = NoLocal]

(* The rule unique:votes,idempotency_key of SubmitPublicVoteRequest.  The    *)
(* other rules are about the candidates; the key is required.                *)
KeyIsFree(k) == \A q \in Request : vote[q].state \in Committed => vote[q].key # k

(* A free worker takes the request; it is refused for a key already in       *)
(* votes, or an election that is not votable.                                *)
Receive(r) ==
  /\ pc[r] = "idle"
  /\ Cardinality({q \in Request : Busy(q)}) < Workers
  /\ \E f \in Fingerprint, k \in Key :
       IF IsVotable /\ KeyIsFree(k)
       THEN /\ Goto(r, "check")
            /\ loc' = [loc EXCEPT ![r] = [NoLocal EXCEPT !.fp = f, !.key = k]]
       ELSE Finish(r, "refused")
  /\ UNCHANGED <<election, elector, has_voted, vote, cache>>

(* hasAlreadyVoted is called twice: before and after the elector is fetched. *)
Decide(r, seen) ==
  IF seen >= MaxVotes THEN Finish(r, "refused")
  ELSE /\ Goto(r, IF loc[r].round = 1 THEN "elector" ELSE "execute")
       /\ UNCHANGED loc

(* Cache::has then Cache::get: a key that expires in between counts for 0.   *)
CheckCache(r) ==
  /\ pc[r] = "check"
  /\ cache[loc[r].fp] # None
  /\ \/ Decide(r, cache[loc[r].fp]) /\ UNCHANGED cache
     \/ Decide(r, 0) /\ cache' = [cache EXCEPT ![loc[r].fp] = None]
  /\ UNCHANGED <<election, elector, has_voted, vote>>

(* The slow path: no elector means no vote; else its completed votes (of any *)
(* one elector, when there are several) are counted, then cached by PutCache.*)
CheckDatabase(r) ==
  /\ pc[r] = "check"
  /\ cache[loc[r].fp] = None
  /\ \/ /\ Electors(loc[r].fp) = {}
        /\ Decide(r, 0)
     \/ \E e \in Electors(loc[r].fp) :
          /\ Goto(r, "put")
          /\ loc' = [loc EXCEPT ![r].seen = VotesUsed(e)]
  /\ UNCHANGED <<election, elector, has_voted, vote, cache>>

PutCache(r) ==
  /\ pc[r] = "put"
  /\ cache' = [cache EXCEPT ![loc[r].fp] = loc[r].seen]
  /\ Decide(r, loc[r].seen)
  /\ UNCHANGED <<election, elector, has_voted, vote>>

(* Elector::firstOrCreate: the SELECT, and in another statement the INSERT.  *)
FindElector(r) ==
  /\ pc[r] = "elector"
  /\ \/ /\ Electors(loc[r].fp) = {}
        /\ Goto(r, "create")
        /\ UNCHANGED loc
     \/ \E e \in Electors(loc[r].fp) :
          /\ Goto(r, "check")
          /\ loc' = [loc EXCEPT ![r].elector = e, ![r].round = 2]
  /\ UNCHANGED <<election, elector, has_voted, vote, cache>>

(* A mutant: the wrong column is filled.                                     *)
CreateElector_Misnamed(r) ==
  /\ pc[r] = "create"
  /\ elector' = [elector EXCEPT ![r] = r]
  /\ Goto(r, "check")
  /\ loc' = [loc EXCEPT ![r].elector = r, ![r].round = 2]
  /\ UNCHANGED <<election, has_voted, vote, cache>>

CreateElector(r) ==
  /\ pc[r] = "create"
  /\ elector' = [elector EXCEPT ![r] = loc[r].fp]
  /\ Goto(r, "check")
  /\ loc' = [loc EXCEPT ![r].elector = r, ![r].round = 2]
  /\ UNCHANGED <<election, has_voted, vote, cache>>

(* CreateVoteAction::execute up to the VoterSession row.                     *)
StartSession(r) ==
  /\ pc[r] = "execute"
  /\ IF CanVote(loc[r].elector) THEN Goto(r, "count") /\ UNCHANGED loc
                                ELSE Finish(r, "refused")
  /\ UNCHANGED <<election, elector, has_voted, vote, cache>>

-----------------------------------------------------------------------------
(* VotingService::submitVote, one statement of its transaction at a time.    *)
CountVotes(r) ==
  /\ pc[r] = "count"
  /\ IF VotesUsed(loc[r].elector) >= MaxVotes THEN Finish(r, "refused")
                                              ELSE Goto(r, "sequence") /\ UNCHANGED loc
  /\ UNCHANGED <<election, elector, has_voted, vote, cache>>

Sequences(e) == {vote[q].seq : q \in VotesOf(e)}

ReadSequence(r) ==
  /\ pc[r] = "sequence"
  /\ \E last \in Sequences(loc[r].elector) \cup {0} :
       /\ \A s \in Sequences(loc[r].elector) : s <= last
       /\ loc' = [loc EXCEPT ![r].seq = last + 1]
  /\ Goto(r, "insert")
  /\ UNCHANGED <<election, elector, has_voted, vote, cache>>

(* A mutant: one of the two unique indexes of votes is missing.              *)
Collides_OnKey(q, r) == vote[q].key = loc[r].key

(* The unique indexes of votes: (election, elector, vote_sequence) and       *)
(* idempotency_key.                                                          *)
Collides(q, r) ==
  \/ vote[q].elector = loc[r].elector /\ vote[q].seq = loc[r].seq
  \/ vote[q].key = loc[r].key

(* An INSERT waits for an open transaction that holds the same index entry;  *)
(* against a committed one it fails, and the request answers 500.            *)
InsertVote(r) ==
  /\ pc[r] = "insert"
  /\ \A q \in Request : vote[q].state = "inserted" => ~Collides(q, r)
  /\ IF \E q \in Request : vote[q].state \in Committed /\ Collides(q, r)
     THEN Finish(r, "refused") /\ UNCHANGED vote
     ELSE /\ vote' = [vote EXCEPT ![r] = [state |-> "inserted", elector |-> loc[r].elector,
                                          seq |-> loc[r].seq, key |-> loc[r].key]]
          /\ Goto(r, IF paid THEN "commit" ELSE "complete")
          /\ UNCHANGED loc
  /\ UNCHANGED <<election, elector, has_voted, cache>>

(* Vote::markAsCompleted inside the transaction.                             *)
CompleteVote(r) ==
  /\ pc[r] = "complete"
  /\ loc' = [loc EXCEPT ![r].full = IsExhausted(loc[r].elector, 1)]
  /\ Goto(r, "commit")
  /\ UNCHANGED <<election, elector, has_voted, vote, cache>>

Commit(r) ==
  /\ pc[r] = "commit"
  /\ vote' = [vote EXCEPT ![r].state = IF paid THEN "pending" ELSE "completed"]
  /\ total' = IF paid THEN total ELSE total + 1
  /\ has_voted' = [has_voted EXCEPT ![loc[r].elector] = @ \/ loc[r].full]
  /\ Goto(r, "mark")
  /\ UNCHANGED <<paid, status, ended, elector, cache, loc>>

(* An exception of the transaction (a candidate removed since validation, a  *)
(* lost connection): ROLLBACK, and the answer is 500.                        *)
Rollback(r) ==
  /\ pc[r] \in {"complete", "commit"}
  /\ vote' = [vote EXCEPT ![r] = NoRow]
  /\ Finish(r, "refused")
  /\ UNCHANGED <<election, elector, has_voted, cache>>

-----------------------------------------------------------------------------
(* VoterFingerprintService::markAsVoted: a get, then a put.                  *)
ReadMark(r) ==
  /\ pc[r] = "mark"
  /\ loc' = [loc EXCEPT ![r].seen = IF cache[loc[r].fp] = None THEN 0 ELSE cache[loc[r].fp]]
  /\ Goto(r, "markPut")
  /\ UNCHANGED <<election, elector, has_voted, vote, cache>>

PutMark(r) ==
  /\ pc[r] = "markPut"
  /\ cache' = [cache EXCEPT ![loc[r].fp] = loc[r].seen + 1]
  /\ Finish(r, "answered")
  /\ UNCHANGED <<election, elector, has_voted, vote>>

(* The worker dies: the connection closes and the open transaction with it.  *)
Crash(r) ==
  /\ Busy(r)
  /\ vote' = IF vote[r].state = "inserted" THEN [vote EXCEPT ![r] = NoRow] ELSE vote
  /\ Finish(r, "lost")
  /\ UNCHANGED <<election, elector, has_voted, cache>>

-----------------------------------------------------------------------------
(* The rest of the platform, as far as the ballot sees it.                   *)

(* Cache entries live five minutes.                                          *)
Expire(f) ==
  /\ cache[f] # None
  /\ cache' = [cache EXCEPT ![f] = None]
  /\ UNCHANGED <<election, elector, has_voted, vote, pc, loc>>

(* PaymentTransaction::markAsCompleted reaches Vote::markAsCompleted, in no  *)
(* transaction: the status is saved; later, if nothing fails, or twice when  *)
(* two workers confirm the vote, the elector is marked.  The counters that   *)
(* follow are those of VotePayment.                                          *)
ConfirmPayment(v) ==
  /\ paid /\ vote[v].state = "pending"
  /\ vote' = [vote EXCEPT ![v].state = "completed"]
  /\ UNCHANGED <<election, elector, has_voted, cache, pc, loc>>

MarkElector(v) ==
  /\ paid /\ vote[v].state = "completed"
  /\ has_voted' = [has_voted EXCEPT ![vote[v].elector] = @ \/ IsExhausted(vote[v].elector, 0)]
  /\ UNCHANGED <<election, elector, vote, cache, pc, loc>>

(* ProcessFraudDetection, queued after the commit of a free vote.  Its score *)
(* passes 0.7 only with the signals that need an earlier vote of the elector *)
(* (rapid_voting, unusual_location).                                         *)
FlagFraud(v) ==
  /\ ~paid
  /\ vote[v].state = "completed"
  /\ VotesOf(vote[v].elector) # {v}
  /\ vote' = [vote EXCEPT ![v].state = "fraud_suspected"]
  /\ UNCHANGED <<election, elector, has_voted, cache, pc, loc>>

(* ElectionService::pause, resume and end.                                   *)
Pause  == status = "ongoing" /\ status' = "paused"
Resume == status = "paused" /\ ~ended /\ status' = "ongoing"
Close  == status \in {"ongoing", "paused"} /\ status' = "closed"

Organise == /\ Pause \/ Resume \/ Close
            /\ UNCHANGED <<paid, ended, total, elector, has_voted, vote, cache, pc, loc>>

EndPasses == /\ ~ended
             /\ ended' = TRUE
             /\ UNCHANGED <<paid, status, total, elector, has_voted, vote, cache, pc, loc>>

-----------------------------------------------------------------------------
Serve(r) == \/ CheckCache(r) \/ CheckDatabase(r) \/ PutCache(r)
            \/ FindElector(r) \/ CreateElector(r) \/ StartSession(r)
            \/ CountVotes(r) \/ ReadSequence(r) \/ InsertVote(r)
            \/ CompleteVote(r) \/ Commit(r) \/ ReadMark(r) \/ PutMark(r)

Next == \/ \E r \in Request : Receive(r) \/ Serve(r) \/ Rollback(r) \/ Crash(r)
        \/ \E v \in Request : ConfirmPayment(v) \/ MarkElector(v) \/ FlagFraud(v)
        \/ \E f \in Fingerprint : Expire(f)
        \/ Organise
        \/ EndPasses

Spec == Init /\ [][Next]_vars

-----------------------------------------------------------------------------
TypeOK ==
  /\ paid \in BOOLEAN
  /\ status \in {"ongoing", "paused", "closed"}
  /\ ended \in BOOLEAN
  /\ total \in Nat
  /\ elector \in [Request -> Fingerprint \cup {None}]
  /\ has_voted \in [Request -> BOOLEAN]
  /\ vote \in [Request -> Row]
  /\ cache \in [Fingerprint -> Nat \cup {None}]
  /\ pc \in [Request -> Steps]
  /\ loc \in [Request -> Local]

(* The votes of an elector are numbered 1, 2, 3... in the order of their     *)
(* commits, without a gap or a repetition, although VotingService reads      *)
(* max(vote_sequence) without a lock: the unique index makes the loser of a  *)
(* race fail, and a rolled back vote leaves no hole behind it.               *)
SequencesContiguous ==
  \A v \in Request : vote[v].state \in Committed =>
    /\ \A w \in Request : (w # v /\ vote[w].state \in Committed /\ vote[w].elector = vote[v].elector)
                           => vote[w].seq # vote[v].seq
    /\ \A n \in 1 .. vote[v].seq :
         \E w \in VotesOf(vote[v].elector) : vote[w].seq = n

(* However a client repeats a request whose answer was lost, its             *)
(* idempotency_key is spent on one vote at most: the pre-check of            *)
(* SubmitPublicVoteRequest can be raced, the unique index cannot.            *)
OneVotePerKey ==
  \A v, w \in Request : (vote[v].state # "none" /\ vote[w].state # "none" /\ v # w)
                          => vote[v].key # vote[w].key

(* elections.total_votes of a free election is the number of votes that were *)
(* ever completed: no increment of Vote::markAsCompleted is lost, repeated,  *)
(* or kept by a transaction that rolled back.                                *)
TotalCountsVotes == ~paid => total = Cardinality({v \in Request : vote[v].state \in Counted})

(* electors.has_voted, which Elector::markAsVoted computes from a count that *)
(* cannot see other open transactions, is never set before the elector has   *)
(* used its votes; in a free election it is set as soon as it has.           *)
HasVotedExact ==
  \A e \in Request :
    /\ ~paid /\ Cardinality(CompletedOf(e)) >= MaxVotes => has_voted[e]
    /\ has_voted[e] => Cardinality({v \in VotesOf(e) : vote[v].state \in Counted}) >= MaxVotes

(* What the two counts of completed votes, and firstOrCreate, guarantee      *)
(* although nothing is locked: a fingerprint gets no more electors than the  *)
(* pool executes requests at once, and in a free election an elector exceeds *)
(* max_votes_per_user by no more than the other requests that the pool can   *)
(* hold between the count and the commit.                                    *)
OvershootBounded ==
  /\ \A f \in Fingerprint : Cardinality(Electors(f)) <= Workers
  /\ ~paid => \A e \in Request : Cardinality(CompletedOf(e)) <= MaxVotes + (Workers - 1)

(* A completed vote is never un-cast, renumbered or given to another         *)
(* elector, whatever is retried, rolled back or crashes later; it can only   *)
(* be flagged.                                                               *)
CompletedIsKept ==
  [][\A v \in Request : vote[v].state = "completed" =>
       vote'[v] \in {vote[v], [vote[v] EXCEPT !.state = "fraud_suspected"]}]_vars

-----------------------------------------------------------------------------
(* What the ballot looks like from outside: the committed rows.              *)
LedgerEntry(r) == IF vote[r].state \in Committed THEN vote[r] ELSE NoRow

Ledger == INSTANCE VoteLedger WITH Ballot <- Request, Elector <- Request, Free <- NoRow,
                                   ledger <- [r \in Request |-> LedgerEntry(r)]

(* However the statements of the workers interleave, fail, wait, are retried *)
(* or crash, the votes table behaves as the ledger that is promised: a vote  *)
(* appears whole, under the next number of its elector and a key not used,   *)
(* with the total, and is never taken back.                                  *)
ImplementsLedger == Ledger!Spec
=============================================================================
