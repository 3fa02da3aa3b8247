---------------------------- MODULE VotingProofs ----------------------------
(***************************************************************************)
(* Proofs about the public ballot, free or paid, for every set of requests,*)
(* voters and keys, every max_votes_per_user and every number of workers.  *)
(***************************************************************************)
EXTENDS Voting, FiniteSetTheorems, TLAPS

(* A transaction that has read max(vote_sequence).                           *)
Numbered(r) == pc[r] \in {"insert", "complete", "commit"}

(* What a request has established by the time it reaches each step.          *)
LocalsOK ==
  \A r \in Request :
    /\ Busy(r) => loc[r].fp \in Fingerprint /\ loc[r].key \in Key
    /\ (loc[r].round = 2 \/ pc[r] \in {"execute", "count", "sequence"} \/ Numbered(r))
         => loc[r].elector \in Request
    /\ Numbered(r) => loc[r].seq # 0

(* The inserted rows are those of the open transactions.                     *)
OpenRowsOK ==
  \A r \in Request :
    /\ vote[r].state = "inserted" <=> pc[r] \in {"complete", "commit"}
    /\ vote[r].state = "inserted" => /\ vote[r].elector = loc[r].elector
                                     /\ vote[r].seq = loc[r].seq
                                     /\ vote[r].key = loc[r].key
    /\ vote[r].state \in Committed => pc[r] \in {"mark", "markPut"} \cup Answered

(* The unique indexes hold of open and committed rows alike.                 *)
IndexesOK ==
  \A v, w \in Request : (vote[v].state # "none" /\ vote[w].state # "none" /\ v # w)
    => /\ vote[v].key # vote[w].key
       /\ vote[v].elector = vote[w].elector => vote[v].seq # vote[w].seq

(* Elector e has a committed vote numbered n.                                *)
Taken(e, n) == \E w \in Request : /\ vote[w].state \in Committed
                                  /\ vote[w].elector = e
                                  /\ vote[w].seq = n

(* Every number below one that was read, or committed, is taken.             *)
NumbersOK ==
  /\ \A r \in Request : Numbered(r) => \A n \in 1 .. (loc[r].seq - 1) : Taken(loc[r].elector, n)
  /\ \A v \in Request : vote[v].state \in Committed =>
       \A n \in 1 .. vote[v].seq : Taken(vote[v].elector, n)

IInv == TypeOK /\ LocalsOK /\ OpenRowsOK /\ IndexesOK /\ NumbersOK

-----------------------------------------------------------------------------
(* A count of completed votes is a number: requests are finitely many.       *)
LEMMA VotesUsedType == ASSUME NEW e PROVE VotesUsed(e) \in Nat
  <1>1. CompletedOf(e) \subseteq Request
    BY DEF CompletedOf, VotesOf
  <1>2. IsFiniteSet(CompletedOf(e))
    BY <1>1, RequestAssumption, FS_Subset
  <1> QED BY <1>2, FS_CardinalityType DEF VotesUsed

(* The initial state satisfies the inductive invariant.                      *)
LEMMA InitIInv == Init => IInv
  <1> SUFFICES ASSUME Init PROVE IInv
    OBVIOUS
  <1>1. TypeOK
    BY NoneAssumption DEF Init, TypeOK, NoRow, NoLocal, Row, Local, Steps, Committed, Counted
  <1>2. LocalsOK
    BY DEF Init, LocalsOK, Busy, Numbered, NoLocal, Answered
  <1>3. OpenRowsOK /\ IndexesOK /\ NumbersOK
    BY DEF Init, OpenRowsOK, IndexesOK, NumbersOK, Numbered, NoRow, Committed, Counted
  <1> QED BY <1>1, <1>2, <1>3 DEF IInv

(* Every step keeps the types and what each request has established.         *)
LEMMA LocalsStep == TypeOK /\ LocalsOK /\ [Next]_vars => TypeOK' /\ LocalsOK'
  <1> SUFFICES ASSUME TypeOK, LocalsOK, [Next]_vars PROVE TypeOK' /\ LocalsOK'
    OBVIOUS
  <1> USE DEF TypeOK, LocalsOK, election, Busy, Numbered, Goto, Steps, Answered
  <1>0. NoLocal \in Local /\ NoRow \in Row
    BY DEF NoLocal, NoRow, Local, Row
  <1>a. ASSUME NEW r \in Request, NEW outcome \in Answered, Finish(r, outcome)
        PROVE  pc' \in [Request -> Steps] /\ loc' \in [Request -> Local] /\ LocalsOK'
    BY <1>0, <1>a DEF NoLocal, Finish
  <1>b. ASSUME NEW r \in Request, NEW e \in Request, Goto(r, "check"), pc[r] \in {"elector", "create"},
               loc' = [loc EXCEPT ![r] = [loc[r] EXCEPT !.elector = e, !.round = 2]]
        PROVE  pc' \in [Request -> Steps] /\ loc' \in [Request -> Local] /\ LocalsOK'
    <2> DEFINE l == [loc[r] EXCEPT !.elector = e, !.round = 2]
    <2>1. loc[r] \in Local
      OBVIOUS
    <2>2. l \in Local /\ l.fp = loc[r].fp /\ l.key = loc[r].key /\ l.elector = e
      BY <2>1 DEF Local
    <2>3. loc' = [loc EXCEPT ![r] = l]
      BY <1>b
    <2> HIDE DEF l
    <2> QED BY <1>b, <2>2, <2>3
  <1>1. ASSUME NEW r \in Request, Receive(r) PROVE TypeOK' /\ LocalsOK'
    <2>1. CASE Finish(r, "refused")
      BY <1>a, <1>1, <2>1 DEF Receive
    <2>2. CASE \E f \in Fingerprint, k \in Key :
                 /\ Goto(r, "check")
                 /\ loc' = [loc EXCEPT ![r] = [NoLocal EXCEPT !.fp = f, !.key = k]]
      <3>1. PICK f \in Fingerprint, k \in Key :
              /\ Goto(r, "check")
              /\ loc' = [loc EXCEPT ![r] = [NoLocal EXCEPT !.fp = f, !.key = k]]
        BY <2>2
      <3>2. [NoLocal EXCEPT !.fp = f, !.key = k] \in Local
        BY DEF NoLocal, Local
      <3> QED BY <1>1, <3>1, <3>2 DEF Receive, NoLocal
    <2> QED BY <1>1, <2>1, <2>2 DEF Receive
  <1>2. ASSUME NEW r \in Request, NEW n \in Nat, Decide(r, n), pc[r] \in {"check", "put"}
        PROVE  /\ pc' \in [Request -> Steps] /\ loc' \in [Request -> Local] /\ LocalsOK'
    <2>1. CASE n >= MaxVotes
      BY <1>a, <1>2, <2>1 DEF Decide
    <2>2. CASE ~ n >= MaxVotes
      <3>1. Goto(r, IF loc[r].round = 1 THEN "elector" ELSE "execute") /\ loc' = loc
        BY <1>2, <2>2 DEF Decide
      <3>2. loc[r].round \in {1, 2}
        BY DEF Local
      <3> QED BY <1>2, <3>1, <3>2
    <2> QED BY <2>1, <2>2
  <1>3. ASSUME NEW r \in Request, CheckCache(r) PROVE TypeOK' /\ LocalsOK'
    <2>1. loc[r].fp \in Fingerprint /\ cache[loc[r].fp] \in Nat
      BY <1>3 DEF CheckCache
    <2> QED BY <1>2, <1>3, <2>1 DEF CheckCache
  <1>4. ASSUME NEW r \in Request, CheckDatabase(r) PROVE TypeOK' /\ LocalsOK'
    <2>1. CASE Decide(r, 0)
      BY <1>2, <1>4, <2>1 DEF CheckDatabase
    <2>2. CASE \E e \in Electors(loc[r].fp) : Goto(r, "put") /\ loc' = [loc EXCEPT ![r].seen = VotesUsed(e)]
      BY <1>4, <2>2, VotesUsedType DEF CheckDatabase, Local
    <2> QED BY <1>4, <2>1, <2>2 DEF CheckDatabase
  <1>5. ASSUME NEW r \in Request, PutCache(r) PROVE TypeOK' /\ LocalsOK'
    <2>1. loc[r].seen \in Nat
      BY DEF Local
    <2> QED BY <1>2, <1>5, <2>1 DEF PutCache
  <1>6. ASSUME NEW r \in Request, FindElector(r) PROVE TypeOK' /\ LocalsOK'
    <2>1. CASE Electors(loc[r].fp) = {} /\ Goto(r, "create") /\ UNCHANGED loc
      BY <1>6, <2>1 DEF FindElector, Local
    <2>2. CASE \E e \in Electors(loc[r].fp) :
                 /\ Goto(r, "check")
                 /\ loc' = [loc EXCEPT ![r].elector = e, ![r].round = 2]
      <3>1. PICK e \in Request :
              /\ Goto(r, "check")
              /\ loc' = [loc EXCEPT ![r].elector = e, ![r].round = 2]
        BY <2>2 DEF Electors
      <3>2. loc' = [loc EXCEPT ![r] = [loc[r] EXCEPT !.elector = e, !.round = 2]]
        BY <3>1
      <3> QED BY <1>6, <1>b, <3>1, <3>2 DEF FindElector
    <2> QED BY <1>6, <2>1, <2>2 DEF FindElector
  <1>7. ASSUME NEW r \in Request, CreateElector(r) PROVE TypeOK' /\ LocalsOK'
    <2>1. loc' = [loc EXCEPT ![r] = [loc[r] EXCEPT !.elector = r, !.round = 2]]
      BY <1>7 DEF CreateElector
    <2> QED BY <1>7, <1>b, <2>1 DEF CreateElector
  <1>8. ASSUME NEW r \in Request, StartSession(r) PROVE TypeOK' /\ LocalsOK'
    BY <1>0, <1>a, <1>8 DEF StartSession
  <1>9. ASSUME NEW r \in Request, CountVotes(r) PROVE TypeOK' /\ LocalsOK'
    BY <1>0, <1>a, <1>9 DEF CountVotes
  <1>10. ASSUME NEW r \in Request, ReadSequence(r) PROVE TypeOK' /\ LocalsOK'
    <2>1. Sequences(loc[r].elector) \cup {0} \subseteq Nat
      BY DEF Sequences, VotesOf, Row
    <2> QED BY <1>10, <2>1 DEF ReadSequence, Local
  <1>11. ASSUME NEW r \in Request, InsertVote(r) PROVE TypeOK' /\ LocalsOK'
    <2>1. [state |-> "inserted", elector |-> loc[r].elector,
           seq |-> loc[r].seq, key |-> loc[r].key] \in Row
      BY DEF Local, Row
    <2> QED BY <1>a, <1>11, <2>1 DEF InsertVote
  <1>12. ASSUME NEW r \in Request, CompleteVote(r) PROVE TypeOK' /\ LocalsOK'
    <2> DEFINE full == IsExhausted(loc[r].elector, 1)
    <2>1. loc' = [loc EXCEPT ![r].full = full]
      BY <1>12 DEF CompleteVote
    <2>2. full \in BOOLEAN
      BY DEF IsExhausted
    <2> HIDE DEF full
    <2> QED BY <1>12, <2>1, <2>2 DEF CompleteVote, Local
  <1>13. ASSUME NEW r \in Request, Commit(r) PROVE TypeOK' /\ LocalsOK'
    BY <1>13 DEF Commit, Row, Committed, Counted, Local
  <1>14. ASSUME NEW r \in Request, Rollback(r) PROVE TypeOK' /\ LocalsOK'
    BY <1>0, <1>a, <1>14 DEF Rollback
  <1>15. ASSUME NEW r \in Request, ReadMark(r) PROVE TypeOK' /\ LocalsOK'
    BY <1>15 DEF ReadMark, Local
  <1>16. ASSUME NEW r \in Request, PutMark(r) PROVE TypeOK' /\ LocalsOK'
    BY <1>a, <1>16 DEF PutMark, Local
  <1>17. ASSUME NEW r \in Request, Crash(r) PROVE TypeOK' /\ LocalsOK'
    BY <1>0, <1>a, <1>17 DEF Crash
  <1>18. ASSUME NEW v \in Request, MarkElector(v) PROVE TypeOK' /\ LocalsOK'
    <2> DEFINE e == vote[v].elector
               voted == has_voted[e] \/ IsExhausted(e, 0)
    <2>1. has_voted' = [has_voted EXCEPT ![e] = voted]
      BY <1>18 DEF MarkElector
    <2>2. voted \in BOOLEAN
      BY DEF IsExhausted
    <2> HIDE DEF voted
    <2>3. has_voted' \in [Request -> BOOLEAN]
      BY <2>1, <2>2
    <2> QED BY <1>18, <2>3 DEF MarkElector
  <1>19. ASSUME NEW v \in Request, ConfirmPayment(v) \/ FlagFraud(v) PROVE TypeOK' /\ LocalsOK'
    <2>1. \E s \in Counted : vote' = [vote EXCEPT ![v].state = s]
      BY <1>19 DEF ConfirmPayment, FlagFraud, Counted
    <2>2. vote' \in [Request -> Row]
      BY <2>1 DEF Row, Committed
    <2>3. UNCHANGED <<paid, status, ended, total, elector, has_voted, cache, pc, loc>>
      BY <1>19 DEF ConfirmPayment, FlagFraud
    <2> QED BY <2>2, <2>3
  <1>20. CASE \E f \in Fingerprint : Expire(f)
    BY <1>20 DEF Expire
  <1>21. CASE Organise \/ EndPasses
    BY <1>21 DEF Organise, EndPasses, Pause, Resume, Close
  <1>22. CASE UNCHANGED vars
    BY <1>22 DEF vars
  <1> QED
    BY <1>1, <1>3, <1>4, <1>5, <1>6, <1>7, <1>8, <1>9, <1>10, <1>11, <1>12, <1>13, <1>14,
       <1>15, <1>16, <1>17, <1>18, <1>19, <1>20, <1>21, <1>22 DEF Next, Serve

(* A step of a request that inserts or commits nothing, seen by the rows.    *)
Quiet(r) ==
  /\ UNCHANGED vote
  /\ \A q \in Request \ {r} : pc'[q] = pc[q] /\ loc'[q] = loc[q]
  /\ pc[r] \notin {"insert", "complete", "commit"}
  /\ \/ pc'[r] \notin {"insert", "complete", "commit"}
     \/ /\ pc'[r] = "insert"
        /\ \A n \in 1 .. (loc'[r].seq - 1) : Taken(loc'[r].elector, n)
  /\ pc[r] \in {"mark", "markPut"} \cup Answered => pc'[r] \in {"mark", "markPut"} \cup Answered

(* The steps of a request other than its INSERT, its completion and its      *)
(* commit are quiet.                                                         *)
LEMMA ServeQuiet ==
  ASSUME IInv, NEW r \in Request,
         Receive(r) \/ CheckCache(r) \/ CheckDatabase(r) \/ PutCache(r) \/ FindElector(r)
           \/ CreateElector(r) \/ StartSession(r) \/ CountVotes(r) \/ ReadSequence(r)
           \/ ReadMark(r) \/ PutMark(r)
  PROVE  Quiet(r)
  <1> USE DEF IInv, TypeOK, Finish, Goto, Quiet, Answered
  <1>1. CASE Receive(r)
    BY <1>1 DEF Receive
  <1>2. CASE CheckCache(r)
    BY <1>2 DEF CheckCache, Decide
  <1>3. CASE CheckDatabase(r)
    BY <1>3 DEF CheckDatabase, Decide
  <1>4. CASE PutCache(r)
    BY <1>4 DEF PutCache, Decide
  <1>5. CASE FindElector(r) \/ CreateElector(r)
    BY <1>5 DEF FindElector, CreateElector
  <1>6. CASE StartSession(r) \/ CountVotes(r)
    BY <1>6 DEF StartSession, CountVotes
  <1>7. CASE ReadSequence(r)
    <2> DEFINE e == loc[r].elector
    <2>1. PICK last \in Sequences(e) \cup {0} :
            /\ \A s \in Sequences(e) : s <= last
            /\ loc' = [loc EXCEPT ![r].seq = last + 1]
      BY <1>7 DEF ReadSequence
    <2>2. last \in Nat
      BY <2>1 DEF Sequences, VotesOf, Row
    <2>3. loc'[r].seq - 1 = last /\ loc'[r].elector = e
      BY <2>1, <2>2 DEF Local
    <2>4. \A n \in 1 .. last : Taken(e, n)
      <3>1. CASE last = 0
        BY <3>1
      <3>2. CASE last \in Sequences(e)
        BY <3>2 DEF Sequences, VotesOf, NumbersOK
      <3> QED BY <2>1, <3>1, <3>2
    <2> QED BY <1>7, <2>1, <2>3, <2>4 DEF ReadSequence
  <1>8. CASE ReadMark(r) \/ PutMark(r)
    BY <1>8 DEF ReadMark, PutMark
  <1> QED BY <1>1, <1>2, <1>3, <1>4, <1>5, <1>6, <1>7, <1>8

(* A step that keeps committed votes, with their elector and number, keeps   *)
(* the numbers taken.                                                        *)
Keeps == \A w \in Request : vote[w].state \in Committed =>
           /\ vote'[w].state \in Committed
           /\ vote'[w].elector = vote[w].elector
           /\ vote'[w].seq = vote[w].seq

(* A number once taken stays taken while committed rows are kept.            *)
LEMMA KeepsTaken == ASSUME Keeps PROVE \A e, n : Taken(e, n) => Taken(e, n)'
  BY DEF Keeps, Taken

(* The rows and the numbers already committed or read survive a quiet step.  *)
LEMMA QuietStep ==
  ASSUME IInv, NEW r \in Request, Quiet(r)
  PROVE  OpenRowsOK' /\ IndexesOK' /\ NumbersOK'
  <1> USE DEF IInv, Quiet
  <1>1. \A e, n : Taken(e, n) => Taken(e, n)'
    BY KeepsTaken DEF Keeps
  <1>2. OpenRowsOK'
    BY DEF OpenRowsOK
  <1>3. IndexesOK'
    BY DEF IndexesOK
  <1>4. NumbersOK'
    BY <1>1 DEF NumbersOK, Numbered
  <1> QED BY <1>2, <1>3, <1>4

(* The INSERT of a vote: the indexes admit it, and its number follows those  *)
(* that are taken.                                                           *)
LEMMA InsertStep ==
  ASSUME IInv, NEW r \in Request, InsertVote(r)
  PROVE  OpenRowsOK' /\ IndexesOK' /\ NumbersOK'
  <1> USE DEF IInv, TypeOK, Goto
  <1>0. vote[r].state = "none" /\ pc[r] = "insert"
    BY DEF InsertVote, OpenRowsOK, Row, Answered
  <1>1. CASE UNCHANGED vote
    <2>1. Finish(r, "refused")
      BY <1>0, <1>1 DEF InsertVote, Row
    <2>2. \A e, n : Taken(e, n) => Taken(e, n)'
      BY <1>1, KeepsTaken DEF Keeps
    <2>3. \A q \in Request \ {r} : pc'[q] = pc[q] /\ loc'[q] = loc[q]
      BY <2>1 DEF Finish
    <2>4. pc'[r] = "refused"
      BY <2>1 DEF Finish
    <2> QED BY <1>0, <1>1, <2>2, <2>3, <2>4 DEF OpenRowsOK, IndexesOK, NumbersOK, Numbered, Answered
  <1>2. CASE vote' # vote
    <2> DEFINE row == [state |-> "inserted", elector |-> loc[r].elector,
                       seq |-> loc[r].seq, key |-> loc[r].key]
    <2>1. /\ vote' = [vote EXCEPT ![r] = row]
          /\ loc' = loc
          /\ pc' = [pc EXCEPT ![r] = IF paid THEN "commit" ELSE "complete"]
          /\ \A q \in Request : vote[q].state \in {"inserted"} \cup Committed => ~Collides(q, r)
      BY <1>2 DEF InsertVote
    <2>3. OpenRowsOK'
      BY <1>0, <2>1 DEF OpenRowsOK, Committed, Counted, Answered
    <2>4. IndexesOK'
      BY <1>0, <2>1 DEF IndexesOK, Collides, Row
    <2>5. \A q \in Request : Numbered(q)' => Numbered(q)
      BY <1>0, <2>1 DEF Numbered
    <2>6. \A w \in Request : w # r => vote'[w] = vote[w]
      BY <2>1
    <2>7. NumbersOK'
      <3>1. Keeps
        BY <1>0, <2>6 DEF Keeps, Committed, Counted
      <3>2. \A w \in Request : vote'[w].state \in Committed => vote[w].state \in Committed /\ vote'[w] = vote[w]
        BY <2>1, <2>6 DEF Committed, Counted
      <3> QED BY <2>1, <2>5, <3>1, <3>2, KeepsTaken DEF NumbersOK
    <2> QED BY <2>3, <2>4, <2>7
  <1> QED BY <1>1, <1>2

(* Vote::markAsCompleted inside the transaction touches no row.              *)
LEMMA CompleteStep ==
  ASSUME IInv, NEW r \in Request, CompleteVote(r)
  PROVE  OpenRowsOK' /\ IndexesOK' /\ NumbersOK'
  <1> USE DEF IInv, TypeOK, Goto
  <1>1. /\ UNCHANGED vote
        /\ pc[r] = "complete"
        /\ pc' = [pc EXCEPT ![r] = "commit"]
        /\ \A q \in Request : /\ loc'[q].seq = loc[q].seq
                              /\ loc'[q].elector = loc[q].elector
                              /\ loc'[q].key = loc[q].key
    BY DEF CompleteVote, Local
  <1>2. \A e, n : Taken(e, n) => Taken(e, n)'
    BY <1>1, KeepsTaken DEF Keeps
  <1> QED BY <1>1, <1>2 DEF OpenRowsOK, IndexesOK, NumbersOK, Numbered, Answered, Committed, Counted

(* The COMMIT turns the inserted row into a committed one, whose number is   *)
(* the next.                                                                 *)
LEMMA CommitStep ==
  ASSUME IInv, NEW r \in Request, Commit(r)
  PROVE  OpenRowsOK' /\ IndexesOK' /\ NumbersOK'
  <1> USE DEF IInv, TypeOK, Goto
  <1>1. /\ pc[r] = "commit" /\ pc' = [pc EXCEPT ![r] = "mark"] /\ loc' = loc
        /\ vote[r].state = "inserted" /\ vote[r].elector = loc[r].elector /\ vote[r].seq = loc[r].seq
    BY DEF Commit, OpenRowsOK
  <1>2. /\ vote'[r].state \in Committed /\ vote'[r].elector = vote[r].elector
        /\ vote'[r].seq = vote[r].seq /\ vote'[r].key = vote[r].key
        /\ \A w \in Request : w # r => vote'[w] = vote[w]
    BY DEF Commit, Row, Committed, Counted
  <1>3. Keeps
    BY <1>2 DEF Keeps
  <1>4. OpenRowsOK'
    BY <1>1, <1>2 DEF OpenRowsOK, Committed, Counted
  <1>5. IndexesOK'
    BY <1>1, <1>2 DEF IndexesOK
  <1>6. \A q \in Request : Numbered(q)' => Numbered(q)
    BY <1>1 DEF Numbered
  <1>7. ASSUME NEW v \in Request, vote'[v].state \in Committed, NEW n \in 1 .. vote'[v].seq
        PROVE  Taken(vote[v].elector, n)'
    <2>1. CASE v # r
      BY <1>2, <1>3, <1>7, <2>1, KeepsTaken DEF NumbersOK
    <2>2. CASE v = r /\ n = vote[r].seq
      BY <1>2, <2>2 DEF Taken
    <2>3. CASE v = r /\ n # vote[r].seq
      <3>0. vote[r].seq \in Nat /\ n \in 1 .. vote[r].seq
        BY <1>2, <1>7, <2>3 DEF Row
      <3>1. n \in 1 .. (loc[r].seq - 1)
        BY <1>1, <2>3, <3>0
      <3>2. Taken(loc[r].elector, n)
        BY <1>1, <3>1 DEF NumbersOK, Numbered
      <3> QED BY <1>1, <1>2, <1>3, <2>3, <3>2, KeepsTaken
    <2> QED BY <2>1, <2>2, <2>3
  <1>8. NumbersOK'
    BY <1>1, <1>3, <1>6, <1>7, KeepsTaken DEF NumbersOK
  <1> QED BY <1>4, <1>5, <1>8

(* A rollback or a crash withdraws an inserted row and no committed one, so  *)
(* that no number that was read is given back.                               *)
LEMMA AbandonStep ==
  ASSUME IInv, NEW r \in Request, Rollback(r) \/ Crash(r)
  PROVE  OpenRowsOK' /\ IndexesOK' /\ NumbersOK'
  <1> USE DEF IInv, TypeOK
  <1>1. /\ pc'[r] \in Answered
        /\ \A q \in Request : q # r => pc'[q] = pc[q] /\ loc'[q] = loc[q]
    BY DEF Rollback, Crash, Finish, Goto, Answered
  <1>2. /\ \A q \in Request : q # r => vote'[q] = vote[q]
        /\ vote'[r] = IF vote[r].state = "inserted" THEN NoRow ELSE vote[r]
    BY DEF Rollback, Crash, OpenRowsOK
  <1>3. Keeps
    BY <1>2 DEF Keeps, Committed, Counted
  <1>4. OpenRowsOK'
    BY <1>1, <1>2 DEF OpenRowsOK, NoRow, Committed, Counted, Answered
  <1>5. IndexesOK'
    BY <1>2 DEF IndexesOK, NoRow
  <1>6. \A v \in Request : vote'[v].state \in Committed => vote[v] = vote'[v] /\ vote[v].state \in Committed
    BY <1>2 DEF NoRow, Committed, Counted
  <1>7. NumbersOK'
    BY <1>1, <1>3, <1>6, KeepsTaken DEF NumbersOK, Numbered, Answered
  <1> QED BY <1>4, <1>5, <1>7

(* A payment that completes a vote, or a fraud flag, changes its status only.*)
LEMMA RestateStep ==
  ASSUME IInv, NEW v \in Request, ConfirmPayment(v) \/ FlagFraud(v)
  PROVE  OpenRowsOK' /\ IndexesOK' /\ NumbersOK'
  <1> USE DEF IInv, TypeOK
  <1>1. /\ vote[v].state \in Committed /\ vote'[v].state \in Committed
        /\ vote'[v].elector = vote[v].elector /\ vote'[v].seq = vote[v].seq
        /\ vote'[v].key = vote[v].key
        /\ \A w \in Request : w # v => vote'[w] = vote[w]
        /\ pc' = pc /\ loc' = loc
    BY DEF ConfirmPayment, FlagFraud, Row, Committed, Counted
  <1>2. Keeps
    BY <1>1 DEF Keeps
  <1>3. OpenRowsOK'
    BY <1>1 DEF OpenRowsOK, Committed, Counted
  <1>4. IndexesOK'
    BY <1>1 DEF IndexesOK, Committed, Counted
  <1>5. \A q \in Request : vote'[q].state \in Committed =>
          vote[q].state \in Committed /\ vote'[q].seq = vote[q].seq /\ vote'[q].elector = vote[q].elector
    BY <1>1
  <1>6. NumbersOK'
    BY <1>1, <1>2, <1>5, KeepsTaken DEF NumbersOK, Numbered
  <1> QED BY <1>3, <1>4, <1>6

(* Every step keeps the inductive invariant.                                 *)
LEMMA NextIInv == IInv /\ [Next]_vars => IInv'
  <1> SUFFICES ASSUME IInv, [Next]_vars PROVE IInv'
    OBVIOUS
  <1>1. TypeOK' /\ LocalsOK'
    BY LocalsStep DEF IInv
  <1>2. ASSUME UNCHANGED <<vote, pc, loc>> PROVE OpenRowsOK' /\ IndexesOK' /\ NumbersOK'
    BY <1>2 DEF IInv, OpenRowsOK, IndexesOK, NumbersOK, Numbered, Taken
  <1>3. ASSUME NEW r \in Request, Receive(r) \/ Serve(r) \/ Rollback(r) \/ Crash(r)
        PROVE  OpenRowsOK' /\ IndexesOK' /\ NumbersOK'
    <2>1. CASE InsertVote(r) \/ CompleteVote(r) \/ Commit(r)
      BY <2>1, InsertStep, CompleteStep, CommitStep
    <2>2. CASE Rollback(r) \/ Crash(r)
      BY <2>2, AbandonStep
    <2>3. CASE ~(InsertVote(r) \/ CompleteVote(r) \/ Commit(r) \/ Rollback(r) \/ Crash(r))
      <3>1. Quiet(r)
        BY <1>3, <2>3, ServeQuiet DEF Serve
      <3> QED BY <3>1, QuietStep
    <2> QED BY <2>1, <2>2, <2>3
  <1>4. ASSUME NEW v \in Request, ConfirmPayment(v) \/ MarkElector(v) \/ FlagFraud(v)
        PROVE  OpenRowsOK' /\ IndexesOK' /\ NumbersOK'
    <2>1. CASE ConfirmPayment(v) \/ FlagFraud(v)
      BY <2>1, RestateStep
    <2>2. CASE MarkElector(v)
      BY <1>2, <2>2 DEF MarkElector
    <2> QED BY <1>4, <2>1, <2>2
  <1>5. CASE (\E f \in Fingerprint : Expire(f)) \/ Organise \/ EndPasses \/ UNCHANGED vars
    <2>1. UNCHANGED <<vote, pc, loc>>
      BY <1>5 DEF Expire, Organise, EndPasses, vars
    <2> QED BY <1>1, <1>2, <2>1 DEF IInv
  <1> QED BY <1>1, <1>3, <1>4, <1>5 DEF IInv, Next

(* What the unique indexes, the open transactions and the numbers read by    *)
(* VotingService::submitVote have in common at every instant.                *)
THEOREM InductiveInvariant == Spec => []IInv
  BY InitIInv, NextIInv, PTL DEF Spec

-----------------------------------------------------------------------------
(* Every variable of the ballot keeps its type.                              *)
THEOREM TypeCorrect == Spec => []TypeOK
  <1>1. IInv => TypeOK
    BY DEF IInv
  <1> QED BY <1>1, InductiveInvariant, PTL

(* Votes of an elector are numbered without a gap or a repetition, however   *)
(* many workers race for the next number.                                    *)
THEOREM NumberingIsContiguous == Spec => []SequencesContiguous
  <1>1. IInv => SequencesContiguous
    <2> SUFFICES ASSUME IInv, NEW v \in Request, vote[v].state \in Committed
                 PROVE  /\ \A w \in Request : (w # v /\ vote[w].state \in Committed
                                               /\ vote[w].elector = vote[v].elector)
                                              => vote[w].seq # vote[v].seq
                        /\ \A n \in 1 .. vote[v].seq :
                             \E w \in VotesOf(vote[v].elector) : vote[w].seq = n
      BY DEF SequencesContiguous
    <2>1. \A w \in Request : (w # v /\ vote[w].state \in Committed /\ vote[w].elector = vote[v].elector)
                             => vote[w].seq # vote[v].seq
      BY DEF IInv, IndexesOK, Committed, Counted
    <2>2. \A n \in 1 .. vote[v].seq : \E w \in VotesOf(vote[v].elector) : vote[w].seq = n
      BY DEF IInv, NumbersOK, Taken, VotesOf
    <2> QED BY <2>1, <2>2
  <1> QED BY <1>1, InductiveInvariant, PTL

(* An idempotency key is spent on at most one vote.                          *)
THEOREM KeysAreSpentOnce == Spec => []OneVotePerKey
  <1>1. IInv => OneVotePerKey
    BY DEF IInv, IndexesOK, OneVotePerKey
  <1> QED BY <1>1, InductiveInvariant, PTL

(* No step changes whether the election is paid.                             *)
LEMMA PaidStays == ASSUME [Next]_vars PROVE paid' = paid
  <1> USE DEF election
  <1>1. ASSUME NEW r \in Request, Receive(r) \/ Serve(r) \/ Rollback(r) \/ Crash(r)
        PROVE  paid' = paid
    BY <1>1 DEF Serve, Receive, CheckCache, CheckDatabase, PutCache, FindElector, CreateElector,
                StartSession, CountVotes, ReadSequence, InsertVote, CompleteVote, Commit, ReadMark,
                PutMark, Rollback, Crash
  <1>2. ASSUME NEW v \in Request, ConfirmPayment(v) \/ MarkElector(v) \/ FlagFraud(v)
        PROVE  paid' = paid
    BY <1>2 DEF ConfirmPayment, MarkElector, FlagFraud
  <1>3. ASSUME (\E f \in Fingerprint : Expire(f)) \/ Organise \/ EndPasses \/ UNCHANGED vars
        PROVE  paid' = paid
    BY <1>3 DEF Expire, Organise, EndPasses, vars
  <1> QED BY <1>1, <1>2, <1>3 DEF Next

CountedVotes == {v \in Request : vote[v].state \in Counted}

(* In a free election, a step counts no new vote, or one, and increments the *)
(* total as often.                                                           *)
LEMMA CountedStep ==
  ASSUME IInv, ~paid, [Next]_vars
  PROVE  \/ CountedVotes' = CountedVotes /\ total' = total
         \/ \E v \in Request \ CountedVotes : /\ CountedVotes' = CountedVotes \cup {v}
                                              /\ total' = total + 1
  <1> USE DEF IInv, TypeOK, CountedVotes, Counted, Committed, election
  <1>1. ASSUME NEW v \in Request, MarkElector(v) PROVE CountedVotes' = CountedVotes /\ total' = total
    BY <1>1 DEF MarkElector
  <1>2. ASSUME NEW r \in Request, Commit(r)
        PROVE  r \notin CountedVotes /\ CountedVotes' = CountedVotes \cup {r} /\ total' = total + 1
    <2>1. vote[r].state = "inserted"
      BY <1>2 DEF Commit, OpenRowsOK
    <2>2. vote' = [vote EXCEPT ![r].state = "completed"] /\ total' = total + 1
      BY <1>2 DEF Commit
    <2> QED BY <2>1, <2>2 DEF Row
  <1>3. ASSUME NEW r \in Request, InsertVote(r) PROVE CountedVotes' = CountedVotes /\ total' = total
    <2>1. vote[r].state \notin Counted
      BY <1>3 DEF InsertVote, OpenRowsOK, Answered
    <2>2. /\ \A q \in Request : q # r => vote'[q] = vote[q]
          /\ vote'[r] = vote[r] \/ vote'[r].state = "inserted"
          /\ total' = total
      BY <1>3 DEF InsertVote
    <2> QED BY <2>1, <2>2
  <1>4. ASSUME NEW r \in Request, Rollback(r) \/ Crash(r)
        PROVE  CountedVotes' = CountedVotes /\ total' = total
    BY <1>4 DEF Rollback, Crash, OpenRowsOK, NoRow
  <1>5. ASSUME NEW r \in Request, Receive(r) \/ Serve(r), ~InsertVote(r), ~Commit(r)
        PROVE  CountedVotes' = CountedVotes /\ total' = total
    <2>1. UNCHANGED <<vote, total>>
      BY <1>5 DEF Serve, Receive, CheckCache, CheckDatabase, PutCache, FindElector, CreateElector,
                  StartSession, CountVotes, ReadSequence, CompleteVote, ReadMark, PutMark
    <2> QED BY <2>1
  <1>6. \A v \in Request : ~ConfirmPayment(v)
    BY DEF ConfirmPayment
  <1>7. ASSUME NEW v \in Request, FlagFraud(v) PROVE CountedVotes' = CountedVotes /\ total' = total
    BY <1>7 DEF FlagFraud, Row
  <1>8. ASSUME (\E f \in Fingerprint : Expire(f)) \/ Organise \/ EndPasses \/ UNCHANGED vars
        PROVE  CountedVotes' = CountedVotes /\ total' = total
    BY <1>8 DEF Expire, Organise, EndPasses, vars
  <1> QED BY <1>1, <1>2, <1>3, <1>4, <1>5, <1>6, <1>7, <1>8 DEF Next, Serve

(* elections.total_votes of a free election is exact at every instant.       *)
THEOREM TotalIsExact == Spec => []TotalCountsVotes
  <1>1. Init => TotalCountsVotes
    <2> SUFFICES ASSUME Init PROVE TotalCountsVotes
      OBVIOUS
    <2>1. {v \in Request : vote[v].state \in Counted} = {}
      BY DEF Init, NoRow, Counted
    <2> QED BY <2>1, FS_EmptySet DEF TotalCountsVotes, Init
  <1>2. IInv /\ TotalCountsVotes /\ [Next]_vars => TotalCountsVotes'
    <2> SUFFICES ASSUME IInv, TotalCountsVotes, ~paid, [Next]_vars PROVE TotalCountsVotes'
      BY PaidStays DEF TotalCountsVotes
    <2>1. total = Cardinality(CountedVotes) /\ IsFiniteSet(CountedVotes)
      BY RequestAssumption, FS_Subset DEF TotalCountsVotes, CountedVotes
    <2>2. CASE CountedVotes' = CountedVotes /\ total' = total
      BY <2>1, <2>2 DEF TotalCountsVotes, CountedVotes
    <2>3. CASE \E v \in Request \ CountedVotes : /\ CountedVotes' = CountedVotes \cup {v}
                                                 /\ total' = total + 1
      <3>1. Cardinality(CountedVotes') = Cardinality(CountedVotes) + 1
        BY <2>1, <2>3, FS_AddElement
      <3> QED BY <2>1, <2>3, <3>1 DEF TotalCountsVotes, CountedVotes
    <2> QED BY <2>2, <2>3, CountedStep
  <1> QED BY <1>1, <1>2, InductiveInvariant, PTL DEF Spec

(* No retry, rollback or crash takes back a completed vote.                  *)
THEOREM CompletedVotesAreKept == Spec => CompletedIsKept
  <1> DEFINE Kept(v) == vote[v].state = "completed" =>
               vote'[v] \in {vote[v], [vote[v] EXCEPT !.state = "fraud_suspected"]}
  <1>1. IInv /\ [Next]_vars => [\A v \in Request : Kept(v)]_vars
    <2> SUFFICES ASSUME IInv, Next, NEW v \in Request, vote[v].state = "completed"
                 PROVE  vote'[v] \in {vote[v], [vote[v] EXCEPT !.state = "fraud_suspected"]}
      BY DEF Kept
    <2> USE DEF IInv, TypeOK
    <2>1. ASSUME NEW r \in Request, InsertVote(r) \/ Commit(r) \/ Rollback(r) \/ Crash(r)
          PROVE  vote'[v] = vote[v]
      BY <2>1 DEF InsertVote, Commit, Rollback, Crash, OpenRowsOK, Committed, Counted, Answered
    <2>2. ASSUME NEW r \in Request, Receive(r) \/ Serve(r), ~InsertVote(r), ~Commit(r)
          PROVE  vote'[v] = vote[v]
      BY <2>2 DEF Serve, Receive, CheckCache, CheckDatabase, PutCache, FindElector, CreateElector,
                  StartSession, CountVotes, ReadSequence, CompleteVote, ReadMark, PutMark
    <2>3. ASSUME NEW w \in Request, ConfirmPayment(w) \/ MarkElector(w) PROVE vote'[v] = vote[v]
      BY <2>3 DEF ConfirmPayment, MarkElector
    <2>4. ASSUME NEW w \in Request, FlagFraud(w)
          PROVE  vote'[v] \in {vote[v], [vote[v] EXCEPT !.state = "fraud_suspected"]}
      BY <2>4 DEF FlagFraud
    <2>5. CASE (\E f \in Fingerprint : Expire(f)) \/ Organise \/ EndPasses
      BY <2>5 DEF Expire, Organise, EndPasses
    <2> QED BY <2>1, <2>2, <2>3, <2>4, <2>5 DEF Next
  <1> QED BY <1>1, InductiveInvariant, PTL DEF Spec, CompletedIsKept

-----------------------------------------------------------------------------
(* The ledger that the committed rows make.                                  *)
Committing == [r \in Request |-> LedgerEntry(r)]

(* A row is in the ledger exactly when it is committed.                      *)
LEMMA InLedger ==
  ASSUME NEW r \in Request
  PROVE  /\ Committing[r] = IF vote[r].state \in Committed THEN vote[r] ELSE NoRow
         /\ vote[r].state \in Committed <=> Committing[r] # NoRow
  BY DEF Committing, LedgerEntry, NoRow, Committed, Counted

(* A step that changes no committed row, and commits none, is a stutter of   *)
(* the ledger.                                                               *)
LEMMA LedgerStutters ==
  ASSUME UNCHANGED <<paid, total>>,
         \A r \in Request : LedgerEntry(r)' = LedgerEntry(r)
  PROVE  UNCHANGED Ledger!vars
  <1>1. [r \in Request |-> LedgerEntry(r)]' = [r \in Request |-> LedgerEntry(r)]
    OBVIOUS
  <1> QED BY <1>1 DEF Ledger!vars

(* A COMMIT is the one step in which the ledger takes a vote.                *)
LEMMA CommitCasts ==
  ASSUME IInv, NEW r \in Request, Commit(r)
  PROVE  Ledger!Cast(r)
  <1> DEFINE entry == vote'[r]
             st == IF paid THEN "pending" ELSE "completed"
  <1> USE DEF IInv, TypeOK
  <1>1. /\ pc[r] = "commit" /\ vote[r].state = "inserted" /\ vote[r].elector = loc[r].elector
        /\ vote[r].seq = loc[r].seq /\ vote[r].key = loc[r].key
    BY DEF Commit, OpenRowsOK
  <1>2. /\ loc[r].elector \in Request /\ loc[r].key \in Key
        /\ loc[r].seq \in Nat \ {0}
    BY <1>1 DEF LocalsOK, Busy, Numbered, Answered, Local
  <1>3. vote' = [vote EXCEPT ![r] = [vote[r] EXCEPT !.state = st]]
    BY DEF Commit
  <1>4. /\ entry = [state |-> st, elector |-> loc[r].elector, seq |-> loc[r].seq, key |-> loc[r].key]
        /\ \A q \in Request : q # r => vote'[q] = vote[q]
    BY <1>1, <1>3 DEF Row
  <1>5. st \in Committed /\ st \in {"pending", "completed", "fraud_suspected"}
    BY DEF Committed, Counted
  <1>6. Committing[r] = NoRow
    BY <1>1, InLedger DEF Committed, Counted
  <1>7. Committing'[r] = entry
    BY <1>4, <1>5 DEF Committing, LedgerEntry
  <1>8. Committing' = [Committing EXCEPT ![r] = entry]
    <2>1. \A q \in Request : q # r => LedgerEntry(q)' = LedgerEntry(q)
      BY <1>4 DEF LedgerEntry
    <2> QED BY <1>7, <2>1 DEF Committing
  <1>9. Ledger!IsNext(loc[r].elector, loc[r].seq)
    <2>1. ASSUME NEW m \in 1 .. (loc[r].seq - 1)
          PROVE  \E b \in Ledger!Entries : Committing[b].elector = loc[r].elector /\ Committing[b].seq = m
      <3>1. PICK w \in Request : /\ vote[w].state \in Committed
                                 /\ vote[w].elector = loc[r].elector /\ vote[w].seq = m
        BY <1>1, <2>1 DEF NumbersOK, Numbered, Taken
      <3> QED BY <3>1, InLedger DEF Ledger!Entries, Committing
    <2>2. ASSUME NEW b \in Ledger!Entries, Committing[b].elector = loc[r].elector
          PROVE  Committing[b].seq # loc[r].seq
      <3>1. b \in Request /\ vote[b].state \in Committed /\ Committing[b] = vote[b]
        BY <2>2, InLedger DEF Ledger!Entries, Committing
      <3>2. vote[b].state # "none" /\ b # r
        BY <1>1, <3>1 DEF Committed, Counted
      <3> QED BY <1>1, <2>2, <3>1, <3>2 DEF IndexesOK
    <2> QED BY <2>1, <2>2 DEF Ledger!IsNext, Committing
  <1>10. ASSUME NEW c \in Ledger!Entries PROVE Committing[c].key # loc[r].key
    <2>1. c \in Request /\ vote[c].state \in Committed /\ Committing[c] = vote[c]
      BY <1>10, InLedger DEF Ledger!Entries, Committing
    <2>2. vote[c].state # "none" /\ c # r
      BY <1>1, <2>1 DEF Committed, Counted
    <2> QED BY <1>1, <2>1, <2>2 DEF IndexesOK
  <1>11. entry \in Ledger!Entry
    BY <1>2, <1>4, <1>5 DEF Ledger!Entry
  <1>12. total' = (IF paid THEN total ELSE total + 1) /\ paid' = paid
    BY DEF Commit
  <1>13. entry.state = st /\ entry.elector = loc[r].elector /\ entry.seq = loc[r].seq /\ entry.key = loc[r].key
    BY <1>4
  <1> HIDE DEF entry, IInv, TypeOK
  <1>14. Ledger!IsNext(entry.elector, entry.seq) /\ \A c \in Ledger!Entries : Committing[c].key # entry.key
    BY <1>9, <1>10, <1>13
  <1> QED
    BY <1>6, <1>7, <1>8, <1>11, <1>12, <1>13, <1>14, Zenon DEF Ledger!Cast, Committing

(* A payment, or a fraud flag, restates an entry.                            *)
LEMMA RestateRestates ==
  ASSUME IInv, NEW v \in Request, ConfirmPayment(v) \/ FlagFraud(v)
  PROVE  Ledger!Pay(v) \/ Ledger!Flag(v)
  <1> DEFINE to == IF paid THEN "completed" ELSE "fraud_suspected"
  <1> USE DEF IInv, TypeOK, election
  <1>1. /\ vote[v].state = IF paid THEN "pending" ELSE "completed"
        /\ vote' = [vote EXCEPT ![v] = [vote[v] EXCEPT !.state = to]]
        /\ paid' = paid /\ total' = total
    BY DEF ConfirmPayment, FlagFraud
  <1>2. vote[v].state \in Committed /\ to \in Committed
    BY <1>1 DEF Committed, Counted
  <1>3. /\ vote'[v] = [vote[v] EXCEPT !.state = to] /\ vote'[v].state = to
        /\ \A q \in Request : q # v => vote'[q] = vote[q]
    BY <1>1 DEF Row
  <1>4. Committing[v] = vote[v] /\ v \in Ledger!Entries
    BY <1>2, InLedger DEF Ledger!Entries, Committing
  <1>5. Committing' = [Committing EXCEPT ![v] = [Committing[v] EXCEPT !.state = to]]
    <2>1. LedgerEntry(v)' = [vote[v] EXCEPT !.state = to]
      BY <1>2, <1>3 DEF LedgerEntry
    <2>2. \A q \in Request : q # v => LedgerEntry(q)' = LedgerEntry(q)
      BY <1>3 DEF LedgerEntry
    <2>3. Committing[v] = vote[v]
      BY <1>4
    <2> QED BY <2>1, <2>2, <2>3 DEF Committing
  <1>6. paid \in BOOLEAN
    OBVIOUS
  <1> HIDE DEF IInv, TypeOK
  <1>7. CASE paid
    <2>1. Ledger!Restate(v, "pending", "completed")
      BY <1>1, <1>4, <1>5, <1>7 DEF Ledger!Restate, Committing
    <2> QED BY <1>7, <2>1 DEF Ledger!Pay
  <1>8. CASE ~paid
    <2>1. Ledger!Restate(v, "completed", "fraud_suspected")
      BY <1>1, <1>4, <1>5, <1>8 DEF Ledger!Restate, Committing
    <2> QED BY <1>8, <2>1 DEF Ledger!Flag
  <1> QED BY <1>6, <1>7, <1>8

(* Every step of the ballot is a step of the ledger, or a stutter.           *)
LEMMA LedgerStep == IInv /\ [Next]_vars => [Ledger!Next]_(Ledger!vars)
  <1> SUFFICES ASSUME IInv, [Next]_vars PROVE Ledger!Next \/ UNCHANGED Ledger!vars
    OBVIOUS
  <1> USE DEF election
  <1>1. ASSUME UNCHANGED <<vote, paid, total>> PROVE UNCHANGED Ledger!vars
    BY <1>1, LedgerStutters DEF LedgerEntry
  <1>2. ASSUME NEW r \in Request, InsertVote(r) \/ Rollback(r) \/ Crash(r)
        PROVE  UNCHANGED Ledger!vars
    <2>1. /\ vote[r].state \in Committed => vote'[r] = vote[r]
          /\ vote'[r].state \in Committed => vote'[r] = vote[r]
          /\ \A q \in Request : q # r => vote'[q] = vote[q]
          /\ UNCHANGED <<paid, total>>
      BY <1>2 DEF IInv, TypeOK, OpenRowsOK, InsertVote, Rollback, Crash, NoRow, Committed, Counted, Answered
    <2> QED BY <2>1, LedgerStutters DEF LedgerEntry
  <1>3. ASSUME NEW r \in Request, Commit(r) PROVE Ledger!Next
    BY <1>3, CommitCasts DEF Ledger!Next
  <1>4. ASSUME NEW r \in Request, Receive(r) \/ Serve(r), ~InsertVote(r), ~Commit(r)
        PROVE  UNCHANGED Ledger!vars
    <2>1. UNCHANGED <<vote, paid, total>>
      BY <1>4 DEF Serve, Receive, CheckCache, CheckDatabase, PutCache, FindElector, CreateElector,
                  StartSession, CountVotes, ReadSequence, CompleteVote, ReadMark, PutMark
    <2> QED BY <1>1, <2>1
  <1>5. ASSUME NEW v \in Request, ConfirmPayment(v) \/ FlagFraud(v) PROVE Ledger!Next
    BY <1>5, RestateRestates DEF Ledger!Next
  <1>6. ASSUME \/ \E v \in Request : MarkElector(v)
               \/ (\E f \in Fingerprint : Expire(f)) \/ Organise \/ EndPasses \/ UNCHANGED vars
        PROVE  UNCHANGED Ledger!vars
    <2>1. UNCHANGED <<vote, paid, total>>
      BY <1>6 DEF MarkElector, Expire, Organise, EndPasses, vars
    <2> QED BY <1>1, <2>1
  <1> QED BY <1>2, <1>3, <1>4, <1>5, <1>6 DEF Next, Serve

(* The ballot implements the ledger: to its readers, the votes table is one  *)
(* to which votes are added one at a time, each with the next number of its  *)
(* elector and a key of its own, and none is ever taken back.                *)
THEOREM BallotIsALedger == Spec => ImplementsLedger
  <1>1. Init => Ledger!Init
    <2> SUFFICES ASSUME Init PROVE Ledger!Init
      OBVIOUS
    <2>1. \A r \in Request : LedgerEntry(r) = NoRow
      BY DEF Init, LedgerEntry
    <2> QED BY <2>1 DEF Init, Ledger!Init
  <1> QED
    BY <1>1, LedgerStep, InductiveInvariant, PTL DEF Spec, ImplementsLedger, Ledger!Spec
-----------------------------------------------------------------------------
CountedOf(e) == {v \in VotesOf(e) : vote[v].state \in Counted}

(* No committed row changes, and none is committed.                          *)
RowsKept == \A v \in Request : vote[v].state \in Committed \/ vote'[v].state \in Committed
                                 => vote'[v] = vote[v]

(* The votes of an elector are finitely many, before and after a step.       *)
LEMMA VotesFinite ==
  ASSUME NEW e
  PROVE  /\ IsFiniteSet(CompletedOf(e)) /\ IsFiniteSet(CountedOf(e))
         /\ Cardinality(CompletedOf(e)) \in Nat /\ Cardinality(CountedOf(e)) \in Nat
         /\ Cardinality(CompletedOf(e)) <= Cardinality(CountedOf(e))
         /\ VotesUsed(e) = Cardinality(CompletedOf(e))
         /\ IsFiniteSet(CompletedOf(e)') /\ Cardinality(CompletedOf(e)') \in Nat
  <1>1. IsFiniteSet(CompletedOf(e)) /\ IsFiniteSet(CountedOf(e)) /\ IsFiniteSet(CompletedOf(e)')
    BY RequestAssumption, FS_Subset DEF CompletedOf, CountedOf, VotesOf
  <1>2. CompletedOf(e) \subseteq CountedOf(e)
    BY DEF CompletedOf, CountedOf, Counted
  <1> QED BY <1>1, <1>2, FS_CardinalityType, FS_Subset DEF VotesUsed

(* A request changes a committed row only by its COMMIT.                     *)
LEMMA RequestKeepsRows ==
  ASSUME IInv, NEW r \in Request, Receive(r) \/ Serve(r) \/ Rollback(r) \/ Crash(r), ~Commit(r)
  PROVE  RowsKept
  <1>1. CASE InsertVote(r) \/ Rollback(r) \/ Crash(r)
    BY <1>1 DEF IInv, TypeOK, OpenRowsOK, InsertVote, Rollback, Crash, NoRow, RowsKept, Committed,
                Counted, Answered
  <1>2. CASE ~(InsertVote(r) \/ Rollback(r) \/ Crash(r))
    BY <1>2 DEF Serve, Receive, CheckCache, CheckDatabase, PutCache, FindElector, CreateElector,
                StartSession, CountVotes, ReadSequence, CompleteVote, ReadMark, PutMark, RowsKept
  <1> QED BY <1>1, <1>2

(* A request touches the variables of no other.                              *)
LEMMA RequestsApart ==
  ASSUME IInv, NEW r \in Request, Receive(r) \/ Serve(r) \/ Rollback(r) \/ Crash(r)
  PROVE  \A q \in Request : q # r => pc'[q] = pc[q] /\ loc'[q] = loc[q]
  <1> USE DEF IInv, TypeOK, Goto, Finish
  <1>1. CASE InsertVote(r) \/ CompleteVote(r) \/ Commit(r) \/ Rollback(r) \/ Crash(r)
    BY <1>1 DEF InsertVote, CompleteVote, Commit, Rollback, Crash
  <1>2. CASE ~(InsertVote(r) \/ CompleteVote(r) \/ Commit(r) \/ Rollback(r) \/ Crash(r))
    BY <1>2, ServeQuiet DEF Serve, Quiet
  <1> QED BY <1>1, <1>2

(* Only a commit, a payment and a fraud flag change a committed row.         *)
LEMMA RowsStep ==
  ASSUME IInv, [Next]_vars
  PROVE  RowsKept \/ \E r \in Request : Commit(r) \/ ConfirmPayment(r) \/ FlagFraud(r)
  <1>1. ASSUME \/ \E v \in Request : MarkElector(v)
               \/ (\E f \in Fingerprint : Expire(f)) \/ Organise \/ EndPasses \/ UNCHANGED vars
        PROVE  RowsKept
    BY <1>1 DEF MarkElector, Expire, Organise, EndPasses, vars, RowsKept
  <1> QED BY <1>1, RequestKeepsRows DEF Next

(* Where no committed row changes, no count of votes does.                   *)
LEMMA CountsKept ==
  ASSUME RowsKept, NEW e
  PROVE  CompletedOf(e)' = CompletedOf(e) /\ CountedOf(e)' = CountedOf(e)
  BY DEF RowsKept, CompletedOf, CountedOf, VotesOf, Committed, Counted

(* An elector has one open transaction at most that has inserted a vote: a   *)
(* second one would have read a number that the first has not yet committed. *)
LEMMA OneOpenVote ==
  ASSUME IInv, NEW v \in Request, NEW w \in Request, v # w,
         pc[v] \in {"complete", "commit"}, pc[w] \in {"complete", "commit"}
  PROVE  loc[v].elector # loc[w].elector
  <1> SUFFICES ASSUME loc[v].elector = loc[w].elector PROVE FALSE
    OBVIOUS
  <1>1. /\ vote[v].state = "inserted" /\ vote[w].state = "inserted"
        /\ vote[v].elector = loc[v].elector /\ vote[w].elector = loc[v].elector
        /\ vote[v].seq = loc[v].seq /\ vote[w].seq = loc[w].seq
    BY DEF IInv, OpenRowsOK
  <1>2. loc[v].seq # loc[w].seq
    BY <1>1 DEF IInv, IndexesOK
  <1>3. ASSUME NEW a \in {v, w}, NEW b \in {v, w}, loc[a].seq < loc[b].seq PROVE FALSE
    <2>1. loc[a].seq \in Nat \ {0} /\ loc[b].seq \in Nat
      BY DEF IInv, TypeOK, Local, LocalsOK, Numbered
    <2>2. Taken(loc[b].elector, loc[a].seq)
      BY <1>3, <2>1 DEF IInv, NumbersOK, Numbered
    <2>3. PICK u \in Request : /\ vote[u].state \in Committed
                               /\ vote[u].elector = loc[v].elector
                               /\ vote[u].seq = loc[a].seq
      BY <2>2 DEF Taken
    <2> QED BY <1>1, <2>3 DEF IInv, IndexesOK, Committed, Counted
  <1>4. loc[v].seq \in Nat /\ loc[w].seq \in Nat
    BY DEF IInv, TypeOK, Local
  <1> QED BY <1>2, <1>3, <1>4

-----------------------------------------------------------------------------
(* Only the transaction of a free vote finds that it is the last one.        *)
FullOK ==
  \A r \in Request : /\ loc[r].full => ~paid /\ pc[r] \in {"commit", "mark", "markPut"}
                     /\ pc[r] = "complete" => ~paid

(* Every step keeps it: what a request holds is gone with its answer.        *)
LEMMA FullStep ==
  ASSUME TypeOK, FullOK, [Next]_vars
  PROVE  FullOK'
  <1> USE DEF TypeOK, FullOK, Goto, Answered, election
  <1>0. paid' = paid
    BY PaidStays
  <1>a. ASSUME NEW r \in Request, NEW outcome \in Answered, Finish(r, outcome) PROVE FullOK'
    BY <1>0, <1>a DEF Finish, NoLocal
  <1>b. ASSUME NEW r \in Request, NEW step \in Steps, Goto(r, step),
               step = "complete" => ~paid,
               loc'[r].full => loc[r].full /\ pc[r] \in {"mark", "markPut"}
                                 /\ step \in {"mark", "markPut"},
               \A q \in Request : q # r => loc'[q] = loc[q]
        PROVE  FullOK'
    BY <1>0, <1>b
  <1>1. ASSUME NEW r \in Request, Receive(r) PROVE FullOK'
    <2>1. CASE Finish(r, "refused")
      BY <1>a, <2>1
    <2>2. CASE \E f \in Fingerprint, k \in Key :
                 /\ Goto(r, "check")
                 /\ loc' = [loc EXCEPT ![r] = [NoLocal EXCEPT !.fp = f, !.key = k]]
      <3>1. ~loc'[r].full /\ \A q \in Request : q # r => loc'[q] = loc[q]
        BY <2>2 DEF NoLocal
      <3> QED BY <1>b, <2>2, <3>1 DEF Steps
    <2> QED BY <1>1, <2>1, <2>2 DEF Receive
  <1>2. ASSUME NEW r \in Request, NEW n, Decide(r, n), pc[r] \in {"check", "put"} PROVE FullOK'
    BY <1>a, <1>b, <1>2 DEF Decide, Steps
  <1>3. ASSUME NEW r \in Request, CheckCache(r) \/ PutCache(r) PROVE FullOK'
    BY <1>2, <1>3 DEF CheckCache, PutCache
  <1>4. ASSUME NEW r \in Request, CheckDatabase(r) PROVE FullOK'
    <2>1. CASE Decide(r, 0)
      BY <1>2, <1>4, <2>1 DEF CheckDatabase
    <2>2. CASE \E e \in Electors(loc[r].fp) : Goto(r, "put") /\ loc' = [loc EXCEPT ![r].seen = VotesUsed(e)]
      <3>1. loc'[r].full = loc[r].full /\ \A q \in Request : q # r => loc'[q] = loc[q]
        BY <2>2 DEF Local
      <3> QED BY <1>b, <1>4, <2>2, <3>1 DEF CheckDatabase, Steps
    <2> QED BY <1>4, <2>1, <2>2 DEF CheckDatabase
  <1>5. ASSUME NEW r \in Request, FindElector(r) PROVE FullOK'
    <2>1. CASE Goto(r, "create") /\ UNCHANGED loc
      BY <1>b, <1>5, <2>1 DEF FindElector, Steps
    <2>2. CASE \E e \in Electors(loc[r].fp) : /\ Goto(r, "check")
                                             /\ loc' = [loc EXCEPT ![r].elector = e, ![r].round = 2]
      <3>1. loc'[r].full = loc[r].full /\ \A q \in Request : q # r => loc'[q] = loc[q]
        BY <2>2 DEF Local
      <3> QED BY <1>b, <1>5, <2>2, <3>1 DEF FindElector, Steps
    <2> QED BY <1>5, <2>1, <2>2 DEF FindElector
  <1>6. ASSUME NEW r \in Request, CreateElector(r) PROVE FullOK'
    <2>1. loc'[r].full = loc[r].full /\ \A q \in Request : q # r => loc'[q] = loc[q]
      BY <1>6 DEF CreateElector, Local
    <2> QED BY <1>b, <1>6, <2>1 DEF CreateElector, Steps
  <1>7. ASSUME NEW r \in Request, StartSession(r) \/ CountVotes(r) PROVE FullOK'
    BY <1>a, <1>b, <1>7 DEF StartSession, CountVotes, Steps
  <1>8. ASSUME NEW r \in Request, ReadSequence(r) PROVE FullOK'
    <2>1. loc[r] \in Local
      OBVIOUS
    <2>2. loc'[r].full = loc[r].full /\ \A q \in Request : q # r => loc'[q] = loc[q]
      BY <1>8, <2>1 DEF ReadSequence, Local
    <2>3. Goto(r, "insert") /\ pc[r] \notin {"mark", "markPut"} /\ ~loc[r].full
      BY <1>8 DEF ReadSequence
    <2> QED BY <1>b, <2>2, <2>3 DEF Steps
  <1>9. ASSUME NEW r \in Request, InsertVote(r) PROVE FullOK'
    BY <1>a, <1>b, <1>9 DEF InsertVote, Steps
  <1>10. ASSUME NEW r \in Request, CompleteVote(r) PROVE FullOK'
    BY <1>0, <1>10 DEF CompleteVote, Local
  <1>11. ASSUME NEW r \in Request, Commit(r) PROVE FullOK'
    BY <1>0, <1>11 DEF Commit
  <1>12. ASSUME NEW r \in Request, ReadMark(r) PROVE FullOK'
    <2>1. loc'[r].full = loc[r].full
      BY <1>12 DEF ReadMark, Local
    <2> QED BY <1>b, <1>12, <2>1 DEF ReadMark, Steps
  <1>13. ASSUME NEW r \in Request, PutMark(r) \/ Rollback(r) \/ Crash(r) PROVE FullOK'
    BY <1>a, <1>13 DEF PutMark, Rollback, Crash
  <1>14. ASSUME NEW v \in Request, ConfirmPayment(v) \/ MarkElector(v) \/ FlagFraud(v) PROVE FullOK'
    BY <1>0, <1>14 DEF ConfirmPayment, MarkElector, FlagFraud
  <1>15. CASE (\E f \in Fingerprint : Expire(f)) \/ Organise \/ EndPasses \/ UNCHANGED vars
    BY <1>0, <1>15 DEF Expire, Organise, EndPasses, vars
  <1> QED
    BY <1>1, <1>3, <1>4, <1>5, <1>6, <1>7, <1>8, <1>9, <1>10, <1>11, <1>12, <1>13, <1>14, <1>15
       DEF Next, Serve

(* An elector is marked only when its votes are used, and in a free election *)
(* whenever they are.                                                        *)
MarkedOK(e) ==
  /\ ~paid /\ Cardinality(CompletedOf(e)) >= MaxVotes => has_voted[e]
  /\ has_voted[e] => Cardinality(CountedOf(e)) >= MaxVotes

(* A transaction about to commit knows whether its vote is the last one.     *)
CommittingOK(r) ==
  pc[r] = "commit" =>
    /\ loc[r].full => Cardinality(CountedOf(loc[r].elector)) + 1 >= MaxVotes
    /\ ~paid /\ Cardinality(CompletedOf(loc[r].elector)) + 1 >= MaxVotes => loc[r].full

MarksOK == /\ \A e \in Request : MarkedOK(e)
           /\ \A r \in Request : CommittingOK(r)

(* A COMMIT counts a vote of a free election, the last one of its elector or *)
(* not; that of another elector is not concerned.                            *)
LEMMA CommitMarks ==
  ASSUME IInv, FullOK, MarksOK, NEW r \in Request, Commit(r), FullOK'
  PROVE  MarksOK'
  <1> DEFINE e == loc[r].elector
  <1> USE DEF IInv, TypeOK
  <1>1. /\ pc[r] = "commit" /\ pc' = [pc EXCEPT ![r] = "mark"] /\ loc' = loc /\ paid' = paid
        /\ vote' = [vote EXCEPT ![r].state = IF paid THEN "pending" ELSE "completed"]
        /\ has_voted' = [has_voted EXCEPT ![e] = has_voted[e] \/ loc[r].full]
        /\ vote[r].state = "inserted" /\ vote[r].elector = e /\ e \in Request
    BY DEF Commit, Goto, OpenRowsOK, LocalsOK, Numbered
  <1>2. /\ \A q \in Request : q # r => vote'[q] = vote[q]
        /\ vote'[r].state = IF paid THEN "pending" ELSE "completed"
        /\ vote'[r].elector = e
    BY <1>1 DEF Row
  <1>3. ASSUME NEW d \in Request
        PROVE  /\ CompletedOf(d)' = IF ~paid /\ d = e THEN CompletedOf(d) \cup {r} ELSE CompletedOf(d)
               /\ CountedOf(d)' = IF ~paid /\ d = e THEN CountedOf(d) \cup {r} ELSE CountedOf(d)
    BY <1>1, <1>2 DEF CompletedOf, CountedOf, VotesOf, Committed, Counted
  <1>4. r \notin CompletedOf(e) /\ r \notin CountedOf(e)
    BY <1>1 DEF CompletedOf, CountedOf, VotesOf, Committed, Counted
  <1> HIDE DEF e
  <1>5. /\ Cardinality(CompletedOf(e) \cup {r}) = Cardinality(CompletedOf(e)) + 1
        /\ Cardinality(CountedOf(e) \cup {r}) = Cardinality(CountedOf(e)) + 1
    BY <1>4, VotesFinite, FS_AddElement
  <1>6. /\ loc[r].full => ~paid /\ Cardinality(CountedOf(e)) + 1 >= MaxVotes
        /\ ~paid /\ Cardinality(CompletedOf(e)) + 1 >= MaxVotes => loc[r].full
    BY <1>1 DEF FullOK, MarksOK, CommittingOK, e
  <1>7. ASSUME NEW d \in Request PROVE MarkedOK(d)'
    <2>1. CASE d = e
      <3>1. has_voted'[e] = (has_voted[e] \/ loc[r].full)
        BY <1>1
      <3>2. CASE paid
        BY <1>1, <1>3, <1>6, <2>1, <3>1, <3>2 DEF MarksOK, MarkedOK
      <3>3. CASE ~paid
        <4>1. /\ Cardinality(CompletedOf(d)') = Cardinality(CompletedOf(e)) + 1
              /\ Cardinality(CountedOf(d)') = Cardinality(CountedOf(e)) + 1
          BY <1>3, <1>5, <2>1, <3>3
        <4>2. Cardinality(CountedOf(e)) \in Nat /\ MaxVotes \in Nat
          BY VotesFinite, MaxVotesAssumption
        <4>3. has_voted[e] => Cardinality(CountedOf(e)) >= MaxVotes
          BY <1>1 DEF MarksOK, MarkedOK
        <4>4. Cardinality(CompletedOf(d)') >= MaxVotes => has_voted'[d]
          BY <1>6, <2>1, <3>1, <3>3, <4>1
        <4>5. has_voted'[d] => Cardinality(CountedOf(d)') >= MaxVotes
          BY <1>6, <2>1, <3>1, <3>3, <4>1, <4>2, <4>3
        <4> QED BY <4>4, <4>5 DEF MarkedOK
      <3> QED BY <3>2, <3>3
    <2>2. CASE d # e
      BY <1>1, <1>3, <2>2 DEF MarksOK, MarkedOK
    <2> QED BY <2>1, <2>2
  <1>8. ASSUME NEW q \in Request PROVE CommittingOK(q)'
    <2> SUFFICES ASSUME pc'[q] = "commit" PROVE CommittingOK(q)'
      BY DEF CommittingOK
    <2>1. q # r /\ pc[q] = "commit"
      BY <1>1
    <2>2. loc[q].elector # e /\ loc[q].elector \in Request
      BY <1>1, <2>1, OneOpenVote DEF LocalsOK, Numbered, e
    <2> QED BY <1>1, <1>3, <2>1, <2>2 DEF MarksOK, CommittingOK
  <1> QED BY <1>7, <1>8 DEF MarksOK

(* A payment counts a vote, which marks nobody yet; a fraud flag takes a vote*)
(* from those that still have to be, and from no elector its mark.           *)
LEMMA RestateMarks ==
  ASSUME IInv, MarksOK, NEW v \in Request, ConfirmPayment(v) \/ FlagFraud(v), FullOK'
  PROVE  MarksOK'
  <1> USE DEF IInv, TypeOK, election
  <1>1. /\ UNCHANGED <<paid, has_voted, pc, loc>>
        /\ vote[v].state \in Committed /\ vote'[v].elector = vote[v].elector
        /\ vote'[v].state \in Counted
        /\ \A q \in Request : q # v => vote'[q] = vote[q]
    BY DEF ConfirmPayment, FlagFraud, Row, Committed, Counted
  <1>2. ~paid => vote'[v].state = "fraud_suspected" /\ vote[v].state = "completed"
    BY DEF ConfirmPayment, FlagFraud, Row
  <1>3. ASSUME NEW e
        PROVE  /\ Cardinality(CountedOf(e)) <= Cardinality(CountedOf(e)')
               /\ Cardinality(CountedOf(e)') \in Nat
               /\ ~paid => Cardinality(CompletedOf(e)') <= Cardinality(CompletedOf(e))
    <2>1. CountedOf(e) \subseteq CountedOf(e)'
      BY <1>1 DEF CountedOf, VotesOf, Committed, Counted
    <2>2. IsFiniteSet(CountedOf(e)')
      BY RequestAssumption, FS_Subset DEF CountedOf, VotesOf
    <2>3. ~paid => CompletedOf(e)' \subseteq CompletedOf(e)
      BY <1>1, <1>2 DEF CompletedOf, VotesOf, Committed, Counted
    <2> QED BY <2>1, <2>2, <2>3, VotesFinite, FS_Subset, FS_CardinalityType
  <1>4. ASSUME NEW e
        PROVE  /\ Cardinality(CountedOf(e)) \in Nat /\ Cardinality(CompletedOf(e)) \in Nat
               /\ Cardinality(CompletedOf(e)') \in Nat
    BY VotesFinite
  <1>5. ASSUME NEW e \in Request PROVE MarkedOK(e)'
    BY <1>1, <1>3, <1>4, <1>5, MaxVotesAssumption DEF MarksOK, MarkedOK
  <1>6. ASSUME NEW q \in Request PROVE CommittingOK(q)'
    BY <1>1, <1>3, <1>4, <1>6, MaxVotesAssumption DEF MarksOK, CommittingOK
  <1> QED BY <1>5, <1>6 DEF MarksOK

(* Other steps count nothing: Vote::markAsCompleted counts what is committed,*)
(* and its own vote.                                                         *)
LEMMA OtherMarks ==
  ASSUME IInv, FullOK, MarksOK, RowsKept, [Next]_vars, FullOK',
         \A r \in Request : ~Commit(r) /\ ~ConfirmPayment(r) /\ ~FlagFraud(r)
  PROVE  MarksOK'
  <1> USE DEF IInv, TypeOK, Goto, election
  <1>1. \A e \in Request : CompletedOf(e)' = CompletedOf(e) /\ CountedOf(e)' = CountedOf(e)
    BY CountsKept
  <1>2. paid' = paid
    BY PaidStays
  <1>a. ASSUME UNCHANGED has_voted,
               \A q \in Request : pc'[q] = "commit" => paid \/ (pc[q] = "commit" /\ loc'[q] = loc[q])
        PROVE  MarksOK'
    <2>1. \A e \in Request : MarkedOK(e)'
      BY <1>1, <1>2, <1>a DEF MarksOK, MarkedOK
    <2>2. ASSUME NEW q \in Request, pc'[q] = "commit" PROVE CommittingOK(q)'
      <3>1. CASE paid
        BY <1>2, <3>1 DEF FullOK, CommittingOK
      <3>2. CASE pc[q] = "commit" /\ loc'[q] = loc[q]
        <4>1. loc[q].elector \in Request
          BY <3>2 DEF LocalsOK, Numbered
        <4> QED BY <1>1, <1>2, <3>2, <4>1 DEF MarksOK, CommittingOK
      <3> QED BY <1>a, <2>2, <3>1, <3>2
    <2> QED BY <2>1, <2>2 DEF MarksOK, CommittingOK
  <1>3. ASSUME NEW r \in Request, Receive(r) \/ Serve(r) \/ Rollback(r) \/ Crash(r), ~CompleteVote(r)
        PROVE  MarksOK'
    <2>1. UNCHANGED has_voted
      BY <1>3 DEF Serve, Receive, CheckCache, CheckDatabase, PutCache, FindElector, CreateElector,
                  StartSession, CountVotes, ReadSequence, InsertVote, ReadMark, PutMark, Rollback,
                  Crash
    <2>2. \A q \in Request : q # r => pc'[q] = pc[q] /\ loc'[q] = loc[q]
      BY <1>3, RequestsApart
    <2>3. pc'[r] = "commit" => paid
      <3>1. CASE InsertVote(r)
        BY <3>1 DEF InsertVote, Finish
      <3>2. CASE Rollback(r) \/ Crash(r)
        BY <3>2 DEF Rollback, Crash, Finish
      <3>3. CASE ~(InsertVote(r) \/ Rollback(r) \/ Crash(r))
        BY <1>3, <3>3, ServeQuiet DEF Serve, Quiet
      <3> QED BY <3>1, <3>2, <3>3
    <2>4. \A q \in Request : pc'[q] = "commit" => paid \/ (pc[q] = "commit" /\ loc'[q] = loc[q])
      <3> SUFFICES ASSUME NEW q \in Request, pc'[q] = "commit", ~paid
                   PROVE  pc[q] = "commit" /\ loc'[q] = loc[q]
        OBVIOUS
      <3>1. q # r
        BY <2>3
      <3> QED BY <2>2, <3>1
    <2> QED BY <1>a, <2>1, <2>4
  <1>4. ASSUME NEW r \in Request, CompleteVote(r) PROVE MarksOK'
    <2> DEFINE e == loc[r].elector
               full == IsExhausted(e, 1)
    <2>1. /\ pc[r] = "complete" /\ pc' = [pc EXCEPT ![r] = "commit"] /\ UNCHANGED has_voted
          /\ loc' = [loc EXCEPT ![r].full = full]
      BY <1>4 DEF CompleteVote
    <2>2. e \in Request
      BY <2>1 DEF LocalsOK, Numbered
    <2> HIDE DEF full
    <2>3. loc'[r].full = full /\ loc'[r].elector = e /\ \A q \in Request : q # r => loc'[q] = loc[q]
      BY <2>1 DEF Local
    <2>4. full <=> Cardinality(CompletedOf(e)) + 1 >= MaxVotes
      BY VotesFinite DEF full, IsExhausted
    <2>5. full => Cardinality(CountedOf(e)) + 1 >= MaxVotes
      BY <2>4, VotesFinite, MaxVotesAssumption
    <2>6. CommittingOK(r)'
      BY <1>1, <1>2, <2>2, <2>3, <2>4, <2>5 DEF CommittingOK
    <2>7. ASSUME NEW q \in Request, q # r, pc'[q] = "commit" PROVE CommittingOK(q)'
      <3>1. pc[q] = "commit" /\ loc'[q] = loc[q] /\ loc[q].elector \in Request
        BY <2>1, <2>3, <2>7 DEF LocalsOK, Numbered
      <3> QED BY <1>1, <1>2, <3>1 DEF MarksOK, CommittingOK
    <2>8. \A d \in Request : MarkedOK(d)'
      BY <1>1, <1>2, <2>1 DEF MarksOK, MarkedOK
    <2> QED BY <2>6, <2>7, <2>8 DEF MarksOK, CommittingOK
  <1>5. ASSUME NEW v \in Request, MarkElector(v) PROVE MarksOK'
    <2> DEFINE e == vote[v].elector
    <2>1. /\ paid /\ has_voted' = [has_voted EXCEPT ![e] = has_voted[e] \/ IsExhausted(e, 0)]
          /\ UNCHANGED <<pc, loc>>
      BY <1>5 DEF MarkElector
    <2>2. IsExhausted(e, 0) => Cardinality(CountedOf(e)) >= MaxVotes
      BY VotesFinite, MaxVotesAssumption DEF IsExhausted
    <2>3. ASSUME NEW d \in Request PROVE MarkedOK(d)'
      <3>1. has_voted'[d] => has_voted[d] \/ (d = e /\ IsExhausted(e, 0))
        BY <2>1
      <3> QED BY <1>1, <1>2, <2>1, <2>2, <3>1 DEF MarksOK, MarkedOK
    <2>4. ASSUME NEW q \in Request, pc'[q] = "commit" PROVE CommittingOK(q)'
      BY <1>2, <2>1, <2>4 DEF FullOK, CommittingOK
    <2> QED BY <2>3, <2>4 DEF MarksOK, CommittingOK
  <1>6. CASE (\E f \in Fingerprint : Expire(f)) \/ Organise \/ EndPasses \/ UNCHANGED vars
    <2>1. UNCHANGED <<has_voted, pc, loc>>
      BY <1>6 DEF Expire, Organise, EndPasses, vars
    <2> QED BY <1>a, <2>1
  <1> QED BY <1>3, <1>4, <1>5, <1>6 DEF Next

(* electors.has_voted is exact although it is computed by each transaction   *)
(* from what it can see: in a free election it is set with the last vote of  *)
(* the elector and not before, and in a paid one not before.                 *)
THEOREM MarksAreExact == Spec => []HasVotedExact
  <1>1. Init => FullOK /\ MarksOK
    <2> SUFFICES ASSUME Init PROVE FullOK /\ MarksOK
      OBVIOUS
    <2>1. FullOK /\ \A r \in Request : CommittingOK(r)
      BY DEF Init, FullOK, CommittingOK, NoLocal
    <2>2. \A e \in Request : ~has_voted[e] /\ CompletedOf(e) = {}
      BY DEF Init, NoRow, CompletedOf, VotesOf
    <2>3. Cardinality({}) = 0
      BY FS_EmptySet
    <2> QED BY <2>1, <2>2, <2>3, MaxVotesAssumption DEF MarksOK, MarkedOK
  <1>2. IInv /\ FullOK /\ [Next]_vars => FullOK'
    BY FullStep DEF IInv
  <1>3. IInv /\ FullOK /\ FullOK' /\ MarksOK /\ [Next]_vars => MarksOK'
    BY RowsStep, CommitMarks, RestateMarks, OtherMarks
  <1>4. MarksOK => HasVotedExact
    BY DEF MarksOK, MarkedOK, HasVotedExact, CountedOf
  <1> QED BY <1>1, <1>2, <1>3, <1>4, InductiveInvariant, PTL DEF Spec

-----------------------------------------------------------------------------
(* The requests that the pool executes, those of them that have not found an *)
(* elector of a voter, and the ballots of an elector: counted, or on the way *)
(* from the count to the commit.                                             *)
Executing == {r \in Request : Busy(r)}
ElectorsOf(f) == Electors(f) \cup {r \in Request : pc[r] = "create" /\ loc[r].fp = f}
Casting(e) == {r \in Request : /\ pc[r] \in {"sequence", "insert", "complete", "commit"}
                               /\ loc[r].elector = e}
BallotsOf(e) == CompletedOf(e) \cup Casting(e)

(* What the pool bounds.                                                     *)
PoolOK ==
  /\ Cardinality(Executing) <= Workers
  /\ \A f \in Fingerprint : Cardinality(ElectorsOf(f)) <= Workers
  /\ ~paid => \A e \in Request : Cardinality(BallotsOf(e)) <= MaxVotes + (Workers - 1)

(* Any set of requests is finite.                                            *)
LEMMA RequestsFinite ==
  ASSUME NEW S \in SUBSET Request
  PROVE  IsFiniteSet(S) /\ Cardinality(S) \in Nat
  BY RequestAssumption, FS_Subset, FS_CardinalityType

(* A set of requests has no more elements than one it is part of.            *)
LEMMA FewerRequests ==
  ASSUME NEW S \in SUBSET Request, NEW T \in SUBSET S, NEW n \in Nat, Cardinality(S) <= n
  PROVE  Cardinality(T) <= n
  <1>1. Cardinality(T) <= Cardinality(S)
    BY RequestsFinite, FS_Subset
  <1> QED BY <1>1, RequestsFinite

(* The pool grows when a request is received, the electors of a voter when   *)
(* firstOrCreate finds none, and the ballots of an elector of a free election*)
(* when a count passes; other steps take from them, or move within them.     *)
LEMMA PoolMoves ==
  ASSUME IInv, [Next]_vars
  PROVE  /\ (\A r \in Request : ~Receive(r)) => Executing' \subseteq Executing
         /\ (\A r \in Request : ~FindElector(r)) =>
              \A f \in Fingerprint : ElectorsOf(f)' \subseteq ElectorsOf(f)
         /\ ~paid /\ (\A r \in Request : ~CountVotes(r)) =>
              \A e \in Request : BallotsOf(e)' \subseteq BallotsOf(e)
  <1> DEFINE Pool == Executing' \subseteq Executing
             Voters == \A f \in Fingerprint : ElectorsOf(f)' \subseteq ElectorsOf(f)
             Ballots == \A e \in Request : BallotsOf(e)' \subseteq BallotsOf(e)
             Cast(r) == pc[r] \in {"sequence", "insert", "complete", "commit"}
  <1> USE DEF election
  <1>a. ASSUME NEW r \in Request, \A q \in Request : q # r => pc'[q] = pc[q] /\ loc'[q] = loc[q]
        PROVE  /\ (Busy(r)' => Busy(r)) => Pool
               /\ UNCHANGED elector /\ pc'[r] # "create" => Voters
               /\ /\ RowsKept
                  /\ Cast(r)' => Cast(r) /\ loc'[r].elector = loc[r].elector
                 => Ballots
    <2>1. (Busy(r)' => Busy(r)) => Pool
      BY <1>a DEF Executing, Busy
    <2>2. UNCHANGED elector /\ pc'[r] # "create" => Voters
      BY <1>a DEF ElectorsOf, Electors
    <2>3. /\ RowsKept
          /\ Cast(r)' => Cast(r) /\ loc'[r].elector = loc[r].elector
         => Ballots
      BY <1>a, CountsKept DEF BallotsOf, Casting
    <2> QED BY <2>1, <2>2, <2>3
  <1>1. ASSUME NEW r \in Request, Receive(r) PROVE Voters /\ Ballots
    <2>1. pc'[r] \in {"check", "refused"} /\ UNCHANGED elector
      BY <1>1 DEF IInv, TypeOK, Receive, Goto, Finish
    <2> HIDE DEF Voters, Ballots
    <2> QED BY <1>1, <1>a, <2>1, RequestsApart, RequestKeepsRows DEF Receive, Commit, Cast
  <1>2. ASSUME NEW r \in Request,
               CheckCache(r) \/ CheckDatabase(r) \/ PutCache(r) \/ StartSession(r)
                 \/ ReadMark(r) \/ PutMark(r) \/ Rollback(r) \/ Crash(r)
        PROVE  Pool /\ Voters /\ Ballots
    <2>1. /\ Busy(r) /\ UNCHANGED elector /\ ~Commit(r)
          /\ pc'[r] \notin {"create", "sequence", "insert", "complete", "commit"}
      BY <1>2 DEF CheckCache, CheckDatabase, PutCache, StartSession, ReadMark, PutMark, Rollback,
                  Crash, Decide, Finish, Goto, IInv, TypeOK, Busy, Answered, Commit
    <2>2. RowsKept /\ \A q \in Request : q # r => pc'[q] = pc[q] /\ loc'[q] = loc[q]
      BY <1>2, <2>1, RequestsApart, RequestKeepsRows DEF Serve
    <2> HIDE DEF Pool, Voters, Ballots
    <2> QED BY <1>a, <2>1, <2>2 DEF Cast
  <1>3. ASSUME NEW r \in Request, FindElector(r) \/ CreateElector(r) PROVE Pool /\ Ballots
    <2>1. Busy(r) /\ ~Commit(r) /\ pc'[r] \in {"create", "check"}
      BY <1>3 DEF FindElector, CreateElector, Goto, IInv, TypeOK, Busy, Answered, Commit
    <2>2. RowsKept /\ \A q \in Request : q # r => pc'[q] = pc[q] /\ loc'[q] = loc[q]
      BY <1>3, <2>1, RequestsApart, RequestKeepsRows DEF Serve
    <2> HIDE DEF Pool, Ballots
    <2> QED BY <1>a, <2>1, <2>2 DEF Cast
  <1>4. ASSUME NEW r \in Request, CreateElector(r) PROVE Voters
    <2>1. /\ pc[r] = "create" /\ elector' = [elector EXCEPT ![r] = loc[r].fp]
          /\ pc' = [pc EXCEPT ![r] = "check"]
          /\ \A q \in Request : q # r => loc'[q] = loc[q]
      BY <1>4, RequestsApart DEF CreateElector, Goto, Serve
    <2> QED BY <2>1 DEF IInv, TypeOK, ElectorsOf, Electors
  <1>5. ASSUME NEW r \in Request, CountVotes(r) PROVE Pool /\ Voters
    <2>1. Busy(r) /\ UNCHANGED elector /\ pc'[r] # "create"
      BY <1>5 DEF CountVotes, Finish, Goto, IInv, TypeOK, Busy, Answered
    <2>2. \A q \in Request : q # r => pc'[q] = pc[q] /\ loc'[q] = loc[q]
      BY <1>5, RequestsApart DEF Serve
    <2> HIDE DEF Pool, Voters
    <2> QED BY <1>a, <2>1, <2>2
  <1>6. ASSUME NEW r \in Request, ReadSequence(r) \/ InsertVote(r) \/ CompleteVote(r)
        PROVE  Pool /\ Voters /\ Ballots
    <2>1. /\ Busy(r) /\ Cast(r) /\ UNCHANGED elector /\ ~Commit(r) /\ pc'[r] # "create"
          /\ pc'[r] = "refused" \/ loc'[r].elector = loc[r].elector
      BY <1>6 DEF ReadSequence, InsertVote, CompleteVote, Finish, Goto, IInv, TypeOK, Local, Busy,
                  Answered, Commit
    <2>2. RowsKept /\ \A q \in Request : q # r => pc'[q] = pc[q] /\ loc'[q] = loc[q]
      BY <1>6, <2>1, RequestsApart, RequestKeepsRows DEF Serve
    <2>3. Cast(r)' => Cast(r) /\ loc'[r].elector = loc[r].elector
      BY <2>1
    <2> HIDE DEF Pool, Voters, Ballots, Cast
    <2> QED BY <1>a, <2>1, <2>2, <2>3
  <1>7. ASSUME NEW r \in Request, Commit(r) PROVE Pool /\ Voters /\ (~paid => Ballots)
    <2>1. /\ pc[r] = "commit" /\ pc' = [pc EXCEPT ![r] = "mark"] /\ UNCHANGED <<loc, elector>>
          /\ vote' = [vote EXCEPT ![r].state = IF paid THEN "pending" ELSE "completed"]
          /\ vote[r].elector = loc[r].elector
      BY <1>7 DEF Commit, Goto, IInv, OpenRowsOK
    <2>2. Pool /\ Voters
      BY <2>1 DEF IInv, TypeOK, Executing, Busy, Answered, ElectorsOf, Electors
    <2>3. ASSUME ~paid, NEW e \in Request PROVE BallotsOf(e)' \subseteq BallotsOf(e)
      <3>1. /\ \A q \in Request : q # r => vote'[q] = vote[q] /\ pc'[q] = pc[q]
            /\ vote'[r].elector = loc[r].elector /\ pc'[r] = "mark"
        BY <2>1 DEF IInv, TypeOK, Row
      <3>2. CompletedOf(e)' \subseteq CompletedOf(e) \cup (IF loc[r].elector = e THEN {r} ELSE {})
        BY <3>1 DEF CompletedOf, VotesOf
      <3>3. Casting(e)' \subseteq Casting(e)
        BY <2>1, <3>1 DEF Casting
      <3>4. loc[r].elector = e => r \in Casting(e)
        BY <2>1 DEF Casting
      <3> QED BY <3>2, <3>3, <3>4 DEF BallotsOf
    <2> QED BY <2>2, <2>3
  <1>8. ASSUME NEW v \in Request, ConfirmPayment(v) \/ FlagFraud(v)
        PROVE  Pool /\ Voters /\ (~paid => Ballots)
    <2>1. UNCHANGED <<elector, pc, loc>>
      BY <1>8 DEF ConfirmPayment, FlagFraud
    <2>2. Pool /\ Voters
      BY <2>1 DEF Executing, Busy, ElectorsOf, Electors
    <2>3. ASSUME ~paid, NEW e \in Request PROVE BallotsOf(e)' \subseteq BallotsOf(e)
      <3>1. vote' = [vote EXCEPT ![v].state = "fraud_suspected"]
        BY <1>8, <2>3 DEF ConfirmPayment, FlagFraud
      <3>2. CompletedOf(e)' \subseteq CompletedOf(e)
        BY <3>1 DEF IInv, TypeOK, Row, CompletedOf, VotesOf, Committed, Counted
      <3> QED BY <2>1, <3>2 DEF BallotsOf, Casting
    <2> QED BY <2>2, <2>3
  <1>9. CASE \/ \E v \in Request : MarkElector(v)
             \/ (\E f \in Fingerprint : Expire(f)) \/ Organise \/ EndPasses \/ UNCHANGED vars
    <2>1. UNCHANGED <<vote, elector, pc, loc>>
      BY <1>9 DEF MarkElector, Expire, Organise, EndPasses, vars
    <2> QED BY <2>1 DEF Executing, Busy, ElectorsOf, Electors, BallotsOf, CompletedOf, VotesOf, Casting
  <1> HIDE DEF Pool, Voters, Ballots
  <1>10. ASSUME NEW r \in Request, Receive(r) \/ Serve(r) \/ Rollback(r) \/ Crash(r)
         PROVE  /\ ~Receive(r) => Pool
                /\ ~FindElector(r) => Voters
                /\ ~CountVotes(r) => (~paid => Ballots)
    <2>1. ~Receive(r) => Pool
      BY <1>2, <1>3, <1>5, <1>6, <1>7, <1>10 DEF Serve
    <2>2. ~FindElector(r) => Voters
      BY <1>1, <1>2, <1>4, <1>5, <1>6, <1>7, <1>10 DEF Serve
    <2>3. ~CountVotes(r) => (~paid => Ballots)
      BY <1>1, <1>2, <1>3, <1>6, <1>7, <1>10 DEF Serve
    <2> QED BY <2>1, <2>2, <2>3
  <1>11. CASE \E r \in Request : Receive(r) \/ Serve(r) \/ Rollback(r) \/ Crash(r)
    BY <1>10, <1>11 DEF Pool, Voters, Ballots
  <1>12. CASE \E v \in Request : ConfirmPayment(v) \/ FlagFraud(v)
    BY <1>8, <1>12 DEF Pool, Voters, Ballots
  <1>13. CASE \/ \E v \in Request : MarkElector(v)
              \/ (\E f \in Fingerprint : Expire(f)) \/ Organise \/ EndPasses \/ UNCHANGED vars
    BY <1>9, <1>13 DEF Pool, Voters, Ballots
  <1> QED BY <1>11, <1>12, <1>13 DEF Next

(* A request is taken by a free worker only, an elector is created where     *)
(* there was none, and a vote is cast where one was left: what then is under *)
(* way is in the pool.                                                       *)
LEMMA PoolStep ==
  ASSUME IInv, PoolOK, [Next]_vars
  PROVE  PoolOK'
  <1> USE DEF IInv, TypeOK, Goto, election
  <1>0. /\ Executing \in SUBSET Request /\ Executing' \in SUBSET Request
        /\ \A f : ElectorsOf(f) \in SUBSET Request
        /\ \A e : BallotsOf(e) \in SUBSET Request
        /\ Workers \in Nat /\ MaxVotes + (Workers - 1) \in Nat
    BY WorkersAssumption, MaxVotesAssumption
    DEF Executing, ElectorsOf, Electors, BallotsOf, CompletedOf, VotesOf, Casting
  <1>1. Cardinality(Executing') <= Workers
    <2>1. CASE \A r \in Request : ~Receive(r)
      BY <1>0, <2>1, PoolMoves, FewerRequests DEF PoolOK
    <2>2. ASSUME NEW r \in Request, Receive(r) PROVE Cardinality(Executing') <= Workers
      <3>1. Executing' \in SUBSET (Executing \cup {r}) /\ Cardinality(Executing) < Workers
        BY <2>2, RequestsApart DEF Receive, Executing, Busy
      <3>2. /\ IsFiniteSet(Executing) /\ Cardinality(Executing) \in Nat
            /\ Executing \cup {r} \in SUBSET Request
        BY <1>0, RequestsFinite
      <3>3. Cardinality(Executing \cup {r}) <= Workers
        <4>1. CASE r \in Executing
          <5>1. Executing \cup {r} = Executing
            BY <4>1
          <5> QED BY <1>0, <3>1, <3>2, <5>1
        <4>2. CASE r \notin Executing
          <5>1. Cardinality(Executing \cup {r}) = Cardinality(Executing) + 1
            BY <3>2, <4>2, FS_AddElement
          <5> QED BY <1>0, <3>1, <3>2, <5>1
        <4> QED BY <4>1, <4>2
      <3> QED BY <1>0, <3>1, <3>2, <3>3, FewerRequests
    <2> QED BY <2>1, <2>2
  <1>2. ASSUME NEW f \in Fingerprint PROVE Cardinality(ElectorsOf(f)') <= Workers
    <2>1. CASE ElectorsOf(f)' \subseteq ElectorsOf(f)
      BY <1>0, <1>2, <2>1, FewerRequests DEF PoolOK
    <2>2. ASSUME NEW r \in Request, FindElector(r), ~(ElectorsOf(f)' \subseteq ElectorsOf(f))
          PROVE  Cardinality(ElectorsOf(f)') <= Workers
      <3>1. /\ pc[r] = "elector" /\ UNCHANGED elector
            /\ \A q \in Request : q # r => pc'[q] = pc[q] /\ loc'[q] = loc[q]
        BY <2>2, RequestsApart DEF FindElector, Serve
      <3>2. pc'[r] = "create" /\ loc'[r].fp = f /\ Electors(loc[r].fp) = {} /\ loc' = loc
        <4>1. pc'[r] = "create" /\ loc'[r].fp = f
          BY <2>2, <3>1 DEF ElectorsOf, Electors
        <4> QED BY <2>2, <4>1 DEF FindElector
      <3>3. Electors(f)' = {}
        BY <3>1, <3>2 DEF Electors
      <3>4. ElectorsOf(f)' \subseteq Executing'
        BY <3>3 DEF ElectorsOf, Executing, Busy, Answered
      <3> QED BY <1>0, <1>1, <3>4, FewerRequests
    <2> QED BY <1>2, <2>1, <2>2, PoolMoves
  <1>3. ASSUME ~paid, NEW e \in Request
        PROVE  Cardinality(BallotsOf(e)') <= MaxVotes + (Workers - 1)
    <2>1. CASE BallotsOf(e)' \subseteq BallotsOf(e)
      BY <1>0, <1>3, <2>1, FewerRequests DEF PoolOK
    <2>2. ASSUME NEW r \in Request, CountVotes(r), ~(BallotsOf(e)' \subseteq BallotsOf(e))
          PROVE  Cardinality(BallotsOf(e)') <= MaxVotes + (Workers - 1)
      <3>1. /\ UNCHANGED vote
            /\ \A q \in Request : q # r => pc'[q] = pc[q] /\ loc'[q] = loc[q]
        BY <2>2, RequestsApart DEF CountVotes, Serve
      <3>2. CompletedOf(e)' = CompletedOf(e)
        BY <3>1 DEF CompletedOf, VotesOf
      <3>3. pc'[r] = "sequence" /\ loc'[r].elector = e
        BY <2>2, <3>1, <3>2 DEF CountVotes, Finish, BallotsOf, Casting
      <3>4. VotesUsed(e) < MaxVotes
        BY <2>2, <3>3, VotesUsedType, MaxVotesAssumption DEF CountVotes, Finish
      <3>5. BallotsOf(e)' \subseteq CompletedOf(e) \cup Executing'
        BY <3>2 DEF BallotsOf, Casting, Executing, Busy, Answered
      <3>6. /\ IsFiniteSet(CompletedOf(e)) /\ IsFiniteSet(Executing')
            /\ Cardinality(CompletedOf(e)) \in Nat /\ Cardinality(Executing') \in Nat
            /\ CompletedOf(e) \cup Executing' \in SUBSET Request
        BY <1>0, VotesFinite, RequestsFinite DEF CompletedOf, VotesOf
      <3>7. Cardinality(CompletedOf(e) \cup Executing')
              <= Cardinality(CompletedOf(e)) + Cardinality(Executing')
        <4>1. Cardinality(CompletedOf(e) \cap Executing') \in Nat
          BY <1>0, RequestsFinite
        <4> QED BY <3>6, <4>1, FS_Union
      <3>8. Cardinality(CompletedOf(e) \cup Executing') <= MaxVotes + (Workers - 1)
        BY <1>1, <3>4, <3>6, <3>7, RequestsFinite, WorkersAssumption, MaxVotesAssumption DEF VotesUsed
      <3> QED BY <1>0, <3>5, <3>6, <3>8, FewerRequests
    <2> QED BY <1>3, <2>1, <2>2, PoolMoves
  <1>4. paid' = paid
    BY PaidStays
  <1> QED BY <1>1, <1>2, <1>3, <1>4 DEF PoolOK

(* Nothing is locked between a count and the insertion that it allows, but   *)
(* no more can go wrong at once than the pool executes at once.              *)
THEOREM OvershootIsBounded == Spec => []OvershootBounded
  <1>1. Init => PoolOK
    <2> SUFFICES ASSUME Init PROVE PoolOK
      OBVIOUS
    <2>1. /\ Executing = {} /\ \A f \in Fingerprint : ElectorsOf(f) = {}
          /\ \A e \in Request : BallotsOf(e) = {}
      BY NoneAssumption DEF Init, Executing, Busy, ElectorsOf, Electors, BallotsOf, CompletedOf,
         VotesOf, Casting, NoRow
    <2>2. Cardinality({}) = 0
      BY FS_EmptySet
    <2>3. 0 <= Workers /\ 0 <= MaxVotes + (Workers - 1)
      BY WorkersAssumption, MaxVotesAssumption
    <2> HIDE DEF Executing, ElectorsOf, BallotsOf
    <2> QED BY <2>1, <2>2, <2>3 DEF PoolOK
  <1>2. IInv /\ PoolOK /\ [Next]_vars => PoolOK'
    BY PoolStep
  <1>3. PoolOK => OvershootBounded
    <2> SUFFICES ASSUME PoolOK PROVE OvershootBounded
      OBVIOUS
    <2>0. Workers \in Nat /\ MaxVotes + (Workers - 1) \in Nat
      BY WorkersAssumption, MaxVotesAssumption
    <2>1. ASSUME NEW f \in Fingerprint PROVE Cardinality(Electors(f)) <= Workers
      <3>1. ElectorsOf(f) \in SUBSET Request /\ Electors(f) \in SUBSET ElectorsOf(f)
        BY DEF ElectorsOf, Electors
      <3> QED BY <2>0, <3>1, FewerRequests DEF PoolOK
    <2>2. ASSUME ~paid, NEW e \in Request
          PROVE  Cardinality(CompletedOf(e)) <= MaxVotes + (Workers - 1)
      <3>1. BallotsOf(e) \in SUBSET Request /\ CompletedOf(e) \in SUBSET BallotsOf(e)
        BY DEF BallotsOf, CompletedOf, VotesOf, Casting
      <3> QED BY <2>0, <2>2, <3>1, FewerRequests DEF PoolOK
    <2> QED BY <2>1, <2>2 DEF OvershootBounded
  <1> QED BY <1>1, <1>2, <1>3, InductiveInvariant, PTL DEF Spec
=============================================================================
