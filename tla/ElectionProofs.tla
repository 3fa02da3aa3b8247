------------------------ MODULE ElectionProofs ------------------------
(***************************************************************************)
(* For any elections, workers, dates and quota, of ElectionLifecycle: a    *)
(* closed election has its results requested, and is reopened only from a  *)
(* copy of it that is older than its closure.                              *)
(*                                                                         *)
(* For any number of votes, jobs, queue workers and crashes, of Results:   *)
(* published results never regress, whatever the lock lets through: what   *)
(* orders the calculations is the unique index of the results rows.        *)
(*                                                                         *)
(* For any finite set of requests, of Trash: what the trash calls          *)
(* destroyed is gone, whatever happens; what is trashed is listed unless   *)
(* requests overlap or a page is out of date; and the purge destroys       *)
(* nothing in use unless there was a fault.                                *)
(***************************************************************************)
EXTENDS ElectionLifecycle, PublishedResults, TrashBin, FiniteSetTheorems, TLAPS

Copies == [of : Election, status : Statuses, start_at : Dates, end_at : Dates,
           total_votes : 0 .. MaxVotes]

Steps == Operations \cup {"idle", "savePublish", "dispatch", "delete"}

TypeOK == /\ row \in [Election -> Row]
          /\ queued \in SUBSET Election
          /\ pc \in [Process -> Steps]
          /\ model \in [Process -> Copies \cup {None}]
          /\ todo \in SUBSET Copies

(* A process at work has a copy; the one about to publish, of a draft.       *)
CopiesOK == \A p \in Process :
  /\ pc[p] # "idle" => model[p] \in Copies
  /\ pc[p] = "savePublish" => model[p].status = "draft"

IInv == TypeOK /\ CopiesOK /\ ClosedIsQueued

-----------------------------------------------------------------------------
(* A process without a copy is told from one that has a copy.                *)
LEMMA NoneIsNoCopy == None \notin Copies
  BY NoneAssumption DEF Copies

(* Nothing is published, nobody works.                                       *)
LEMMA InitIInv == Init => IInv
<1> SUFFICES ASSUME Init PROVE IInv
  OBVIOUS
<1>1. TypeOK
  BY VotesAssumption DEF Init, TypeOK, Row, Statuses, Steps
<1>2. CopiesOK /\ ClosedIsQueued
  BY DEF Init, CopiesOK, ClosedIsQueued
<1> QED
  BY <1>1, <1>2 DEF IInv

(* A save changes one column of one row.                                     *)
LEMMA SaveStatus ==
  ASSUME TypeOK, NEW e \in Election, NEW s \in Statuses, Save(e, "status", s)
  PROVE  /\ row' \in [Election -> Row] /\ row'[e].status = s
         /\ \A x \in Election : x # e => row'[x] = row[x]
<1>1. row[e] \in Row /\ row' = [row EXCEPT ![e] = [row[e] EXCEPT !.status = s]]
  BY DEF TypeOK, Save
<1>2. [row[e] EXCEPT !.status = s] \in Row /\ [row[e] EXCEPT !.status = s].status = s
  BY <1>1 DEF Row
<1> QED
  BY <1>1, <1>2 DEF TypeOK

(* So does a soft deletion, which leaves the statuses.                       *)
LEMMA SaveDeleted ==
  ASSUME TypeOK, NEW e \in Election, Save(e, "deleted", TRUE)
  PROVE  row' \in [Election -> Row] /\ \A x \in Election : row'[x].status = row[x].status
<1>1. row[e] \in Row /\ row' = [row EXCEPT ![e] = [row[e] EXCEPT !.deleted = TRUE]]
  BY DEF TypeOK, Save
<1>2. /\ [row[e] EXCEPT !.deleted = TRUE] \in Row
      /\ [row[e] EXCEPT !.deleted = TRUE].status = row[e].status
  BY <1>1 DEF Row
<1> QED
  BY <1>1, <1>2 DEF TypeOK

(* And so does a vote.                                                       *)
LEMMA SaveVotes ==
  ASSUME TypeOK, NEW e \in Election, NEW n \in 0 .. MaxVotes, Save(e, "total_votes", n)
  PROVE  row' \in [Election -> Row] /\ \A x \in Election : row'[x].status = row[x].status
<1>1. row[e] \in Row /\ row' = [row EXCEPT ![e] = [row[e] EXCEPT !.total_votes = n]]
  BY DEF TypeOK, Save
<1>2. /\ [row[e] EXCEPT !.total_votes = n] \in Row
      /\ [row[e] EXCEPT !.total_votes = n].status = row[e].status
  BY <1>1 DEF Row
<1> QED
  BY <1>1, <1>2 DEF TypeOK

(* What is loaded is a copy.                                                 *)
LEMMA LoadedType ==
  ASSUME TypeOK, NEW e \in Election
  PROVE  Loaded(e) \in Copies
  BY DEF TypeOK, Row, Loaded, Copies

-----------------------------------------------------------------------------
(* Process p goes on, and the others are where they were.                    *)
Goes(p) == /\ pc' \in [Process -> Steps] /\ model' \in [Process -> Copies \cup {None}]
           /\ \A q \in Process : q # p => pc'[q] = pc[q] /\ model'[q] = model[q]

(* It has nothing more to do, ...                                            *)
LEMMA FinishGoes ==
  ASSUME TypeOK, NEW p \in Process, Finish(p)
  PROVE  Goes(p) /\ pc'[p] = "idle"
  BY DEF TypeOK, Steps, Finish, Goes

(* ... goes to its next step, ...                                            *)
LEMMA GotoGoes ==
  ASSUME TypeOK, NEW p \in Process, NEW step \in Steps, Goto(p, step)
  PROVE  Goes(p) /\ pc'[p] = step /\ model'[p] = model[p]
  BY DEF TypeOK, Goto, Goes

(* ... or begins an operation on a copy.                                     *)
LEMMA HandleGoes ==
  ASSUME TypeOK, NEW p \in Process, NEW op \in Steps, NEW m \in Copies, Handle(p, op, m)
  PROVE  Goes(p) /\ pc'[p] = op /\ model'[p] = m
  BY DEF TypeOK, Handle, Goes

(* A step that closes nothing: what is closed stays requested.               *)
LEMMA OpenStep ==
  ASSUME IInv, NEW p \in Process, Goes(p), queued' \in SUBSET Election, queued \subseteq queued',
         pc'[p] # "idle" => model'[p] \in Copies,
         pc'[p] = "savePublish" => model'[p].status = "draft",
         row' \in [Election -> Row], todo' \in SUBSET Copies,
         \A e \in Election : row'[e].status = "closed" => row[e].status = "closed",
         pc[p] = "dispatch" => model[p].of \in queued'
  PROVE  IInv'
<1>1. TypeOK'
  BY DEF TypeOK, Goes
<1>2. CopiesOK'
  BY DEF IInv, CopiesOK, Goes
<1>3. ClosedIsQueued'
  <2> SUFFICES ASSUME NEW e \in Election, row'[e].status = "closed", e \notin queued'
               PROVE  \E q \in Process : pc'[q] = "dispatch" /\ model'[q].of = e
    BY DEF ClosedIsQueued
  <2>1. PICK q \in Process : pc[q] = "dispatch" /\ model[q].of = e
    BY DEF IInv, ClosedIsQueued
  <2>2. q # p
    BY <2>1
  <2> QED
    BY <2>1, <2>2 DEF Goes
<1> QED
  BY <1>1, <1>2, <1>3 DEF IInv

(* A request, or the clean-up of drafts, loads its election.                 *)
LEMMA ReceiveStep ==
  ASSUME IInv, NEW w \in Worker, Receive(w) \/ CleanDraft(w)
  PROVE  IInv'
<1>1. PICK e \in Election, op \in Operations \cup {"delete"} : Handle(w, op, Loaded(e))
  BY DEF Receive, CleanDraft, Present
<1>2. w \in Process /\ op \in Steps /\ op # "savePublish"
  BY DEF Process, Steps, Operations
<1>3. Loaded(e) \in Copies
  BY LoadedType DEF IInv
<1>4. Goes(w) /\ pc'[w] = op /\ model'[w] \in Copies
  BY <1>1, <1>2, <1>3, HandleGoes DEF IInv
<1>5. pc[w] = "idle" /\ UNCHANGED <<row, queued, todo>>
  BY DEF Receive, CleanDraft
<1> QED
  BY <1>2, <1>4, <1>5, OpenStep DEF IInv, TypeOK

(* An election is published, from a copy of the draft.                       *)
LEMMA PublishStep ==
  ASSUME IInv, NEW p \in Process, Publish(p)
  PROVE  IInv'
<1>1. pc[p] = "publish" /\ UNCHANGED <<row, queued, todo>> /\ model[p] \in Copies
  BY DEF Publish, IInv, CopiesOK
<1>2. CASE model[p].status = "draft" /\ Goto(p, "savePublish")
  <2>1. Goes(p) /\ pc'[p] = "savePublish" /\ model'[p] = model[p]
    BY <1>2, GotoGoes DEF IInv, Steps
  <2> QED
    BY <1>1, <1>2, <2>1, OpenStep DEF IInv, TypeOK
<1>3. CASE Finish(p)
  <2>1. Goes(p) /\ pc'[p] = "idle"
    BY <1>3, FinishGoes DEF IInv
  <2> QED
    BY <1>1, <2>1, OpenStep DEF IInv, TypeOK
<1> QED
  BY <1>2, <1>3 DEF Publish

(* ... whatever its row holds by then.                                       *)
LEMMA SavePublishStep ==
  ASSUME IInv, NEW p \in Process, SavePublish(p)
  PROVE  IInv'
<1>1. pc[p] = "savePublish" /\ UNCHANGED <<queued, todo>> /\ model[p].of \in Election
  BY DEF SavePublish, IInv, CopiesOK, Copies
<1>2. /\ row' \in [Election -> Row] /\ row'[model[p].of].status = "published"
      /\ \A x \in Election : x # model[p].of => row'[x] = row[x]
  BY <1>1, SaveStatus DEF SavePublish, IInv, Statuses
<1>3. Goes(p) /\ pc'[p] = "idle"
  BY FinishGoes DEF SavePublish, IInv
<1> QED
  BY <1>1, <1>2, <1>3, OpenStep DEF IInv, TypeOK

(* A new status is saved: if it closes the election, the results come next.  *)
LEMMA TransitionStep ==
  ASSUME IInv, NEW p \in Process, NEW op \in Operations, NEW allowed \in BOOLEAN,
         NEW status \in Statuses, NEW next \in {"idle", "dispatch"},
         status = "closed" => next = "dispatch",
         Transition(p, op, allowed, status, next)
  PROVE  IInv'
<1>1. pc[p] = op /\ op # "dispatch" /\ UNCHANGED <<queued, todo>> /\ model[p] \in Copies
  BY DEF Transition, IInv, CopiesOK, Operations
<1>2. CASE UNCHANGED row /\ Finish(p)
  <2>1. Goes(p) /\ pc'[p] = "idle"
    BY <1>2, FinishGoes DEF IInv
  <2> QED
    BY <1>1, <1>2, <2>1, OpenStep DEF IInv, TypeOK
<1>3. CASE /\ Save(model[p].of, "status", status)
           /\ IF next = "idle" THEN Finish(p) ELSE Goto(p, next)
  <2>1. model[p].of \in Election
    BY <1>1 DEF Copies
  <2>2. /\ row' \in [Election -> Row] /\ row'[model[p].of].status = status
        /\ \A x \in Election : x # model[p].of => row'[x] = row[x]
    BY <1>3, <2>1, SaveStatus DEF IInv
  <2>3. CASE next = "idle"
    <3>1. Goes(p) /\ pc'[p] = "idle"
      BY <1>3, <2>3, FinishGoes DEF IInv
    <3> QED
      BY <1>1, <2>1, <2>2, <2>3, <3>1, OpenStep DEF IInv, TypeOK
  <2>4. CASE next = "dispatch"
    <3>1. Goes(p) /\ pc'[p] = "dispatch" /\ model'[p] = model[p]
      BY <1>3, <2>4, GotoGoes DEF IInv, Steps
    <3>2. TypeOK'
      BY <1>1, <2>2, <3>1 DEF IInv, TypeOK, Goes
    <3>3. CopiesOK'
      BY <1>1, <3>1 DEF IInv, CopiesOK, Goes
    <3>4. ClosedIsQueued'
      <4> SUFFICES ASSUME NEW e \in Election, row'[e].status = "closed", e \notin queued'
                   PROVE  \E q \in Process : pc'[q] = "dispatch" /\ model'[q].of = e
        BY DEF ClosedIsQueued
      <4>1. CASE e = model[p].of
        BY <3>1, <4>1
      <4>2. CASE e # model[p].of
        <5>1. PICK q \in Process : pc[q] = "dispatch" /\ model[q].of = e
          BY <1>1, <2>2, <4>2 DEF IInv, ClosedIsQueued
        <5> QED
          BY <1>1, <3>1, <5>1 DEF Goes
      <4> QED
        BY <4>1, <4>2
    <3> QED
      BY <3>2, <3>3, <3>4 DEF IInv
  <2> QED
    BY <2>3, <2>4
<1> QED
  BY <1>2, <1>3 DEF Transition

(* The four operations that check, then save.                                *)
LEMMA TransitionsStep ==
  ASSUME IInv, NEW p \in Process, Start(p) \/ End(p) \/ Pause(p) \/ Resume(p)
  PROVE  IInv'
<1>1. {"start", "end", "pause", "resume"} \subseteq Operations
      /\ {"ongoing", "closed", "paused"} \subseteq Statuses
  BY DEF Operations, Statuses
<1>2. CASE Start(p)
  BY <1>1, <1>2, TransitionStep DEF Start
<1>3. CASE End(p)
  <2> DEFINE allowed == model[p].status \in {"published", "ongoing", "paused"}
  <2>1. allowed \in BOOLEAN /\ "end" \in Operations /\ "closed" \in Statuses
    BY <1>1
  <2>2. Transition(p, "end", allowed, "closed", "dispatch")
    BY <1>3 DEF End
  <2> HIDE DEF allowed
  <2> QED
    BY <2>1, <2>2, TransitionStep
<1>4. CASE Pause(p)
  BY <1>1, <1>4, TransitionStep DEF Pause
<1>5. CASE Resume(p)
  BY <1>1, <1>5, TransitionStep DEF Resume
<1> QED
  BY <1>2, <1>3, <1>4, <1>5

(* The results are requested.                                                *)
LEMMA DispatchStep ==
  ASSUME IInv, NEW p \in Process, Dispatch(p)
  PROVE  IInv'
<1>1. pc[p] = "dispatch" /\ queued' = queued \cup {model[p].of} /\ UNCHANGED <<row, todo>>
  BY DEF Dispatch
<1>2. model[p].of \in Election
  BY <1>1 DEF IInv, CopiesOK, Copies
<1>3. Goes(p) /\ pc'[p] = "idle"
  BY FinishGoes DEF Dispatch, IInv
<1> QED
  BY <1>1, <1>2, <1>3, OpenStep DEF IInv, TypeOK

(* The dates change, the status does not.                                    *)
LEMMA UpdateKeepsStatus ==
  ASSUME IInv, NEW p \in Process, Update(p)
  PROVE  row' \in [Election -> Row] /\ \A x \in Election : row'[x].status = row[x].status
<1>0. model[p].of \in Election
  BY DEF Update, IInv, CopiesOK, Copies
<1>1. CASE row' = row
  BY <1>1 DEF IInv, TypeOK
<1>2. ASSUME NEW s \in Dates, NEW e \in Dates,
             row' = [row EXCEPT ![model[p].of] =
                      [row[model[p].of] EXCEPT !.start_at = s, !.end_at = e]]
      PROVE  row' \in [Election -> Row] /\ \A x \in Election : row'[x].status = row[x].status
  <2> DEFINE saved == [row[model[p].of] EXCEPT !.start_at = s, !.end_at = e]
  <2>1. row[model[p].of] \in Row
    BY <1>0 DEF IInv, TypeOK
  <2>2. saved \in Row /\ saved.status = row[model[p].of].status
    BY <2>1 DEF Row
  <2>3. row' = [row EXCEPT ![model[p].of] = saved]
    BY <1>2
  <2> HIDE DEF saved
  <2> QED
    BY <1>0, <2>2, <2>3 DEF IInv, TypeOK
<1>3. row' = row \/ \E s, e \in Dates :
        row' = [row EXCEPT ![model[p].of] = [row[model[p].of] EXCEPT !.start_at = s, !.end_at = e]]
  <2>1. row[model[p].of].start_at \in Dates /\ row[model[p].of].end_at \in Dates
    BY <1>0 DEF IInv, TypeOK, Row
  <2> QED
    BY <2>1 DEF Update
<1> QED
  BY <1>1, <1>2, <1>3

(* Nothing else changes.                                                     *)
LEMMA UpdateStep ==
  ASSUME IInv, NEW p \in Process, Update(p)
  PROVE  IInv'
<1>1. pc[p] = "update" /\ UNCHANGED <<queued, todo>> /\ model[p].of \in Election
  BY DEF Update, IInv, CopiesOK, Copies
<1>2. row' \in [Election -> Row] /\ \A x \in Election : row'[x].status = row[x].status
  BY UpdateKeepsStatus
<1>3. Goes(p) /\ pc'[p] = "idle"
  BY FinishGoes DEF Update, IInv
<1> QED
  BY <1>1, <1>2, <1>3, OpenStep DEF IInv, TypeOK

(* An election without votes is deleted, in two steps.                       *)
LEMMA DestroyStep ==
  ASSUME IInv, NEW p \in Process, Destroy(p)
  PROVE  IInv'
<1>1. pc[p] = "destroy" /\ UNCHANGED <<row, queued, todo>> /\ model[p] \in Copies
  BY DEF Destroy, IInv, CopiesOK
<1>2. CASE Finish(p)
  <2>1. Goes(p) /\ pc'[p] = "idle"
    BY <1>2, FinishGoes DEF IInv
  <2> QED
    BY <1>1, <2>1, OpenStep DEF IInv, TypeOK
<1>3. CASE Goto(p, "delete")
  <2>1. Goes(p) /\ pc'[p] = "delete" /\ model'[p] = model[p]
    BY <1>3, GotoGoes DEF IInv, Steps
  <2> QED
    BY <1>1, <2>1, OpenStep DEF IInv, TypeOK
<1> QED
  BY <1>2, <1>3 DEF Destroy

(* The second writes deleted_at alone.                                       *)
LEMMA DeleteStep ==
  ASSUME IInv, NEW p \in Process, Delete(p)
  PROVE  IInv'
<1>1. pc[p] = "delete" /\ UNCHANGED <<queued, todo>> /\ model[p].of \in Election
  BY DEF Delete, IInv, CopiesOK, Copies
<1>2. row' \in [Election -> Row] /\ \A x \in Election : row'[x].status = row[x].status
  BY <1>1, SaveDeleted DEF Delete, IInv
<1>3. Goes(p) /\ pc'[p] = "idle"
  BY FinishGoes DEF Delete, IInv
<1> QED
  BY <1>1, <1>2, <1>3, OpenStep DEF IInv, TypeOK

(* The scheduler lists copies, and handles them one after the other.         *)
LEMMA TickStep == IInv /\ Tick => IInv'
<1> SUFFICES ASSUME IInv, Tick PROVE IInv'
  OBVIOUS
<1>1. ASSUME NEW from, NEW to, NEW listed \in SUBSET Election, List(from, to, listed) PROVE IInv'
  <2>1. UNCHANGED <<row, queued, pc, model>> /\ todo' \in SUBSET Copies
    BY <1>1, LoadedType DEF List, IInv
  <2> QED
    BY <2>1 DEF IInv, TypeOK, CopiesOK, ClosedIsQueued
<1>2. CASE HandleNext
  <2>1. Scheduler \in Process /\ pc[Scheduler] = "idle" /\ UNCHANGED <<row, queued>>
    BY <1>2 DEF HandleNext, Process
  <2>2. PICK m \in todo : /\ Handle(Scheduler, IF stage = "starting" THEN "start" ELSE "end", m)
                          /\ todo' = todo \ {m}
    BY <1>2 DEF HandleNext
  <2>3. m \in Copies /\ todo' \in SUBSET Copies
    BY <2>2 DEF IInv, TypeOK
  <2>4. PICK op \in {"start", "end"} : Handle(Scheduler, op, m)
    BY <2>2
  <2>5. Goes(Scheduler) /\ pc'[Scheduler] = op /\ model'[Scheduler] \in Copies
    BY <2>1, <2>3, <2>4, HandleGoes DEF IInv, Steps, Operations
  <2> QED
    BY <2>1, <2>3, <2>5, OpenStep DEF IInv, TypeOK
<1> QED
  BY <1>1, <1>2 DEF Tick, ListDue, ListExpired, FinishTick, Present, Active

(* A vote is counted, the status does not change.                            *)
LEMMA CountKeepsStatus ==
  ASSUME IInv, NEW e \in Election, CountVote(e)
  PROVE  row' \in [Election -> Row] /\ \A x \in Election : row'[x].status = row[x].status
<1>1. row[e].total_votes + 1 \in 0 .. MaxVotes
  BY VotesAssumption DEF CountVote, IInv, TypeOK, Row
<1> QED
  BY <1>1, SaveVotes DEF CountVote, IInv

(* Voters and the clock change no status.                                    *)
LEMMA VoterStep ==
  ASSUME IInv, NEW e \in Election, BeginVote(e) \/ CountVote(e)
  PROVE  IInv'
<1>1. UNCHANGED <<queued, pc, model, todo>>
  BY DEF BeginVote, CountVote
<1>2. row' \in [Election -> Row] /\ \A x \in Election : row'[x].status = row[x].status
  <2>1. CASE BeginVote(e)
    BY <2>1 DEF BeginVote, IInv, TypeOK
  <2>2. CASE CountVote(e)
    BY <2>2, CountKeepsStatus
  <2> QED
    BY <2>1, <2>2
<1> QED
  BY <1>1, <1>2 DEF IInv, TypeOK, CopiesOK, ClosedIsQueued

(* Every step keeps the invariant.                                           *)
LEMMA NextIInv == IInv /\ [Next]_vars => IInv'
<1> SUFFICES ASSUME IInv, [Next]_vars PROVE IInv'
  OBVIOUS
<1>1. CASE PassTime \/ UNCHANGED vars
  BY <1>1 DEF PassTime, vars, IInv, TypeOK, CopiesOK, ClosedIsQueued
<1> QED
  BY <1>1, ReceiveStep, PublishStep, SavePublishStep, TransitionsStep, DispatchStep, UpdateStep,
     DestroyStep, DeleteStep, TickStep, VoterStep DEF Next, Execute

(* The invariant holds of every behaviour.                                   *)
LEMMA Invariance == Spec => []IInv
  BY InitIInv, NextIInv, PTL DEF Spec

(* Whichever processes close and reopen an election from old copies of it,   *)
(* the results of one that is closed are requested, or about to be.          *)
THEOREM ClosedGetsResults == Spec => []ClosedIsQueued
<1>1. IInv => ClosedIsQueued
  BY DEF IInv
<1> QED
  BY <1>1, Invariance, PTL

(* A closed election is reopened only by a process whose copy is older than  *)
(* the closure.                                                              *)
THEOREM OnlyStaleCopiesReopen == Spec => ReopenedByStaleCopy
<1>1. IInv /\ [Next]_vars =>
        [\A e \in Election : (row[e].status = "closed" /\ row'[e].status # "closed") =>
           \E p \in Process : /\ model[p] # None
                               /\ model[p].of = e
                               /\ model[p].status # "closed"]_vars
  <2> SUFFICES ASSUME IInv, Next, NEW e \in Election, row[e].status = "closed",
                      row'[e].status # "closed"
               PROVE  \E p \in Process : /\ model[p] # None /\ model[p].of = e
                                         /\ model[p].status # "closed"
    OBVIOUS
  <2>1. PICK p \in Process : SavePublish(p) \/ Start(p) \/ End(p) \/ Pause(p) \/ Resume(p)
    <3>1. ASSUME \/ (\E w \in Worker : Receive(w) \/ CleanDraft(w)) \/ Tick \/ PassTime
                 \/ (\E x \in Election : BeginVote(x))
                 \/ (\E p \in Process : Publish(p) \/ Dispatch(p) \/ Destroy(p))
          PROVE  FALSE
      BY <3>1 DEF Receive, CleanDraft, Tick, ListDue, ListExpired, FinishTick, List, HandleNext,
                  PassTime, BeginVote, Publish, Dispatch, Destroy
    <3>2. ASSUME NEW p \in Process, Update(p) PROVE FALSE
      BY <3>2, UpdateKeepsStatus
    <3>3. ASSUME NEW p \in Process, Delete(p) PROVE FALSE
      <4>1. model[p].of \in Election
        BY <3>3 DEF Delete, IInv, CopiesOK, Copies
      <4> QED
        BY <3>3, <4>1, SaveDeleted DEF Delete, IInv
    <3>4. ASSUME NEW x \in Election, CountVote(x) PROVE FALSE
      BY <3>4, CountKeepsStatus
    <3> QED
      BY <3>1, <3>2, <3>3, <3>4 DEF Next, Execute
  <2>2. model[p] \in Copies /\ model[p] # None
    BY <2>1, NoneIsNoCopy DEF SavePublish, Start, End, Pause, Resume, Transition, IInv, CopiesOK
  <2>3. PICK s \in Statuses : Save(model[p].of, "status", s) /\ model[p].status # "closed"
    BY <2>1 DEF SavePublish, Start, End, Pause, Resume, Transition, IInv, CopiesOK, Statuses
  <2>4. model[p].of = e
    BY <2>2, <2>3, SaveStatus DEF IInv, Copies
  <2> QED
    BY <2>2, <2>3, <2>4
<1> QED
  BY <1>1, Invariance, PTL DEF Spec, ReopenedByStaleCopy

-----------------------------------------------------------------------------
(* The calculation of the results of one election, by the queue's workers:   *)
(* Results, under names that ElectionLifecycle leaves free.                  *)
CONSTANTS Job, QueueWorker, MaxTries, MaxCrashes, Slow
VARIABLES status, ending, vote, job, lock, at, mem, crashes

Tally == INSTANCE Results WITH Worker <- QueueWorker, pc <- at

Memory == [job : Job \cup {None}, tries : Nat, replaced : Nat, of : Tally!Count]
Place == [place : {"none", "ready", "reserved", "failed", "done"}, tries : Nat]

JobSteps == {"idle", "lock"} \cup Tally!InTransaction

JobsTypeOK ==
  /\ vote \in Tally!Count
  /\ rows \in [made : BOOLEAN, of : Tally!Count, generation : Nat]
  /\ at \in [QueueWorker -> JobSteps]
  /\ mem \in [QueueWorker -> Memory]
  /\ job \in [Job -> Place]

(* Count c is not older than count b.                                        *)
NotOlder(c, b) == \A v \in Vote : Tally!Age(c[v]) >= Tally!Age(b[v])

HasCounted(w) == at[w] \in {"insert", "commit"}

(* A count is never ahead of the votes.                                      *)
CountsOK == /\ NotOlder(vote, rows.of)
            /\ \A w \in QueueWorker : HasCounted(w) => NotOlder(vote, mem[w].of)

(* Rows that a worker has deleted were published: there is no later          *)
(* generation, and it counts after it deletes, thus not less.                *)
DeletedOK == \A w \in QueueWorker : at[w] \in {"blocked", "count", "insert", "commit"} =>
  /\ mem[w].replaced <= rows.generation
  /\ HasCounted(w) /\ mem[w].replaced = rows.generation => NotOlder(mem[w].of, rows.of)

(* One worker inserts at a time, and only over the rows that it deleted.     *)
InsertedOK == \A w \in QueueWorker : at[w] = "commit" =>
  /\ mem[w].replaced = rows.generation
  /\ \A q \in QueueWorker : at[q] = "commit" => q = w

JobsInv == JobsTypeOK /\ CountsOK /\ DeletedOK /\ InsertedOK

-----------------------------------------------------------------------------
(* Three ages.                                                               *)
LEMMA AgeType == \A s : Tally!Age(s) \in {0, 1, 2}
  BY DEF Tally!Age

(* Being not older is transitive.                                            *)
LEMMA NotOlderThrough ==
  ASSUME NEW a, NEW b, NEW c, NotOlder(c, b), NotOlder(b, a)
  PROVE  NotOlder(c, a)
<1>1. \A v \in Vote : Tally!Age(c[v]) >= Tally!Age(b[v]) /\ Tally!Age(b[v]) >= Tally!Age(a[v])
  BY DEF NotOlder
<1>2. ASSUME NEW v \in Vote PROVE Tally!Age(c[v]) >= Tally!Age(a[v])
  <2>1. {Tally!Age(c[v]), Tally!Age(b[v]), Tally!Age(a[v])} \subseteq {0, 1, 2}
    BY AgeType
  <2> QED
    BY <1>1, <2>1
<1> QED
  BY <1>2 DEF NotOlder

(* Being not older is reflexive.                                             *)
LEMMA NotOlderSame == \A c : NotOlder(c, c)
  BY AgeType DEF NotOlder

(* A worker without a job.                                                   *)
LEMMA BlankType == Tally!Blank \in Memory /\ Tally!Blank.of \in Tally!Count
  BY DEF Tally!Blank, Memory, Tally!Count, Tally!VoteStates

(* What Leave writes is a job.                                               *)
LEMMA PlaceType ==
  ASSUME NEW f \in Place, NEW place \in {"ready", "failed", "done"}
  PROVE  [f EXCEPT !.place = place] \in Place
  BY DEF Place

(* Before the first vote nothing is published, and nobody counts.            *)
LEMMA InitJobs == Tally!Init => JobsInv
<1> SUFFICES ASSUME Tally!Init PROVE JobsInv
  OBVIOUS
<1>1. JobsTypeOK
  <2>1. vote \in Tally!Count /\ rows \in [made : BOOLEAN, of : Tally!Count, generation : Nat]
    BY DEF Tally!Init, Tally!NoRows, Tally!Count, Tally!VoteStates
  <2>2. [place |-> "none", tries |-> 0] \in Place
    BY DEF Place
  <2> QED
    BY <2>1, <2>2, BlankType DEF Tally!Init, JobsTypeOK, JobSteps
<1>2. vote = rows.of
  BY DEF Tally!Init, Tally!NoRows
<1>3. CountsOK /\ DeletedOK /\ InsertedOK
  BY <1>2, NotOlderSame DEF Tally!Init, CountsOK, DeletedOK, InsertedOK, HasCounted
<1> QED
  BY <1>1, <1>3 DEF JobsInv

(* A step of worker w that publishes nothing and leaves the others alone.    *)
Works(w) == /\ vote' = vote /\ rows' = rows
            /\ \A q \in QueueWorker : q # w => at'[q] = at[q] /\ mem'[q] = mem[q]

(* A worker is about to begin a calculation, or has nothing to do.           *)
LEMMA RestStep ==
  ASSUME JobsInv, JobsTypeOK', NEW w \in QueueWorker, Works(w),
         at'[w] \in {"idle", "lock", "delete"}
  PROVE  JobsInv'
<1>1. CountsOK'
  BY DEF JobsInv, CountsOK, HasCounted, Works
<1>2. DeletedOK'
  BY DEF JobsInv, DeletedOK, HasCounted, Works
<1>3. InsertedOK'
  BY DEF JobsInv, InsertedOK, Works
<1> QED
  BY <1>1, <1>2, <1>3 DEF JobsInv

(* The votes get older, and nothing else is done.                            *)
LEMMA VoteStep ==
  ASSUME JobsInv, NEW v \in Vote, Tally!BeginVote(v) \/ Tally!CompleteVote(v) \/ Tally!FlagFraud(v)
  PROVE  JobsInv'
<1>1. UNCHANGED <<rows, at, mem, job>>
  BY DEF Tally!BeginVote, Tally!CompleteVote, Tally!FlagFraud
<1>2. vote' \in Tally!Count /\ NotOlder(vote', vote)
  BY DEF JobsInv, JobsTypeOK, Tally!Count, Tally!VoteStates, Tally!BeginVote,
         Tally!CompleteVote, Tally!FlagFraud, NotOlder, Tally!Age
<1>3. JobsTypeOK'
  BY <1>1, <1>2 DEF JobsInv, JobsTypeOK
<1>4. CountsOK'
  BY <1>1, <1>2, NotOlderThrough DEF JobsInv, CountsOK, HasCounted
<1>5. DeletedOK' /\ InsertedOK'
  BY <1>1 DEF JobsInv, DeletedOK, InsertedOK, HasCounted
<1> QED
  BY <1>3, <1>4, <1>5 DEF JobsInv

(* What becomes of the jobs and of the lock is of no importance.             *)
LEMMA QueueStep ==
  ASSUME JobsInv, UNCHANGED <<vote, rows, at, mem>>, job' \in [Job -> Place]
  PROVE  JobsInv'
<1>1. JobsTypeOK'
  BY DEF JobsInv, JobsTypeOK
<1>2. CountsOK' /\ DeletedOK' /\ InsertedOK'
  BY DEF JobsInv, CountsOK, DeletedOK, InsertedOK, HasCounted
<1> QED
  BY <1>1, <1>2 DEF JobsInv

(* Jobs stay jobs.                                                           *)
LEMMA JobType ==
  ASSUME JobsTypeOK, NEW j \in Job, NEW place \in {"ready", "failed", "done"}
  PROVE  [job EXCEPT ![j].place = place] \in [Job -> Place]
<1>1. job[j] \in Place
  BY DEF JobsTypeOK
<1> QED
  BY <1>1, PlaceType DEF JobsTypeOK

(* Nor does leaving change what a job is.                                    *)
LEMMA LeaveType ==
  ASSUME JobsTypeOK, NEW w \in QueueWorker, NEW place \in {"ready", "failed", "done"},
         Tally!Leave(w, place)
  PROVE  job' \in [Job -> Place]
<1>1. CASE mem[w].job \in Job
  BY <1>1, JobType DEF JobsTypeOK, Tally!Leave
<1>2. CASE mem[w].job \notin Job
  BY <1>2 DEF JobsTypeOK, Tally!Leave
<1> QED
  BY <1>1, <1>2

(* A worker leaves its job.                                                  *)
LEMMA LeaveStep ==
  ASSUME JobsInv, NEW w \in QueueWorker, NEW place \in {"ready", "failed", "done"},
         Tally!Leave(w, place), vote' = vote, rows' = rows
  PROVE  JobsInv'
<1>1. JobsTypeOK'
  <2>1. job' \in [Job -> Place]
    BY LeaveType DEF JobsInv
  <2> QED
    BY <2>1, BlankType DEF JobsInv, JobsTypeOK, JobSteps, Tally!Leave, Tally!Free
<1>2. Works(w) /\ at'[w] = "idle"
  BY DEF JobsInv, JobsTypeOK, Tally!Leave, Tally!Free, Works
<1> QED
  BY <1>1, <1>2, RestStep

(* A job is taken, or failed.                                                *)
LEMMA TakeStep ==
  ASSUME JobsInv, NEW w \in QueueWorker, NEW j \in Job, Tally!Take(w, j)
  PROVE  JobsInv'
<1>1. JobsTypeOK'
  <2>1. job' \in [Job -> Place]
    <3>1. job[j].tries \in Nat /\ job \in [Job -> Place]
      BY DEF JobsInv, JobsTypeOK, Place
    <3>2. [place |-> "reserved", tries |-> job[j].tries + 1] \in Place
      BY <3>1 DEF Place
    <3>3. CASE job' = [job EXCEPT ![j].place = "failed"]
      BY <3>3, JobType DEF JobsInv
    <3>4. CASE job' = [job EXCEPT ![j] = [place |-> "reserved", tries |-> @.tries + 1]]
      BY <3>1, <3>2, <3>4
    <3> QED
      BY <3>3, <3>4 DEF Tally!Take
  <2>2. [Tally!Blank EXCEPT !.job = j, !.tries = job[j].tries + 1] \in Memory
    <3>1. job[j].tries + 1 \in Nat
      BY DEF JobsInv, JobsTypeOK, Place
    <3> QED
      BY <3>1, BlankType DEF Memory
  <2> QED
    BY <2>1, <2>2 DEF JobsInv, JobsTypeOK, JobSteps, Tally!Take
<1>2. Works(w) /\ at'[w] \in {"idle", "lock"}
  BY DEF JobsInv, JobsTypeOK, Tally!Take, Works
<1> QED
  BY <1>1, <1>2, RestStep

(* The lock is taken, or the job is done.                                    *)
LEMMA LockStep == ASSUME JobsInv, NEW w \in QueueWorker, Tally!Lock(w) PROVE JobsInv'
<1>1. CASE Tally!Leave(w, "done")
  <2>1. vote' = vote /\ rows' = rows
    BY DEF Tally!Lock
  <2> QED
    BY <1>1, <2>1, LeaveStep
<1>2. CASE at' = [at EXCEPT ![w] = "delete"] /\ UNCHANGED <<job, mem>>
  <2>1. JobsTypeOK' /\ Works(w) /\ at'[w] = "delete"
    BY <1>2 DEF JobsInv, JobsTypeOK, JobSteps, Tally!InTransaction, Works, Tally!Lock
  <2> QED
    BY <2>1, RestStep
<1> QED
  BY <1>1, <1>2 DEF Tally!Lock

(* The rows are deleted, at once or after another transaction.               *)
LEMMA ReplaceStep ==
  ASSUME JobsInv, NEW w \in QueueWorker, Tally!DeleteRows(w) \/ Tally!Unblock(w)
  PROVE  JobsInv'
<1>1. Works(w) /\ at'[w] \in {"blocked", "count"} /\ job' = job
  BY DEF JobsInv, JobsTypeOK, Tally!DeleteRows, Tally!Unblock, Works
<1>2. mem'[w].replaced <= rows.generation /\ mem'[w].replaced \in Nat
  BY DEF JobsInv, JobsTypeOK, Memory, DeletedOK, Tally!DeleteRows, Tally!Unblock
<1>3. JobsTypeOK'
  <2>1. mem' \in [QueueWorker -> Memory]
    BY DEF JobsInv, JobsTypeOK, Memory, Tally!DeleteRows, Tally!Unblock
  <2>2. at' \in [QueueWorker -> JobSteps]
    BY DEF JobsInv, JobsTypeOK, JobSteps, Tally!InTransaction, Tally!DeleteRows, Tally!Unblock
  <2>3. vote' = vote /\ rows' = rows /\ job' = job
    BY DEF Tally!DeleteRows, Tally!Unblock
  <2> QED
    BY <2>1, <2>2, <2>3 DEF JobsInv, JobsTypeOK
<1>4. CountsOK' /\ InsertedOK'
  BY <1>1 DEF JobsInv, CountsOK, InsertedOK, HasCounted, Works
<1>5. DeletedOK'
  BY <1>1, <1>2 DEF JobsInv, DeletedOK, HasCounted, Works
<1> QED
  BY <1>3, <1>4, <1>5 DEF JobsInv

(* The votes are counted as they are, after the rows were deleted.           *)
LEMMA CountStep == ASSUME JobsInv, NEW w \in QueueWorker, Tally!CountVotes(w) PROVE JobsInv'
<1>1. Works(w) /\ at[w] = "count" /\ at'[w] = "insert" /\ job' = job
  BY DEF JobsInv, JobsTypeOK, Memory, Tally!CountVotes, Works
<1>2. mem'[w].of = vote /\ mem'[w].replaced = mem[w].replaced
  BY DEF JobsInv, JobsTypeOK, Memory, Tally!CountVotes
<1>3. JobsTypeOK'
  BY DEF JobsInv, JobsTypeOK, Memory, JobSteps, Tally!InTransaction, Tally!CountVotes
<1>4. CountsOK'
  BY <1>1, <1>2, NotOlderSame DEF JobsInv, CountsOK, HasCounted, Works
<1>5. DeletedOK'
  BY <1>1, <1>2 DEF JobsInv, CountsOK, DeletedOK, HasCounted, Works
<1>6. InsertedOK'
  BY <1>1 DEF JobsInv, InsertedOK, Works
<1> QED
  BY <1>3, <1>4, <1>5, <1>6 DEF JobsInv

(* The rows are inserted if those deleted are still the last ones.           *)
LEMMA InsertStep == ASSUME JobsInv, NEW w \in QueueWorker, Tally!InsertRows(w) PROVE JobsInv'
<1>1. CASE Tally!Leave(w, "ready")
  <2>1. vote' = vote /\ rows' = rows
    BY DEF Tally!InsertRows
  <2> QED
    BY <1>1, <2>1, LeaveStep
<1>2. CASE /\ rows.generation = mem[w].replaced
           /\ at' = [at EXCEPT ![w] = "commit"] /\ UNCHANGED <<job, mem>>
  <2>1. Works(w) /\ at[w] = "insert" /\ at'[w] = "commit"
    BY <1>2 DEF JobsInv, JobsTypeOK, Tally!InsertRows, Works
  <2>2. JobsTypeOK'
    BY <1>2 DEF JobsInv, JobsTypeOK, JobSteps, Tally!InTransaction, Tally!InsertRows
  <2>3. CountsOK' /\ DeletedOK'
    BY <1>2, <2>1 DEF JobsInv, CountsOK, DeletedOK, HasCounted, Works
  <2>4. InsertedOK'
    BY <1>2, <2>1 DEF JobsInv, InsertedOK, Tally!InsertRows, Works
  <2> QED
    BY <2>2, <2>3, <2>4 DEF JobsInv
<1> QED
  BY <1>1, <1>2 DEF Tally!InsertRows

(* What a commit publishes is not older than what it replaces.               *)
LEMMA CommitNotOlder ==
  ASSUME JobsInv, NEW w \in QueueWorker, Tally!Commit(w)
  PROVE  /\ rows'.of = mem[w].of /\ rows'.generation = rows.generation + 1
         /\ NotOlder(vote, mem[w].of) /\ NotOlder(mem[w].of, rows.of)
<1>1. /\ at[w] = "commit"
      /\ rows' = [made |-> TRUE, of |-> mem[w].of, generation |-> rows.generation + 1]
  BY DEF Tally!Commit
<1>2. mem[w].replaced = rows.generation
  BY <1>1 DEF JobsInv, InsertedOK
<1> QED
  BY <1>1, <1>2 DEF JobsInv, CountsOK, DeletedOK, HasCounted

(* The rows are published: those who deleted older ones will not insert.     *)
LEMMA CommitStep == ASSUME JobsInv, NEW w \in QueueWorker, Tally!Commit(w) PROVE JobsInv'
<1>1. /\ at[w] = "commit" /\ at'[w] = "idle" /\ vote' = vote
      /\ \A q \in QueueWorker : q # w => at'[q] = at[q] /\ mem'[q] = mem[q]
  BY DEF JobsInv, JobsTypeOK, Tally!Commit, Tally!Leave, Tally!Free
<1>2. JobsTypeOK'
  <2>1. job' \in [Job -> Place]
    <3>1. Tally!Leave(w, "done")
      BY DEF Tally!Commit
    <3> QED
      BY <3>1, LeaveType DEF JobsInv
  <2>3. rows' \in [made : BOOLEAN, of : Tally!Count, generation : Nat]
    BY DEF JobsInv, JobsTypeOK, Memory, Tally!Commit
  <2> QED
    BY <1>1, <2>1, <2>3, BlankType
    DEF JobsInv, JobsTypeOK, JobSteps, Tally!Commit, Tally!Leave, Tally!Free
<1>3. CountsOK'
  BY <1>1, CommitNotOlder DEF JobsInv, CountsOK, HasCounted
<1>4. DeletedOK'
  <2>1. rows.generation \in Nat /\ \A q \in QueueWorker : mem[q].replaced \in Nat
    BY DEF JobsInv, JobsTypeOK, Memory
  <2> QED
    BY <1>1, <2>1, CommitNotOlder DEF JobsInv, DeletedOK, HasCounted
<1>5. InsertedOK'
  BY <1>1 DEF JobsInv, InsertedOK
<1> QED
  BY <1>2, <1>3, <1>4, <1>5 DEF JobsInv

(* A transaction is rolled back.                                             *)
LEMMA CrashStep == ASSUME JobsInv, NEW w \in QueueWorker, Tally!Crash(w) PROVE JobsInv'
<1>2. JobsTypeOK'
  BY BlankType DEF JobsInv, JobsTypeOK, JobSteps, Tally!Crash, Tally!Free
<1>3. Works(w) /\ at'[w] = "idle"
  BY DEF JobsInv, JobsTypeOK, Tally!Crash, Tally!Free, Works
<1> QED
  BY <1>2, <1>3, RestStep

(* Every step keeps the invariant.                                           *)
LEMMA NextJobs == JobsInv /\ [Tally!Next]_Tally!vars => JobsInv'
<1> SUFFICES ASSUME JobsInv, [Tally!Next]_Tally!vars PROVE JobsInv'
  OBVIOUS
<1>1. ASSUME \/ Tally!End \/ Tally!DispatchAtEnd \/ Tally!CrashAtEnd \/ Tally!Calculate
             \/ Tally!ExpireLock \/ (\E j \in Job : Tally!Redeliver(j)) \/ UNCHANGED Tally!vars
      PROVE  JobsInv'
  <2>1. UNCHANGED <<vote, rows, at, mem>>
    BY <1>1
    DEF Tally!End, Tally!DispatchAtEnd, Tally!CrashAtEnd, Tally!Calculate, Tally!ExpireLock,
        Tally!Redeliver, Tally!vars
  <2>2. job' \in [Job -> Place]
    <3>1. \/ job' = job
          \/ \E j \in Job : job' = [job EXCEPT ![j].place = "ready"]
      BY <1>1
      DEF Tally!End, Tally!DispatchAtEnd, Tally!CrashAtEnd, Tally!Calculate, Tally!ExpireLock,
          Tally!Redeliver, Tally!Dispatch, Tally!vars
    <3> QED
      BY <3>1, JobType DEF JobsInv, JobsTypeOK
  <2> QED
    BY <2>1, <2>2, QueueStep
<1> QED
  BY <1>1, VoteStep, TakeStep, LockStep, ReplaceStep, CountStep, InsertStep, CommitStep,
    CrashStep
  DEF Tally!Next, Tally!Work, Tally!Queue

(* The invariant holds of every behaviour.                                   *)
LEMMA JobsInvariance == Tally!Spec => []JobsInv
  BY InitJobs, NextJobs, PTL DEF Tally!Spec

(* However many calculations run at once, over whatever lock, the results    *)
(* published are never replaced by an older count.                           *)
THEOREM PublishedNeverRegress == Tally!Spec => ResultsNeverRegress
<1>1. JobsInv /\ [Tally!Next]_Tally!vars =>
        [rows.made => \A v \in Vote : Age(rows'.of[v]) >= Age(rows.of[v])]_rows
  <2> SUFFICES ASSUME JobsInv, Tally!Next PROVE NotOlder(rows'.of, rows.of)
    BY DEF NotOlder, Age, Tally!Age, Tally!vars
  <2>1. ASSUME NEW w \in QueueWorker, Tally!Commit(w) PROVE NotOlder(rows'.of, rows.of)
    BY <2>1, CommitNotOlder
  <2>2. CASE rows' = rows
    BY <2>2, NotOlderSame
  <2>3. rows' = rows \/ \E w \in QueueWorker : Tally!Commit(w)
    BY DEF Tally!Next, Tally!Work, Tally!Queue, Tally!BeginVote, Tally!CompleteVote,
           Tally!FlagFraud, Tally!End, Tally!DispatchAtEnd, Tally!CrashAtEnd, Tally!Calculate,
           Tally!Take, Tally!Lock, Tally!DeleteRows, Tally!Unblock, Tally!CountVotes,
           Tally!InsertRows, Tally!Crash, Tally!ExpireLock, Tally!Redeliver
  <2> QED
    BY <2>1, <2>2, <2>3
<1> QED
  BY <1>1, JobsInvariance, PTL DEF Tally!Spec, ResultsNeverRegress

-----------------------------------------------------------------------------
(* The trash of one election: Trash, whose requests are at the step doing,   *)
(* on a record.  Each promise is kept under fewer faults by an invariant of  *)
(* its own.                                                                  *)
VARIABLES doing, on, cleaning

Bin == INSTANCE Trash WITH pc <- doing, of <- on

Record == [made : BOOLEAN, expired : BOOLEAN, restored : BOOLEAN, force_deleted : BOOLEAN]

TrashSteps == {"idle", "snapshot", "delete", "restore", "markRestored", "force", "markForced", "done"}

(* A request that works on a record that there is.                           *)
OnRecord(r) == doing[r] \in {"restore", "markRestored", "force", "markForced"}

TrashTypeOK == /\ entity \in {"live", "trashed", "swept", "gone"}
          /\ record \in [Request -> Record]
          /\ doing \in [Request -> TrashSteps]
          /\ on \in [Request -> Request \cup {None}]
          /\ purging \in SUBSET Request
          /\ cleaning \in BOOLEAN
          /\ faults \in SUBSET {"overlap", "crash", "stale page"}

(* A record is that of a request which has taken its snapshot.               *)
RecordsOK ==
  /\ \A r \in Request : doing[r] \in {"idle", "snapshot"} => record[r] = Bin!NoRecord
  /\ \A r \in Request : OnRecord(r) => on[r] \in Request /\ record[on[r]].made
  /\ \A d \in purging : record[d].made

(* Whatever the faults, the record is marked after the entity is destroyed.  *)
ForcedOK == /\ ForcedIsGone
            /\ \A r \in Request : doing[r] = "markForced" => entity = "gone"

(* Until requests overlap, one thing is done at a time.                      *)
AloneOK == "overlap" \notin faults =>
  /\ \A r, s \in Request : Bin!Busy(r) /\ Bin!Busy(s) => r = s
  /\ \A r \in Request : Bin!Busy(r) => purging = {} /\ ~cleaning
  /\ purging # {} => ~cleaning

Lists(d) == record[d].made /\ ~record[d].restored /\ ~record[d].force_deleted

(* A record leaves the list only of an entity that is not, or not any more,  *)
(* in the trash, whichever worker dies.                                      *)
TrashedOK == faults \subseteq {"crash"} =>
  /\ entity = "trashed" => \E d \in Request : Lists(d)
  /\ \A r \in Request : doing[r] \in {"snapshot", "delete", "markRestored"} => entity = "live"
  /\ \A r \in Request : doing[r] = "delete" => Lists(r)

(* Without any fault one record at most is listed, and that of a live entity *)
(* only while the request that deletes or restores it goes on.               *)
LiveOK == faults = {} =>
  /\ \A d, e \in Request : Lists(d) /\ Lists(e) => d = e
  /\ \A r \in Request : doing[r] = "restore" => Lists(on[r])
  /\ entity = "live" => \A d \in Request : Lists(d) =>
       \E r \in Request : \/ doing[r] = "delete" /\ r = d
                          \/ doing[r] = "markRestored" /\ on[r] = d
  /\ purging # {} => entity # "live"

TrashInv == TrashTypeOK /\ RecordsOK /\ ForcedOK /\ AloneOK /\ TrashedOK /\ LiveOK

USE DEF Bin!Busy, OnRecord, Lists, Bin!NoRecord

-----------------------------------------------------------------------------
(* Nothing is trashed yet, and no request has begun.                         *)
LEMMA InitTrash == Bin!Init => TrashInv
<1> SUFFICES ASSUME Bin!Init PROVE TrashInv
  OBVIOUS
<1>1. TrashTypeOK /\ RecordsOK
  BY DEF Bin!Init, TrashTypeOK, RecordsOK, Record, TrashSteps
<1>2. ForcedOK /\ AloneOK /\ TrashedOK /\ LiveOK
  BY DEF Bin!Init, ForcedOK, ForcedIsGone, AloneOK, TrashedOK, LiveOK
<1> QED
  BY <1>1, <1>2 DEF TrashInv

(* No overlap is noted only when nothing was under way.                      *)
LEMMA NothingUnderWay ==
  ASSUME Bin!Overlap = {}
  PROVE  purging = {} /\ ~cleaning /\ \A r \in Request : ~Bin!Busy(r)
<1> DEFINE B == {r \in Request : Bin!Busy(r)}
<1>1. IsFiniteSet(B)
  BY RequestAssumption, FS_Subset
<1>2. Cardinality(B) \in Nat
  BY <1>1, FS_CardinalityType
<1>3. Bin!Cardinality(B) = Cardinality(B)
  BY DEF Bin!Cardinality, Cardinality
<1>4. Cardinality(B) = 0 /\ purging = {} /\ ~cleaning
  BY <1>2, <1>3 DEF Bin!Overlap, Bin!Executing
<1>5. B = {}
  BY <1>1, <1>4, FS_EmptySet
<1> QED
  BY <1>4, <1>5

(* What a beginning adds to the faults.                                      *)
LEMMA OverlapType == Bin!Overlap \in {{}, {"overlap"}}
  BY DEF Bin!Overlap

(* A step of one request, and one that sets a mark of one record.            *)
Moves(r, from, to) == /\ doing[r] = from /\ doing'[r] = to
                      /\ \A u \in Request : u # r => doing'[u] = doing[u]

Begins(r) == /\ faults \subseteq faults'
             /\ cleaning' = cleaning
             /\ "overlap" \notin faults' => purging = {} /\ ~cleaning /\ \A u \in Request : ~Bin!Busy(u)

Marks(d, made, restored, force_deleted) ==
  /\ record'[d].made = made /\ record'[d].restored = restored
  /\ record'[d].force_deleted = force_deleted
  /\ \A e \in Request : e # d => record'[e] = record[e]

(* One record gets another value, ...                                        *)
LEMMA Marking ==
  ASSUME TrashTypeOK, NEW d \in Request, NEW f \in Record, record' = [record EXCEPT ![d] = f]
  PROVE  /\ record' \in [Request -> Record]
         /\ Marks(d, f.made, f.restored, f.force_deleted)
  BY DEF TrashTypeOK, Marks

(* ... which differs by one mark.                                            *)
LEMMA MarkType ==
  ASSUME NEW f \in Record
  PROVE  /\ [f EXCEPT !.made = TRUE] \in Record
         /\ [f EXCEPT !.expired = TRUE] \in Record
         /\ [f EXCEPT !.restored = TRUE] \in Record
         /\ [f EXCEPT !.force_deleted = TRUE] \in Record
  BY DEF Record

(* No step leaves the types.                                                 *)
LEMMA TrashTypeStep == TrashInv /\ Bin!Next => TrashTypeOK'
<1> SUFFICES ASSUME TrashInv, Bin!Next PROVE TrashTypeOK'
  OBVIOUS
<1>1. TrashTypeOK
  BY DEF TrashInv
<1>2. ASSUME NEW d \in Request
      PROVE  /\ [record EXCEPT ![d].made = TRUE] \in [Request -> Record]
             /\ [record EXCEPT ![d].expired = TRUE] \in [Request -> Record]
             /\ [record EXCEPT ![d].restored = TRUE] \in [Request -> Record]
             /\ [record EXCEPT ![d].force_deleted = TRUE] \in [Request -> Record]
  <2>1. record[d] \in Record
    BY <1>1 DEF TrashTypeOK
  <2> QED
    BY <1>1, <2>1, MarkType DEF TrashTypeOK
<1>3. ASSUME NEW r \in Request, Bin!ReceiveDelete(r) PROVE TrashTypeOK'
  BY <1>1, <1>3, OverlapType DEF TrashTypeOK, TrashSteps, Bin!ReceiveDelete, Bin!Begin, Bin!Goto
<1>4. ASSUME NEW r \in Request, Bin!Snapshot(r) PROVE TrashTypeOK'
  BY <1>1, <1>2, <1>4 DEF TrashTypeOK, TrashSteps, Bin!Snapshot, Bin!Goto
<1>5. ASSUME NEW r \in Request, Bin!SoftDelete(r) \/ Bin!Restore(r) \/ Bin!ForceDelete(r) PROVE TrashTypeOK'
  BY <1>1, <1>5 DEF TrashTypeOK, TrashSteps, Bin!SoftDelete, Bin!Restore, Bin!ForceDelete,
    Bin!Goto
<1>6. ASSUME NEW r \in Request, Bin!MarkRestored(r) PROVE TrashTypeOK'
  <2>1. on[r] \in Request
    BY <1>6 DEF TrashInv, RecordsOK, Bin!MarkRestored, Bin!MarkForced
  <2> QED
    BY <1>1, <1>2, <1>6, <2>1 DEF TrashTypeOK, TrashSteps, Bin!MarkRestored, Bin!Goto
<1>7. ASSUME NEW r \in Request, Bin!MarkForced(r) PROVE TrashTypeOK'
  <2>1. on[r] \in Request
    BY <1>7 DEF TrashInv, RecordsOK, Bin!MarkRestored, Bin!MarkForced
  <2> QED
    BY <1>1, <1>2, <1>7, <2>1 DEF TrashTypeOK, TrashSteps, Bin!MarkForced, Bin!Goto
<1>8. ASSUME NEW r \in Request, Bin!Crash(r) PROVE TrashTypeOK'
  BY <1>1, <1>8 DEF TrashTypeOK, TrashSteps, Bin!Crash, Bin!Goto
<1>9. ASSUME NEW r \in Request, NEW d \in Request, Bin!ReceiveOn(r, d) PROVE TrashTypeOK'
  BY <1>1, <1>9, OverlapType DEF TrashTypeOK, TrashSteps, Bin!ReceiveOn, Bin!Begin, Bin!Goto
<1>10. ASSUME NEW d \in Request, Bin!Expire(d) PROVE TrashTypeOK'
  BY <1>1, <1>2, <1>10 DEF TrashTypeOK, Bin!Expire
<1>12. ASSUME NEW d \in Request, Bin!Purge(d) PROVE TrashTypeOK'
  <2>1. record' \in [Request -> Record]
    BY <1>1, <1>2, <1>12 DEF TrashTypeOK, Bin!Purge
  <2> QED
    BY <1>1, <1>12, <2>1 DEF TrashTypeOK, Bin!Purge
<1>11. ASSUME Bin!ListExpired PROVE TrashTypeOK'
  BY <1>1, <1>11, OverlapType DEF TrashTypeOK, Bin!ListExpired, Bin!Listed
<1>13. ASSUME Bin!ListStale \/ Bin!CleanStaleDraft \/ Bin!CrashCleaning PROVE TrashTypeOK'
  BY <1>1, <1>13, OverlapType DEF TrashTypeOK, Bin!ListStale, Bin!CleanStaleDraft, Bin!CrashCleaning
<1> QED
  BY <1>3, <1>4, <1>5, <1>6, <1>7, <1>8, <1>9, <1>10, <1>11, <1>12, <1>13 DEF Bin!Next, Bin!Execute

(* A deletion begins.                                                        *)
LEMMA ReceiveDeleteStep ==
  ASSUME TrashInv, NEW r \in Request, Bin!ReceiveDelete(r)
  PROVE  RecordsOK' /\ ForcedOK' /\ AloneOK' /\ TrashedOK' /\ LiveOK'
<1>1. /\ Moves(r, "idle", "snapshot") /\ Begins(r)
      /\ on'[r] = r /\ \A u \in Request : u # r => on'[u] = on[u]
      /\ entity = "live" /\ UNCHANGED <<entity, record, purging>>
  BY NothingUnderWay, OverlapType DEF TrashInv, TrashTypeOK, TrashSteps, RecordsOK, Moves,
    Begins, Bin!ReceiveDelete, Bin!Begin, Bin!Goto
<1>2. RecordsOK'
  BY <1>1 DEF TrashInv, TrashTypeOK, RecordsOK, Moves, Marks
<1>3. ForcedOK'
  BY <1>1 DEF TrashInv, ForcedOK, ForcedIsGone, Moves, Marks
<1>4. AloneOK'
  BY <1>1 DEF TrashInv, TrashTypeOK, AloneOK, Moves, Begins
<1>5. TrashedOK'
  BY <1>1 DEF TrashInv, TrashTypeOK, AloneOK, TrashedOK, Moves, Marks, Begins
<1>6. LiveOK'
  BY <1>1 DEF TrashInv, TrashTypeOK, RecordsOK, AloneOK, TrashedOK, LiveOK, Moves, Marks, Begins
<1> QED
  BY <1>2, <1>3, <1>4, <1>5, <1>6

(* The record is made before the entity is trashed.                          *)
LEMMA SnapshotStep ==
  ASSUME TrashInv, NEW r \in Request, Bin!Snapshot(r)
  PROVE  RecordsOK' /\ ForcedOK' /\ AloneOK' /\ TrashedOK' /\ LiveOK'
<1>1. /\ Moves(r, "snapshot", "delete") /\ UNCHANGED <<entity, on, purging, cleaning, faults>>
      /\ record[r] = Bin!NoRecord /\ Marks(r, TRUE, FALSE, FALSE)
  <2>1. r \in Request /\ record[r] \in Record
    BY DEF TrashInv, TrashTypeOK, RecordsOK, Bin!Snapshot, Bin!Goto
  <2>2. [record[r] EXCEPT !.made = TRUE] \in Record
    BY <2>1, MarkType
  <2>3. record' = [record EXCEPT ![r] = [record[r] EXCEPT !.made = TRUE]]
    BY DEF Bin!Snapshot, Bin!Goto
  <2>4. Marks(r, [record[r] EXCEPT !.made = TRUE].made,
          [record[r] EXCEPT !.made = TRUE].restored, [record[r] EXCEPT !.made = TRUE].force_deleted)
    BY <2>1, <2>2, <2>3, Marking DEF TrashInv
  <2>5. record[r] = Bin!NoRecord
    BY DEF TrashInv, RecordsOK, Bin!Snapshot
  <2>6. Marks(r, TRUE, FALSE, FALSE)
    BY <2>1, <2>4, <2>5 DEF Record, Marks
  <2> QED
    BY <2>5, <2>6 DEF TrashInv, TrashTypeOK, TrashSteps, Moves, Bin!Snapshot, Bin!Goto
<1>2. RecordsOK'
  BY <1>1 DEF TrashInv, TrashTypeOK, RecordsOK, Moves, Marks
<1>3. ForcedOK'
  BY <1>1 DEF TrashInv, ForcedOK, ForcedIsGone, Moves, Marks
<1>4. AloneOK'
  BY <1>1 DEF TrashInv, TrashTypeOK, AloneOK, Moves, Begins
<1>5. TrashedOK'
  BY <1>1 DEF TrashInv, TrashTypeOK, AloneOK, TrashedOK, Moves, Marks, Begins
<1>6. LiveOK'
  BY <1>1 DEF TrashInv, TrashTypeOK, RecordsOK, AloneOK, TrashedOK, LiveOK, Moves, Marks, Begins
<1> QED
  BY <1>2, <1>3, <1>4, <1>5, <1>6

(* The entity is trashed, or stays gone.                                     *)
LEMMA SoftDeleteStep ==
  ASSUME TrashInv, NEW r \in Request, Bin!SoftDelete(r)
  PROVE  RecordsOK' /\ ForcedOK' /\ AloneOK' /\ TrashedOK' /\ LiveOK'
<1>1. /\ Moves(r, "delete", "done") /\ UNCHANGED <<record, on, purging, cleaning, faults>>
      /\ entity' = IF entity = "gone" THEN "gone" ELSE "trashed"
  BY DEF TrashInv, TrashTypeOK, TrashSteps, RecordsOK, Moves, Begins, Bin!SoftDelete, Bin!Goto
<1>2. RecordsOK'
  BY <1>1 DEF TrashInv, TrashTypeOK, RecordsOK, Moves, Marks
<1>3. ForcedOK'
  BY <1>1 DEF TrashInv, ForcedOK, ForcedIsGone, Moves, Marks
<1>4. AloneOK'
  BY <1>1 DEF TrashInv, TrashTypeOK, AloneOK, Moves, Begins
<1>5. TrashedOK'
  BY <1>1 DEF TrashInv, TrashTypeOK, AloneOK, TrashedOK, Moves, Marks, Begins
<1>6. LiveOK'
  BY <1>1 DEF TrashInv, TrashTypeOK, RecordsOK, AloneOK, TrashedOK, LiveOK, Moves, Marks, Begins
<1> QED
  BY <1>2, <1>3, <1>4, <1>5, <1>6

(* A request on a record begins.                                             *)
LEMMA ReceiveOnStep ==
  ASSUME TrashInv, NEW r \in Request, NEW d \in Request, Bin!ReceiveOn(r, d)
  PROVE  RecordsOK' /\ ForcedOK' /\ AloneOK' /\ TrashedOK' /\ LiveOK'
<1>1. /\ Moves(r, "idle", "restore") \/ Moves(r, "idle", "force")
      /\ Begins(r) /\ record[d].made /\ (faults' = {} => Lists(d))
      /\ on'[r] = d /\ \A u \in Request : u # r => on'[u] = on[u]
      /\ UNCHANGED <<entity, record, purging>>
  BY NothingUnderWay, OverlapType DEF TrashInv, TrashTypeOK, TrashSteps, RecordsOK, Moves,
    Begins, Bin!ReceiveOn, Bin!Begin, Bin!Goto, Bin!Listed
<1>2. RecordsOK'
  BY <1>1 DEF TrashInv, TrashTypeOK, RecordsOK, Moves, Marks
<1>3. ForcedOK'
  BY <1>1 DEF TrashInv, ForcedOK, ForcedIsGone, Moves, Marks
<1>4. AloneOK'
  BY <1>1 DEF TrashInv, TrashTypeOK, AloneOK, Moves, Begins
<1>5. TrashedOK'
  BY <1>1 DEF TrashInv, TrashTypeOK, AloneOK, TrashedOK, Moves, Marks, Begins
<1>6. LiveOK'
  BY <1>1 DEF TrashInv, TrashTypeOK, RecordsOK, AloneOK, TrashedOK, LiveOK, Moves, Marks, Begins
<1> QED
  BY <1>2, <1>3, <1>4, <1>5, <1>6

(* The entity is live again.                                                 *)
LEMMA RestoreStep ==
  ASSUME TrashInv, NEW r \in Request, Bin!Restore(r)
  PROVE  RecordsOK' /\ ForcedOK' /\ AloneOK' /\ TrashedOK' /\ LiveOK'
<1>1. /\ UNCHANGED <<record, on, purging, cleaning, faults>>
      /\ \/ entity = "gone" /\ entity' = "gone" /\ Moves(r, "restore", "done")
         \/ entity # "gone" /\ entity' = "live" /\ Moves(r, "restore", "markRestored")
  BY DEF TrashInv, TrashTypeOK, TrashSteps, RecordsOK, Moves, Begins, Bin!Restore, Bin!Goto
<1>2. RecordsOK'
  BY <1>1 DEF TrashInv, TrashTypeOK, RecordsOK, Moves, Marks
<1>3. ForcedOK'
  BY <1>1 DEF TrashInv, ForcedOK, ForcedIsGone, Moves, Marks
<1>4. AloneOK'
  BY <1>1 DEF TrashInv, TrashTypeOK, AloneOK, Moves, Begins
<1>5. TrashedOK'
  BY <1>1 DEF TrashInv, TrashTypeOK, AloneOK, TrashedOK, Moves, Marks, Begins
<1>6. LiveOK'
  BY <1>1 DEF TrashInv, TrashTypeOK, RecordsOK, AloneOK, TrashedOK, LiveOK, Moves, Marks, Begins
<1> QED
  BY <1>2, <1>3, <1>4, <1>5, <1>6

(* Its record leaves the list.                                               *)
LEMMA MarkRestoredStep ==
  ASSUME TrashInv, NEW r \in Request, Bin!MarkRestored(r)
  PROVE  RecordsOK' /\ ForcedOK' /\ AloneOK' /\ TrashedOK' /\ LiveOK'
<1>1. /\ Moves(r, "markRestored", "done") /\ UNCHANGED <<entity, on, purging, cleaning, faults>>
      /\ on[r] \in Request /\ record[on[r]].made
      /\ Marks(on[r], record[on[r]].made, TRUE, record[on[r]].force_deleted)
  <2>1. on[r] \in Request /\ record[on[r]] \in Record
    BY DEF TrashInv, TrashTypeOK, RecordsOK, Bin!MarkRestored, Bin!Goto
  <2>2. [record[on[r]] EXCEPT !.restored = TRUE] \in Record
    BY <2>1, MarkType
  <2>3. record' = [record EXCEPT ![on[r]] = [record[on[r]] EXCEPT !.restored = TRUE]]
    BY DEF Bin!MarkRestored, Bin!Goto
  <2>4. Marks(on[r], [record[on[r]] EXCEPT !.restored = TRUE].made,
          [record[on[r]] EXCEPT !.restored = TRUE].restored, [record[on[r]] EXCEPT !.restored = TRUE].force_deleted)
    BY <2>1, <2>2, <2>3, Marking DEF TrashInv
  <2> QED
    BY <2>1, <2>4 DEF TrashInv, TrashTypeOK, Record, TrashSteps, RecordsOK, ForcedOK, Moves,
      Bin!MarkRestored, Bin!Goto
<1>2. RecordsOK'
  <2>1. \A e \in Request : record'[e].made = record[e].made
    BY <1>1 DEF Marks
  <2>2. doing[on[r]] \notin {"idle", "snapshot"}
    BY <1>1 DEF TrashInv, RecordsOK
  <2>3. \A e \in Request : doing'[e] \in {"idle", "snapshot"} => record'[e] = Bin!NoRecord
    BY <1>1, <2>2 DEF TrashInv, RecordsOK, Moves, Marks
  <2> QED
    BY <1>1, <2>1, <2>3 DEF TrashInv, TrashTypeOK, RecordsOK, Moves
<1>3. ForcedOK'
  BY <1>1 DEF TrashInv, ForcedOK, ForcedIsGone, Moves, Marks
<1>4. AloneOK'
  BY <1>1 DEF TrashInv, TrashTypeOK, AloneOK, Moves, Begins
<1>5. TrashedOK'
  BY <1>1 DEF TrashInv, TrashTypeOK, AloneOK, TrashedOK, Moves, Marks, Begins
<1>6. LiveOK'
  BY <1>1 DEF TrashInv, TrashTypeOK, RecordsOK, AloneOK, TrashedOK, LiveOK, Moves, Marks, Begins
<1> QED
  BY <1>2, <1>3, <1>4, <1>5, <1>6

(* The entity is destroyed, or was.                                          *)
LEMMA ForceDeleteStep ==
  ASSUME TrashInv, NEW r \in Request, Bin!ForceDelete(r)
  PROVE  RecordsOK' /\ ForcedOK' /\ AloneOK' /\ TrashedOK' /\ LiveOK'
<1>1. /\ UNCHANGED <<record, on, purging, cleaning, faults>> /\ entity' = "gone"
      /\ Moves(r, "force", "done") \/ Moves(r, "force", "markForced")
  BY DEF TrashInv, TrashTypeOK, TrashSteps, RecordsOK, Moves, Begins, Bin!ForceDelete, Bin!Goto
<1>2. RecordsOK'
  BY <1>1 DEF TrashInv, TrashTypeOK, RecordsOK, Moves, Marks
<1>3. ForcedOK'
  BY <1>1 DEF TrashInv, ForcedOK, ForcedIsGone, Moves, Marks
<1>4. AloneOK'
  BY <1>1 DEF TrashInv, TrashTypeOK, AloneOK, Moves, Begins
<1>5. TrashedOK'
  BY <1>1 DEF TrashInv, TrashTypeOK, AloneOK, TrashedOK, Moves, Marks, Begins
<1>6. LiveOK'
  BY <1>1 DEF TrashInv, TrashTypeOK, RecordsOK, AloneOK, TrashedOK, LiveOK, Moves, Marks, Begins
<1> QED
  BY <1>2, <1>3, <1>4, <1>5, <1>6

(* Its record says so.                                                       *)
LEMMA MarkForcedStep ==
  ASSUME TrashInv, NEW r \in Request, Bin!MarkForced(r)
  PROVE  RecordsOK' /\ ForcedOK' /\ AloneOK' /\ TrashedOK' /\ LiveOK'
<1>1. /\ Moves(r, "markForced", "done") /\ UNCHANGED <<entity, on, purging, cleaning, faults>>
      /\ on[r] \in Request /\ record[on[r]].made /\ entity = "gone"
      /\ Marks(on[r], record[on[r]].made, record[on[r]].restored, TRUE)
  <2>1. on[r] \in Request /\ record[on[r]] \in Record
    BY DEF TrashInv, TrashTypeOK, RecordsOK, Bin!MarkForced, Bin!Goto
  <2>2. [record[on[r]] EXCEPT !.force_deleted = TRUE] \in Record
    BY <2>1, MarkType
  <2>3. record' = [record EXCEPT ![on[r]] = [record[on[r]] EXCEPT !.force_deleted = TRUE]]
    BY DEF Bin!MarkForced, Bin!Goto
  <2>4. Marks(on[r], [record[on[r]] EXCEPT !.force_deleted = TRUE].made,
          [record[on[r]] EXCEPT !.force_deleted = TRUE].restored, [record[on[r]] EXCEPT !.force_deleted = TRUE].force_deleted)
    BY <2>1, <2>2, <2>3, Marking DEF TrashInv
  <2> QED
    BY <2>1, <2>4 DEF TrashInv, TrashTypeOK, Record, TrashSteps, RecordsOK, ForcedOK, Moves,
      Bin!MarkForced, Bin!Goto
<1>2. RecordsOK'
  <2>1. \A e \in Request : record'[e].made = record[e].made
    BY <1>1 DEF Marks
  <2>2. doing[on[r]] \notin {"idle", "snapshot"}
    BY <1>1 DEF TrashInv, RecordsOK
  <2>3. \A e \in Request : doing'[e] \in {"idle", "snapshot"} => record'[e] = Bin!NoRecord
    BY <1>1, <2>2 DEF TrashInv, RecordsOK, Moves, Marks
  <2> QED
    BY <1>1, <2>1, <2>3 DEF TrashInv, TrashTypeOK, RecordsOK, Moves
<1>3. ForcedOK'
  BY <1>1 DEF TrashInv, ForcedOK, ForcedIsGone, Moves, Marks
<1>4. AloneOK'
  BY <1>1 DEF TrashInv, TrashTypeOK, AloneOK, Moves, Begins
<1>5. TrashedOK'
  BY <1>1 DEF TrashInv, TrashTypeOK, AloneOK, TrashedOK, Moves, Marks, Begins
<1>6. LiveOK'
  BY <1>1 DEF TrashInv, TrashTypeOK, RecordsOK, AloneOK, TrashedOK, LiveOK, Moves, Marks, Begins
<1> QED
  BY <1>2, <1>3, <1>4, <1>5, <1>6

(* A worker dies.                                                            *)
LEMMA DieStep ==
  ASSUME TrashInv, NEW r \in Request, Bin!Crash(r)
  PROVE  RecordsOK' /\ ForcedOK' /\ AloneOK' /\ TrashedOK' /\ LiveOK'
<1>1. /\ Bin!Busy(r) /\ Moves(r, doing[r], "done") /\ UNCHANGED <<entity, record, on, purging, cleaning>>
      /\ faults' = faults \cup {"crash"}
  BY DEF TrashInv, TrashTypeOK, TrashSteps, RecordsOK, Moves, Begins, Bin!Crash, Bin!Goto
<1>2. RecordsOK'
  BY <1>1 DEF TrashInv, TrashTypeOK, RecordsOK, Moves, Marks
<1>3. ForcedOK'
  BY <1>1 DEF TrashInv, ForcedOK, ForcedIsGone, Moves, Marks
<1>4. AloneOK'
  BY <1>1 DEF TrashInv, TrashTypeOK, AloneOK, Moves, Begins
<1>5. TrashedOK'
  BY <1>1 DEF TrashInv, TrashTypeOK, AloneOK, TrashedOK, Moves, Marks, Begins
<1>6. LiveOK'
  BY <1>1 DEF TrashInv, TrashTypeOK, RecordsOK, AloneOK, TrashedOK, LiveOK, Moves, Marks, Begins
<1> QED
  BY <1>2, <1>3, <1>4, <1>5, <1>6

(* A record expires.                                                         *)
LEMMA ExpireStep ==
  ASSUME TrashInv, NEW d \in Request, Bin!Expire(d)
  PROVE  RecordsOK' /\ ForcedOK' /\ AloneOK' /\ TrashedOK' /\ LiveOK'
<1>1. /\ record[d].made /\ UNCHANGED <<entity, doing, on, purging, cleaning, faults>>
      /\ Marks(d, TRUE, record[d].restored, record[d].force_deleted)
  <2>1. d \in Request /\ record[d] \in Record
    BY DEF TrashInv, TrashTypeOK, RecordsOK, Bin!Expire
  <2>2. [record[d] EXCEPT !.expired = TRUE] \in Record
    BY <2>1, MarkType
  <2>3. record' = [record EXCEPT ![d] = [record[d] EXCEPT !.expired = TRUE]]
    BY DEF Bin!Expire
  <2>4. Marks(d, [record[d] EXCEPT !.expired = TRUE].made,
          [record[d] EXCEPT !.expired = TRUE].restored, [record[d] EXCEPT !.expired = TRUE].force_deleted)
    BY <2>1, <2>2, <2>3, Marking DEF TrashInv
  <2> QED
    BY <2>1, <2>4 DEF TrashInv, TrashTypeOK, Record, TrashSteps, RecordsOK, ForcedOK, Moves,
      Bin!Expire
<1>2. RecordsOK'
  <2>1. \A e \in Request : record'[e].made = record[e].made
    BY <1>1 DEF Marks
  <2>2. doing[d] \notin {"idle", "snapshot"}
    BY <1>1 DEF TrashInv, RecordsOK
  <2>3. \A e \in Request : doing'[e] \in {"idle", "snapshot"} => record'[e] = Bin!NoRecord
    BY <1>1, <2>2 DEF TrashInv, RecordsOK, Moves, Marks
  <2> QED
    BY <1>1, <2>1, <2>3 DEF TrashInv, TrashTypeOK, RecordsOK, Moves
<1>3. ForcedOK'
  BY <1>1 DEF TrashInv, ForcedOK, ForcedIsGone, Moves, Marks
<1>4. AloneOK'
  BY <1>1 DEF TrashInv, TrashTypeOK, AloneOK, Moves, Begins
<1>5. TrashedOK'
  BY <1>1 DEF TrashInv, TrashTypeOK, AloneOK, TrashedOK, Moves, Marks, Begins
<1>6. LiveOK'
  BY <1>1 DEF TrashInv, TrashTypeOK, RecordsOK, AloneOK, TrashedOK, LiveOK, Moves, Marks, Begins
<1> QED
  BY <1>2, <1>3, <1>4, <1>5, <1>6

(* The purge lists the records that expired.                                 *)
LEMMA ListExpiredStep ==
  ASSUME TrashInv, Bin!ListExpired
  PROVE  RecordsOK' /\ ForcedOK' /\ AloneOK' /\ TrashedOK' /\ LiveOK'
<1>1. /\ \A d \in purging' : d \in Request /\ Lists(d)
      /\ purging' # {} /\ UNCHANGED <<entity, record, doing, on, cleaning>>
      /\ faults \subseteq faults'
      /\ "overlap" \notin faults' => ~cleaning /\ \A u \in Request : ~Bin!Busy(u)
  BY NothingUnderWay, OverlapType DEF TrashInv, TrashTypeOK, TrashSteps, RecordsOK, Moves,
    Begins, Bin!ListExpired, Bin!Listed
<1>2. RecordsOK'
  BY <1>1 DEF TrashInv, TrashTypeOK, RecordsOK, Moves, Marks
<1>3. ForcedOK'
  BY <1>1 DEF TrashInv, ForcedOK, ForcedIsGone, Moves, Marks
<1>4. AloneOK'
  BY <1>1 DEF TrashInv, TrashTypeOK, AloneOK, Moves, Begins
<1>5. TrashedOK'
  BY <1>1 DEF TrashInv, TrashTypeOK, AloneOK, TrashedOK, Moves, Marks, Begins
<1>6. LiveOK'
  <2> SUFFICES ASSUME faults' = {} PROVE LiveOK'
    BY DEF LiveOK
  <2>1. faults = {} /\ \A u \in Request : ~Bin!Busy(u)
    BY <1>1
  <2>2. entity # "live"
    BY <1>1, <2>1 DEF TrashInv, LiveOK
  <2> QED
    BY <1>1, <2>1, <2>2 DEF TrashInv, LiveOK
<1> QED
  BY <1>2, <1>3, <1>4, <1>5, <1>6

(* One of them is purged.                                                    *)
LEMMA PurgeStep ==
  ASSUME TrashInv, NEW d \in Request, Bin!Purge(d)
  PROVE  RecordsOK' /\ ForcedOK' /\ AloneOK' /\ TrashedOK' /\ LiveOK'
<1>1. /\ d \in purging /\ purging' \subseteq purging /\ entity' = "gone"
      /\ record[d].made /\ UNCHANGED <<doing, on, cleaning, faults>>
      /\ \/ record' = record
         \/ Marks(d, TRUE, record[d].restored, TRUE)
  <2>1. d \in Request /\ record[d] \in Record
    BY DEF TrashInv, TrashTypeOK, RecordsOK, Bin!Purge
  <2>2. [record[d] EXCEPT !.force_deleted = TRUE] \in Record
    BY <2>1, MarkType
  <2>3. record' # record => record' = [record EXCEPT ![d] = [record[d] EXCEPT !.force_deleted = TRUE]]
    BY DEF Bin!Purge
  <2>4. record' # record => Marks(d, [record[d] EXCEPT !.force_deleted = TRUE].made,
          [record[d] EXCEPT !.force_deleted = TRUE].restored, [record[d] EXCEPT !.force_deleted = TRUE].force_deleted)
    BY <2>1, <2>2, <2>3, Marking DEF TrashInv
  <2> QED
    BY <2>1, <2>4 DEF TrashInv, TrashTypeOK, Record, TrashSteps, RecordsOK, ForcedOK, Moves,
      Bin!Purge
<1>2. RecordsOK'
  <2>1. \A e \in Request : record'[e].made = record[e].made
    BY <1>1 DEF Marks
  <2>2. doing[d] \notin {"idle", "snapshot"}
    BY <1>1 DEF TrashInv, RecordsOK
  <2>3. \A e \in Request : doing'[e] \in {"idle", "snapshot"} => record'[e] = Bin!NoRecord
    BY <1>1, <2>2 DEF TrashInv, RecordsOK, Moves, Marks
  <2> QED
    BY <1>1, <2>1, <2>3 DEF TrashInv, TrashTypeOK, RecordsOK, Moves
<1>3. ForcedOK'
  BY <1>1 DEF TrashInv, ForcedOK, ForcedIsGone, Moves, Marks
<1>4. AloneOK'
  BY <1>1 DEF TrashInv, TrashTypeOK, AloneOK, Moves, Begins
<1>5. TrashedOK'
  BY <1>1 DEF TrashInv, TrashTypeOK, AloneOK, TrashedOK, Moves, Marks, Begins
<1>6. LiveOK'
  BY <1>1 DEF TrashInv, TrashTypeOK, RecordsOK, AloneOK, TrashedOK, LiveOK, Moves, Marks, Begins
<1> QED
  BY <1>2, <1>3, <1>4, <1>5, <1>6

(* The job lists the draft.                                                  *)
LEMMA ListStaleStep ==
  ASSUME TrashInv, Bin!ListStale
  PROVE  RecordsOK' /\ ForcedOK' /\ AloneOK' /\ TrashedOK' /\ LiveOK'
<1>1. /\ faults \subseteq faults' /\ UNCHANGED <<entity, record, doing, on, purging>>
      /\ "overlap" \notin faults' => purging = {} /\ \A u \in Request : ~Bin!Busy(u)
  BY NothingUnderWay, OverlapType DEF Bin!ListStale
<1>2. RecordsOK' /\ ForcedOK'
  BY <1>1 DEF TrashInv, RecordsOK, ForcedOK, ForcedIsGone
<1>3. AloneOK'
  BY <1>1 DEF TrashInv, AloneOK
<1>4. TrashedOK' /\ LiveOK'
  BY <1>1 DEF TrashInv, TrashedOK, LiveOK
<1> QED
  BY <1>2, <1>3, <1>4

(* The draft is swept, if it is still live: then no request is at work on    *)
(* it, unless they overlap.                                                  *)
LEMMA CleanStaleDraftStep ==
  ASSUME TrashInv, Bin!CleanStaleDraft
  PROVE  RecordsOK' /\ ForcedOK' /\ AloneOK' /\ TrashedOK' /\ LiveOK'
<1>1. /\ cleaning /\ ~cleaning' /\ UNCHANGED <<record, doing, on, purging, faults>>
      /\ \/ entity' = entity
         \/ entity = "live" /\ entity' = "swept"
  BY DEF TrashInv, TrashTypeOK, Bin!CleanStaleDraft
<1>2. RecordsOK' /\ ForcedOK'
  BY <1>1 DEF TrashInv, RecordsOK, ForcedOK, ForcedIsGone
<1>3. AloneOK'
  BY <1>1 DEF TrashInv, AloneOK
<1>4. "overlap" \notin faults => \A u \in Request : ~Bin!Busy(u)
  BY <1>1 DEF TrashInv, AloneOK
<1>5. TrashedOK'
  BY <1>1, <1>4 DEF TrashInv, TrashedOK
<1>6. LiveOK'
  BY <1>1 DEF TrashInv, LiveOK
<1> QED
  BY <1>2, <1>3, <1>5, <1>6

(* The job dies.                                                             *)
LEMMA CrashCleaningStep ==
  ASSUME TrashInv, Bin!CrashCleaning
  PROVE  RecordsOK' /\ ForcedOK' /\ AloneOK' /\ TrashedOK' /\ LiveOK'
<1>1. /\ ~cleaning' /\ UNCHANGED <<entity, record, doing, on, purging>>
      /\ faults' = faults \cup {"crash"}
  BY DEF TrashInv, TrashTypeOK, Bin!CrashCleaning
<1>2. RecordsOK' /\ ForcedOK'
  BY <1>1 DEF TrashInv, RecordsOK, ForcedOK, ForcedIsGone
<1>3. AloneOK'
  BY <1>1 DEF TrashInv, AloneOK
<1>4. TrashedOK' /\ LiveOK'
  BY <1>1 DEF TrashInv, TrashedOK, LiveOK
<1> QED
  BY <1>2, <1>3, <1>4

-----------------------------------------------------------------------------
(* Every step keeps the invariant.                                           *)
LEMMA NextTrash == TrashInv /\ [Bin!Next]_Bin!vars => TrashInv'
<1> SUFFICES ASSUME TrashInv, [Bin!Next]_Bin!vars PROVE TrashInv'
  OBVIOUS
<1>1. CASE Bin!Next
  <2>1. TrashTypeOK'
    BY <1>1, TrashTypeStep
  <2>2. RecordsOK' /\ ForcedOK' /\ AloneOK' /\ TrashedOK' /\ LiveOK'
    BY <1>1, ReceiveDeleteStep, SnapshotStep, SoftDeleteStep, ReceiveOnStep, RestoreStep,
       MarkRestoredStep, ForceDeleteStep, MarkForcedStep, DieStep, ExpireStep,
       ListExpiredStep, PurgeStep, ListStaleStep, CleanStaleDraftStep, CrashCleaningStep
    DEF Bin!Next, Bin!Execute
  <2> QED
    BY <2>1, <2>2 DEF TrashInv
<1>2. CASE UNCHANGED Bin!vars
  BY <1>2 DEF Bin!vars, TrashInv, TrashTypeOK, RecordsOK, ForcedOK, ForcedIsGone, AloneOK,
    TrashedOK, LiveOK
<1> QED
  BY <1>1, <1>2

(* The invariant holds of every behaviour.                                   *)
LEMMA TrashInvariance == Bin!Spec => []TrashInv
  BY InitTrash, NextTrash, PTL DEF Bin!Spec

(* Whatever overlaps or dies, an entity whose record says that it is         *)
(* destroyed does not come back.                                             *)
THEOREM DestroyedIsGone == Bin!Spec => []ForcedIsGone
<1>1. TrashInv => ForcedIsGone
  BY DEF TrashInv, ForcedOK
<1> QED
  BY <1>1, TrashInvariance, PTL

(* Whichever workers die, an entity that a request trashed is found in the   *)
(* trash, as long as requests do not overlap and no page is out of date.     *)
THEOREM TrashIsComplete == Bin!Spec => []TrashedIsListed
<1>1. TrashInv => TrashedIsListed
  BY DEF TrashInv, TrashedOK, TrashedIsListed, Listed
<1> QED
  BY <1>1, TrashInvariance, PTL

(* The purge destroys an entity in use only after a fault.                   *)
THEOREM PurgeSparesTheLive == Bin!Spec => PurgeKeepsLive
<1>1. TrashInv /\ [Bin!Next]_Bin!vars =>
        [(entity = "live" /\ entity' = "gone" /\ purging' # purging) => faults # {}]_
          <<entity, record, purging, faults>>
  <2> SUFFICES ASSUME TrashInv, Bin!Next, entity = "live", entity' = "gone", purging' # purging
               PROVE  faults # {}
    BY DEF Bin!vars
  <2>1. purging # {}
    BY DEF Bin!Next, Bin!Execute, Bin!ReceiveDelete, Bin!Snapshot, Bin!SoftDelete,
      Bin!ReceiveOn, Bin!Restore, Bin!MarkRestored,
           Bin!ForceDelete, Bin!MarkForced, Bin!Crash, Bin!Expire, Bin!ListExpired, Bin!Purge,
           Bin!ListStale, Bin!CleanStaleDraft, Bin!CrashCleaning
  <2> QED
    BY <2>1 DEF TrashInv, LiveOK
<1> QED
  BY <1>1, TrashInvariance, PTL DEF Bin!Spec, PurgeKeepsLive
===============================================================================
