-------------------------- MODULE ElectionLifecycle ---------------------------
(***************************************************************************)
(* The elections of one organisation: ElectionController and               *)
(* ElectionService (publish, start, end, pause, resume, update, destroy)   *)
(* executed by web workers on behalf of the organisers, and the command    *)
(* elections:process-lifecycle that the scheduler runs every minute.       *)
(* Each of them loads an Election model, decides on that copy, and saves   *)
(* the columns it changed without looking at the row again.                *)
(***************************************************************************)
EXTENDS Naturals, FiniteSets

CONSTANTS
  Election,
  Worker,        \* web workers executing an organiser's request
  Scheduler,     \* the process of elections:process-lifecycle (withoutOverlapping)
  AtOnce,        \* processes that execute at the same time
  MaxElections,  \* subscription_plans.max_elections
  Horizon,       \* bound: the last instant considered
  MaxVotes,      \* bound: votes counted per election
  None

ASSUME SchedulerAssumption == Scheduler \notin Worker
ASSUME AtOnceAssumption == AtOnce \in Nat \ {0}
ASSUME PlanAssumption == MaxElections \in Nat \ {0}
ASSUME HorizonAssumption == Horizon \in Nat \ {0, 1, 2}
ASSUME VotesAssumption == MaxVotes \in Nat \ {0}

VARIABLES
  now,
  row,        \* row[e]: the elections row of e
  unpaid,     \* elections with a pending vote: payment under way or request in flight
  queued,     \* elections of which a CalculateElectionResults job was dispatched
  pc, model,  \* the next step of each process, and the Election it has loaded
  todo,       \* models the scheduler's command has listed and not yet handled
  stage       \* where that command is

vars == <<now, row, unpaid, queued, pc, model, todo, stage>>

-----------------------------------------------------------------------------
Process == Worker \cup {Scheduler}
Dates == 1 .. Horizon - 1

(* "draft" stands for "pending" too: no guard tells them apart.              *)
Statuses == {"draft", "published", "ongoing", "paused", "closed"}

Row == [status : Statuses, start_at : Dates, end_at : Dates,
        total_votes : 0 .. MaxVotes, deleted : BOOLEAN]

ASSUME NoneAssumption == None \notin [of : Election, status : Statuses, start_at : Dates,
                                      end_at : Dates, total_votes : 0 .. MaxVotes]

Operations == {"publish", "start", "end", "pause", "resume", "update", "destroy"}

Loaded(e) == [of |-> e, status |-> row[e].status, start_at |-> row[e].start_at,
              end_at |-> row[e].end_at, total_votes |-> row[e].total_votes]

Present == {e \in Election : ~row[e].deleted}
Active == {e \in Present : row[e].status \in {"published", "ongoing"}}

IsVotable(m) == m.status = "ongoing" /\ m.start_at <= now /\ m.end_at >= now

IsEditable(m) == \/ m.status \in {"draft", "published"}
                 \/ m.status = "ongoing" /\ m.total_votes = 0

Init ==
  /\ now = 0
  /\ \E s, e \in Dates : s < e /\ row = [x \in Election |->
       [status |-> "draft", start_at |-> s, end_at |-> e, total_votes |-> 0, deleted |-> FALSE]]
  /\ unpaid = {}
  /\ queued = {}
  /\ pc = [p \in Process |-> "idle"]
  /\ model = [p \in Process |-> None]
  /\ todo = {}
  /\ stage = "resting"

-----------------------------------------------------------------------------
Goto(p, step) == pc' = [pc EXCEPT ![p] = step] /\ UNCHANGED model
Finish(p) == pc' = [pc EXCEPT ![p] = "idle"] /\ model' = [model EXCEPT ![p] = None]
Handle(p, op, m) == pc' = [pc EXCEPT ![p] = op] /\ model' = [model EXCEPT ![p] = m]
Save(e, column, value) == row' = [row EXCEPT ![e] = [@ EXCEPT ![column] = value]]
Busy(p) == pc[p] # "idle" \/ (p = Scheduler /\ stage # "resting")
HasSlot == Cardinality({p \in Process : Busy(p)}) < AtOnce

(* Route model binding: the request of an organiser loads its election.      *)
Receive(w) ==
  /\ pc[w] = "idle" /\ HasSlot
  /\ \E e \in Present, op \in Operations : Handle(w, op, Loaded(e))
  /\ UNCHANGED <<now, row, unpaid, queued, todo, stage>>

(* CleanStaleDrafts, a queued job: the drafts it lists are deleted as listed. *)
CleanDraft(w) ==
  /\ pc[w] = "idle" /\ HasSlot
  /\ \E e \in Present : row[e].status = "draft" /\ Handle(w, "delete", Loaded(e))
  /\ UNCHANGED <<now, row, unpaid, queued, todo, stage>>

(* ElectionService::publish refuses without an active subscription, or two   *)
(* approved candidates (or open candidacies), which are not modelled: a      *)
(* request may be refused whatever the state.  The quota is a count made     *)
(* before the save.                                                          *)
Publish(p) ==
  /\ pc[p] = "publish"
  /\ \/ /\ model[p].status = "draft"
        /\ Cardinality(Active) < MaxElections
        /\ Goto(p, "savePublish")
     \/ Finish(p)
  /\ UNCHANGED <<now, row, unpaid, queued, todo, stage>>

SavePublish(p) ==
  /\ pc[p] = "savePublish"
  /\ Save(model[p].of, "status", "published")
  /\ Finish(p)
  /\ UNCHANGED <<now, unpaid, queued, todo, stage>>

(* An operation that checks its model, then saves a new status.              *)
Transition(p, op, allowed, status, next) ==
  /\ pc[p] = op
  /\ IF allowed THEN /\ Save(model[p].of, "status", status)
                     /\ IF next = "idle" THEN Finish(p) ELSE Goto(p, next)
                ELSE UNCHANGED row /\ Finish(p)
  /\ UNCHANGED <<now, unpaid, queued, todo, stage>>

Start(p) == Transition(p, "start",
                       model[p].status = "published" /\ model[p].start_at <= now, "ongoing", "idle")

(* A mutant: the results job is forgotten.                                   *)
End_WithoutResults(p) == Transition(p, "end",
  model[p].status \in {"published", "ongoing", "paused"}, "closed", "idle")

End(p) == Transition(p, "end",
                     model[p].status \in {"published", "ongoing", "paused"}, "closed", "dispatch")

Pause(p) == Transition(p, "pause", model[p].status = "ongoing", "paused", "idle")

(* A mutant: a closed election can be resumed.                               *)
Resume_Closed(p) == Transition(p, "resume",
  model[p].status \in {"paused", "closed"} /\ model[p].end_at > now, "ongoing", "idle")

Resume(p) == Transition(p, "resume",
                        model[p].status = "paused" /\ model[p].end_at > now, "ongoing", "idle")

(* ElectionService::end, after close(): the results job.                     *)
Dispatch(p) ==
  /\ pc[p] = "dispatch"
  /\ queued' = queued \cup {model[p].of}
  /\ Finish(p)
  /\ UNCHANGED <<now, row, unpaid, todo, stage>>

(* update(): UpdateElectionRequest wants a new start in the future, unless   *)
(* the election is ongoing, and a new end after the start of the same        *)
(* request.  Only the changed columns are written.                           *)
Update(p) ==
  /\ pc[p] = "update"
  /\ IF IsEditable(model[p])
     THEN \E s, e \in Dates :
            /\ s # model[p].start_at => s >= now \/ model[p].status = "ongoing"
            /\ e # model[p].end_at => s = model[p].start_at \/ e > s
            /\ LET saved == row[model[p].of]
               IN row' = [row EXCEPT ![model[p].of] =
                    [saved EXCEPT !.start_at = IF s = model[p].start_at THEN saved.start_at ELSE s,
                                  !.end_at = IF e = model[p].end_at THEN saved.end_at ELSE e]]
     ELSE UNCHANGED row
  /\ Finish(p)
  /\ UNCHANGED <<now, unpaid, queued, todo, stage>>

(* destroy(): refused once there are votes; then the trash record (Trash)    *)
(* and the soft delete.                                                      *)
Destroy(p) ==
  /\ pc[p] = "destroy"
  /\ IF model[p].total_votes > 0 THEN Finish(p) ELSE Goto(p, "delete")
  /\ UNCHANGED <<now, row, unpaid, queued, todo, stage>>

Delete(p) ==
  /\ pc[p] = "delete"
  /\ Save(model[p].of, "deleted", TRUE)
  /\ Finish(p)
  /\ UNCHANGED <<now, unpaid, queued, todo, stage>>

Execute(p) == \/ Publish(p) \/ SavePublish(p) \/ Start(p) \/ End(p) \/ Dispatch(p)
              \/ Pause(p) \/ Resume(p) \/ Update(p) \/ Destroy(p) \/ Delete(p)

-----------------------------------------------------------------------------
(* startDueElections and closeExpiredElections: each lists its elections     *)
(* once, then calls ElectionService on the models of that list.              *)
List(from, to, listed) ==
  /\ stage = from /\ todo = {} /\ pc[Scheduler] = "idle"
  /\ todo' = {Loaded(e) : e \in listed}
  /\ stage' = to
  /\ UNCHANGED <<now, row, unpaid, queued, pc, model>>

ListDue == HasSlot /\ List("resting", "starting",
  {e \in Present : row[e].status = "published" /\ row[e].start_at <= now})

(* A mutant: elections that were never started are closed, and only these.   *)
ListExpired_Published == List("starting", "closing",
  {e \in Active : row[e].status = "published" /\ row[e].end_at < now})

ListExpired == List("starting", "closing",
  {e \in Active : row[e].end_at < now})

FinishTick == List("closing", "resting", {})

HandleNext ==
  /\ pc[Scheduler] = "idle"
  /\ \E m \in todo : /\ Handle(Scheduler, IF stage = "starting" THEN "start" ELSE "end", m)
                     /\ todo' = todo \ {m}
  /\ UNCHANGED <<now, row, unpaid, queued, stage>>

Tick == ListDue \/ ListExpired \/ HandleNext \/ FinishTick

-----------------------------------------------------------------------------
(* Voters: a vote is accepted while the election is votable, and counted     *)
(* when its transaction commits or its payment is confirmed; that of a       *)
(* deleted election fails, $vote->election being null.                       *)
BeginVote(e) ==
  /\ e \in Present /\ IsVotable(Loaded(e))
  /\ unpaid' = unpaid \cup {e}
  /\ UNCHANGED <<now, row, queued, pc, model, todo, stage>>

CountVote(e) ==
  /\ e \in Present \cap unpaid /\ row[e].total_votes < MaxVotes
  /\ unpaid' = unpaid \ {e}
  /\ Save(e, "total_votes", row[e].total_votes + 1)
  /\ UNCHANGED <<now, queued, pc, model, todo, stage>>

PassTime ==
  /\ now < Horizon
  /\ now' = now + 1
  /\ UNCHANGED <<row, unpaid, queued, pc, model, todo, stage>>

Next == \/ \E w \in Worker : Receive(w) \/ CleanDraft(w)
        \/ \E p \in Process : Execute(p)
        \/ Tick
        \/ \E e \in Election : BeginVote(e) \/ CountVote(e)
        \/ PassTime

Spec == Init /\ [][Next]_vars

(* Time passes, a process goes on with what it has begun, and cron runs the  *)
(* command every minute; organisers and voters need not act.                 *)
FairSpec == /\ Spec
            /\ WF_vars(PassTime)
            /\ \A p \in Process : WF_vars(Execute(p))
            /\ WF_vars(Tick)

-----------------------------------------------------------------------------
(* ElectionStatus::isTerminal, as far as it holds: every save overwrites the *)
(* status with one derived from the copy its process loaded, and a closed    *)
(* election is reopened only from a copy older than its closure.             *)
ReopenedByStaleCopy ==
  [][\A e \in Election : (row[e].status = "closed" /\ row'[e].status # "closed") =>
       \E p \in Process : /\ model[p] # None
                           /\ model[p].of = e
                           /\ model[p].status # "closed"]_vars

(* A closed election has its results requested, or the process that closed   *)
(* it is about to.                                                           *)
ClosedIsQueued ==
  \A e \in Election : row[e].status = "closed" =>
    e \in queued \/ \E p \in Process : pc[p] = "dispatch" /\ model[p].of = e

(* Whatever the organisers and the scheduler overwrite of each other's       *)
(* decisions (a reopened or republished election, a moved date), every       *)
(* election ends up out of "published" and "ongoing" for good.               *)
EveryElectionStops == <>[](\A e \in Election : e \notin Active)

=============================================================================
