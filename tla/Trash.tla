--------------------------------- MODULE Trash --------------------------------
(***************************************************************************)
(* The trash, for one election (or candidate): ElectionController::destroy *)
(* (CandidateController::destroy) with TrashService::snapshot,             *)
(* TrashController::restore and forceDelete, the daily command             *)
(* trash:purge-expired, and the daily job CleanStaleDrafts, which deletes  *)
(* elections without a snapshot.  The entity and its trash_records row are *)
(* written by separate statements, in no transaction.                      *)
(* A trash_records row is named after the request that created it.         *)
(***************************************************************************)
EXTENDS TrashBin, Naturals

CONSTANTS
  AtOnce,   \* requests and purges executed at once
  None

ASSUME AtOnceAssumption == AtOnce \in Nat \ {0}
ASSUME NoneAssumption == None \notin Request

VARIABLES
  pc,       \* the next step of each request
  of,       \* the trash record that request is about
  cleaning  \* CleanStaleDrafts has the entity, an old draft, in its list

vars == <<entity, record, pc, of, purging, cleaning, faults>>

-----------------------------------------------------------------------------
NoRecord == [made |-> FALSE, expired |-> FALSE, restored |-> FALSE, force_deleted |-> FALSE]

Busy(r) == pc[r] \notin {"idle", "done"}
Resting == \A r \in Request : ~Busy(r)

Init ==
  /\ entity = "live"
  /\ record = [d \in Request |-> NoRecord]
  /\ pc = [r \in Request |-> "idle"]
  /\ of = [r \in Request |-> None]
  /\ purging = {}
  /\ cleaning = FALSE
  /\ faults = {}

-----------------------------------------------------------------------------
Goto(r, step) == pc' = [pc EXCEPT ![r] = step]
Executing == Cardinality({r \in Request : Busy(r)}) + (IF purging = {} THEN 0 ELSE 1)
             + (IF cleaning THEN 1 ELSE 0)
Overlap == IF Executing = 0 THEN {} ELSE {"overlap"}
Begin(r) == pc[r] = "idle" /\ Executing < AtOnce

(* Route model binding finds no trashed entity; the election has no votes.   *)
ReceiveDelete(r) ==
  /\ Begin(r) /\ entity = "live"
  /\ Goto(r, "snapshot")
  /\ of' = [of EXCEPT ![r] = r]
  /\ faults' = faults \cup Overlap
  /\ UNCHANGED <<entity, record, purging, cleaning>>

(* A mutant: the failure to snapshot is ignored.                             *)
Snapshot_Failed(r) ==
  /\ pc[r] = "snapshot"
  /\ Goto(r, "delete")
  /\ UNCHANGED <<entity, record, of, purging, cleaning, faults>>

Snapshot(r) ==
  /\ pc[r] = "snapshot"
  /\ record' = [record EXCEPT ![r].made = TRUE]
  /\ Goto(r, "delete")
  /\ UNCHANGED <<entity, of, purging, cleaning, faults>>

(* A mutant: the row is written again after it was destroyed.                *)
SoftDelete_Revives(r) ==
  /\ pc[r] = "delete"
  /\ entity' = "trashed"
  /\ Goto(r, "done")
  /\ UNCHANGED <<record, of, purging, cleaning, faults>>

(* UPDATE ... SET deleted_at: of no effect on a row that is gone.            *)
SoftDelete(r) ==
  /\ pc[r] = "delete"
  /\ entity' = IF entity = "gone" THEN "gone" ELSE "trashed"
  /\ Goto(r, "done")
  /\ UNCHANGED <<record, of, purging, cleaning, faults>>

(* restore and forceDelete look at none of the record's dates: that it is    *)
(* still listed is up to the page (Corbeille.jsx) that shows it.             *)
ReceiveOn(r, d) ==
  /\ Begin(r) /\ record[d].made
  /\ \E op \in {"restore", "force"} : Goto(r, op)
  /\ of' = [of EXCEPT ![r] = d]
  /\ faults' = faults \cup Overlap \cup (IF d \in Listed THEN {} ELSE {"stale page"})
  /\ UNCHANGED <<entity, record, purging, cleaning>>

Restore(r) ==
  /\ pc[r] = "restore"
  /\ IF entity = "gone" THEN Goto(r, "done") /\ UNCHANGED entity
                        ELSE Goto(r, "markRestored") /\ entity' = "live"
  /\ UNCHANGED <<record, of, purging, cleaning, faults>>

MarkRestored(r) ==
  /\ pc[r] = "markRestored"
  /\ record' = [record EXCEPT ![of[r]].restored = TRUE]
  /\ Goto(r, "done")
  /\ UNCHANGED <<entity, of, purging, cleaning, faults>>

ForceDelete(r) ==
  /\ pc[r] = "force"
  /\ IF entity = "gone" THEN Goto(r, "done") /\ UNCHANGED entity
                        ELSE Goto(r, "markForced") /\ entity' = "gone"
  /\ UNCHANGED <<record, of, purging, cleaning, faults>>

MarkForced(r) ==
  /\ pc[r] = "markForced"
  /\ record' = [record EXCEPT ![of[r]].force_deleted = TRUE]
  /\ Goto(r, "done")
  /\ UNCHANGED <<entity, of, purging, cleaning, faults>>

Crash(r) ==
  /\ Busy(r)
  /\ Goto(r, "done")
  /\ faults' = faults \cup {"crash"}
  /\ UNCHANGED <<entity, record, of, purging, cleaning>>

-----------------------------------------------------------------------------
(* expires_at: 60 days after the record, when no request of then still runs. *)
Expire(d) ==
  /\ record[d].made /\ ~record[d].expired
  /\ pc[d] = "done" /\ Resting
  /\ record' = [record EXCEPT ![d].expired = TRUE]
  /\ UNCHANGED <<entity, pc, of, purging, cleaning, faults>>

(* trash:purge-expired lists the expired records, then force-deletes what    *)
(* each of them is about.                                                    *)
ListExpired ==
  /\ purging = {} /\ Executing < AtOnce
  /\ purging' = {d \in Listed : record[d].expired}
  /\ purging' # {}
  /\ faults' = faults \cup Overlap
  /\ UNCHANGED <<entity, record, pc, of, cleaning>>

Purge(d) ==
  /\ d \in purging
  /\ purging' = purging \ {d}
  /\ entity' = "gone"
  /\ record' = IF entity = "gone" THEN record ELSE [record EXCEPT ![d].force_deleted = TRUE]
  /\ UNCHANGED <<pc, of, cleaning, faults>>

-----------------------------------------------------------------------------
(* CleanStaleDrafts lists the drafts that nobody has touched for a week ...  *)
ListStale ==
  /\ entity = "live" /\ ~cleaning /\ Executing < AtOnce
  /\ cleaning' = TRUE
  /\ faults' = faults \cup Overlap
  /\ UNCHANGED <<entity, record, pc, of, purging>>

(* ... and deletes each, as it is by then, with no snapshot.                 *)
CleanStaleDraft ==
  /\ cleaning
  /\ cleaning' = FALSE
  /\ entity' = IF entity = "live" THEN "swept" ELSE entity
  /\ UNCHANGED <<record, pc, of, purging, faults>>

CrashCleaning ==
  /\ cleaning
  /\ cleaning' = FALSE
  /\ faults' = faults \cup {"crash"}
  /\ UNCHANGED <<entity, record, pc, of, purging>>

-----------------------------------------------------------------------------
Execute(r) == \/ Snapshot(r) \/ SoftDelete(r) \/ Restore(r) \/ MarkRestored(r)
              \/ ForceDelete(r) \/ MarkForced(r)

Next == \/ \E r \in Request : ReceiveDelete(r) \/ Execute(r) \/ Crash(r)
        \/ \E r, d \in Request : ReceiveOn(r, d)
        \/ \E d \in Request : Expire(d) \/ Purge(d)
        \/ ListExpired \/ ListStale \/ CleanStaleDraft \/ CrashCleaning

Spec == Init /\ [][Next]_vars
===============================================================================
