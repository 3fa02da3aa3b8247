------------------------------- MODULE TrashBin -------------------------------
(***************************************************************************)
(* The trash of one election (or candidate) as an organiser sees it: the   *)
(* entity, the records that are listed of it, and what is promised of both *)
(* whatever has disturbed the requests.                                    *)
(***************************************************************************)
EXTENDS FiniteSets

CONSTANT Request  \* HTTP requests on the entity or on one of its trash records

ASSUME RequestAssumption == IsFiniteSet(Request)

VARIABLES
  entity,   \* "live", "trashed" or "swept" (deleted_at is set, by a request or by
            \* CleanStaleDrafts), or "gone" (force-deleted)
  record,   \* record[d]: the trash_records row that request d created
  purging,  \* the records that the purge command has listed
  faults    \* what has disturbed the requests so far: "overlap", "crash", "stale page"

-----------------------------------------------------------------------------
(* A mutant: restored records stay in the trash.                             *)
Listed_Restored == {d \in Request : record[d].made /\ ~record[d].force_deleted}

(* The rows that TrashController::index lists.                               *)
Listed == {d \in Request : record[d].made /\ ~record[d].restored /\ ~record[d].force_deleted}

-----------------------------------------------------------------------------
(* A record marked as force-deleted is that of an entity which is gone: no   *)
(* late restore, second deletion or crash brings back a row that the trash   *)
(* says is destroyed.                                                        *)
ForcedIsGone == \A d \in Request : record[d].force_deleted => entity = "gone"

(* "ne purge pas les elements deja restaures" (PurgeExpiredTrashTest.php:53),*)
(* as far as it holds: the purge destroys an entity in use only once         *)
(* requests have overlapped, a worker has died, or a page was out of date.   *)
PurgeKeepsLive ==
  [][(entity = "live" /\ entity' = "gone" /\ purging' # purging) => faults # {}]_
    <<entity, record, purging, faults>>

(* What an organiser puts in the trash can be found there: an entity trashed *)
(* by a request has a record from which it can be restored, and which lets   *)
(* it expire.  A crash does not lose it, an overlap or a page that is out of *)
(* date may.  A draft that CleanStaleDrafts swept has no record at all.      *)
TrashedIsListed == (faults \subseteq {"crash"} /\ entity = "trashed") => Listed # {}
===============================================================================
