------------------------------ MODULE JobIndex ------------------------------
(***************************************************************************)
(* SqliteJobStorage (utils/job_storage.py): records are blobs, the index   *)
(* of jobs is a table that is pruned, and filled once from the index blob  *)
(* of the earlier backend.  The process can die between any two steps.     *)
(* The listing of the table is compared with that of the other backends.   *)
(* A record and a row are abstracted to the status.                        *)
(***************************************************************************)
EXTENDS Naturals, Sequences, FiniteSets, FiniteSetsExt, SequencesExt

CONSTANTS IndexedJobs    \* bound: job ids are 1 .. IndexedJobs

VARIABLES
  store,   \* [about, record, legacy, old]: what lasts apart from the table
  table    \* [row, up, saving, told, lost]: the table and the process

jiVars == <<store, table>>

Jobs == 1 .. IndexedJobs
None == 0
Statuses == 1 .. 3         \* pending, running, ended
Ended(status) == status = 3

-----------------------------------------------------------------------------
(* Listing.                                                                 *)

Newer(i, j) ==
  \/ store.about[i].at > store.about[j].at
  \/ store.about[i].at = store.about[j].at /\ i > j

\* _filter_summaries and _sort_summaries, on the summaries of an index.
Filtered(index, user, ids, statuses) ==
  {j \in Jobs : /\ index[j] # None
                /\ user = 0 \/ store.about[j].user = user
                /\ ids = {0} \/ j \in ids
                /\ statuses = {} \/ index[j] \in statuses
                /\ ~store.about[j].child}

\* Each job stands after the newer ones.
InOrder(jobs) ==
  [k \in 1 .. Cardinality(jobs) |-> CHOOSE j \in jobs : Cardinality({i \in jobs : Newer(i, j)}) = k - 1]
Listed(index, user, ids, statuses) == InOrder(Filtered(index, user, ids, statuses))

\* The query of the table, in clauses; ids = {0} stands for None.
Where(j, user, ids, statuses) ==
  /\ ids # {}
  /\ user # 0 => store.about[j].user = user
  /\ ids # {0} => j \in ids
  /\ statuses # {} => table.row[j] \in statuses
  /\ ~store.about[j].child
Selected(user, ids, statuses) == {j \in Jobs : table.row[j] # None /\ Where(j, user, ids, statuses)}

\* ORDER BY submitted_at_ts DESC, job_id DESC LIMIT size OFFSET (page - 1) * size
Offset(page, size) == (IF page > 1 THEN page - 1 ELSE 0) * size
Page(user, ids, statuses, page, size) ==
  LET rows == Selected(user, ids, statuses)
      before(i) == Cardinality({j \in rows : Newer(j, i)})
      first == Offset(page, size)
  IN  InOrder({i \in rows : before(i) \in first .. first + size - 1})

-----------------------------------------------------------------------------
(* Steps.                                                                   *)

\* The other backend has left an index blob; some job of it may have moved on.
JiInit ==
  /\ \E at \in [Jobs -> {1, 2}], child \in SUBSET {IndexedJobs}, legacy \in [Jobs -> {None, 2, 3}] :
       /\ at[IndexedJobs] = 1
       /\ store = [about |-> [j \in Jobs |-> [at |-> at[j], user |-> 1 + (j % 2), child |-> j \in child]],
                   record |-> legacy, legacy |-> legacy, old |-> {}]
       /\ table = [row |-> [j \in Jobs |-> None], up |-> FALSE, saving |-> [j \in Jobs |-> FALSE],
                   told |-> {}, lost |-> FALSE]

\* _backfill_if_empty: one transaction; the read of the index blob may fail.
Start ==
  /\ ~table.up
  /\ \E readable \in BOOLEAN :
       LET empty == \A j \in Jobs : table.row[j] = None
       IN  table' = [table EXCEPT !.up = TRUE,
                       !.row = IF empty /\ readable THEN store.legacy ELSE @,
                       !.lost = @ \/ (empty /\ ~readable)]
  /\ UNCHANGED store

\* _save_record_blobs, under the save lock of the job; a record may be saved again unchanged.
SaveBlobs(j) ==
  /\ table.up /\ ~table.saving[j]
  /\ \E status \in Statuses : status >= store.record[j] /\ store' = [store EXCEPT !.record[j] = status]
  /\ table' = [table EXCEPT !.saving[j] = TRUE]

\* Ended jobs that were submitted before the cutoff.
Prunable_Any(row, j) == j \in store.old
Prunable(row, j) == j \in store.old /\ Ended(row[j])

\* The row of the job, and at most once an hour the removal of old rows.
SaveRow(j) ==
  /\ table.up /\ table.saving[j]
  /\ \E prune \in BOOLEAN :
       LET row == [table.row EXCEPT ![j] = store.record[j]]
       IN  table' = [table EXCEPT !.row = [i \in Jobs |-> IF prune /\ Prunable(row, i) THEN None ELSE row[i]],
                       !.saving[j] = FALSE, !.told = @ \cup {j}]
  /\ UNCHANGED store

\* Time passes the cutoff of a job.
Age(j) == j \notin store.old /\ store' = [store EXCEPT !.old = @ \cup {j}] /\ UNCHANGED table

Crash ==
  /\ table.up
  /\ table' = [table EXCEPT !.up = FALSE, !.saving = [j \in Jobs |-> FALSE]]
  /\ UNCHANGED store

JiNext == Start \/ Crash \/ \E j \in Jobs : SaveBlobs(j) \/ SaveRow(j) \/ Age(j)

JiSpec == JiInit /\ [][JiNext]_jiVars

-----------------------------------------------------------------------------
(* Correctness.                                                             *)

\* While the process serves, a job that has not ended is in the table, if it was saved or
\* the old index was read: neither pruning, nor a crash, nor a new import can hide it
\* from the recovery that must settle it.
LiveJobsListed ==
  table.up => \A j \in Jobs :
    store.record[j] \in {1, 2} /\ (j \in table.told \/ (store.legacy[j] # None /\ ~table.lost)) => table.row[j] # None

\* The table is never ahead of the records: no job is listed as ended, and so removed after
\* the retention time, whose record has not ended, also not after a crash between the two.
RowNotAhead == \A j \in Jobs : table.row[j] <= store.record[j]

\* The pages that a serving process cuts from the table, put together, are the list the other
\* backends cut into pages.
PagesAgree ==
  table.up =>
    \A user \in {0, 1}, ids \in {{0}, {}, {1}}, statuses \in {{}, {1, 2}}, size \in {1, 2} :
      FlattenSeq([p \in 1 .. IndexedJobs |-> Page(user, ids, statuses, p, size)])
        = Listed(table.row, user, ids, statuses)

\* The table never hides a live job nor runs ahead of the records, and lists as the blobs do.
IndexSound == LiveJobsListed /\ RowNotAhead /\ PagesAgree

=============================================================================
