------------------------------- MODULE Arena -------------------------------
(* The tuning lab: sweeps of trial transcriptions, one at a time and only   *)
(* while subgen has a slot left (arena_service.py, arena_store.py,          *)
(* routers/arena.py). What a sweep concludes is in ArenaScores.             *)
EXTENDS Naturals, FiniteSets

CONSTANT Sweeps    \* runs a user may start

VARIABLES
  sweepRow,     \* arena_runs: per stored run its status and its language
  sweepTask,    \* per run where its task is
  sweepCancel,  \* tasks told to stop
  sweepDropped, \* _deleted
  sweepSlot,    \* who holds the semaphore
  sweeping,     \* _inflight
  sweepFails,   \* unreadable probes in a row
  sweepClosing, \* aclose has been called
  sweepGone,    \* history: runs deleted
  sweepNamed    \* history: runs whose language a user set last

arenaVars == <<sweepRow, sweepTask, sweepCancel, sweepDropped, sweepSlot, sweeping,
               sweepFails, sweepClosing, sweepGone, sweepNamed>>

Nobody == "nobody"
CapacityProbeFailOpenAfter == 3
Unfinished == {"pending", "queued", "waiting_for_capacity", "running"}
LiveSweeps == {r \in Sweeps : sweepTask[r] \in {"new", "waiting", "probing", "sweep"}}

ArenaInit ==
  /\ sweepRow = [r \in {} |-> {}] /\ sweepTask = [r \in Sweeps |-> "none"]
  /\ sweepCancel = {} /\ sweepDropped = {} /\ sweepSlot = Nobody
  /\ sweeping = 0 /\ sweepFails = 0 /\ sweepClosing = FALSE
  /\ sweepGone = {} /\ sweepNamed = {}

Stored(r, status, lang) ==
  [q \in DOMAIN sweepRow \cup {r} |->
     IF q = r THEN [status |-> status, lang |-> lang] ELSE sweepRow[q]]

\* Mutant: every save goes through.
PersistAlways(r, status, lang) == sweepRow' = Stored(r, status, lang)

\* _persist: what was deleted is not written again
Persist(r, status, lang) ==
  sweepRow' = IF r \in sweepDropped THEN sweepRow ELSE Stored(r, status, lang)

\* create_arena_run: one run, or one per audio track
SweepsSubmitted ==
  /\ ~sweepClosing
  /\ \E new \in SUBSET {r \in Sweeps : sweepTask[r] = "none"} :
       /\ new # {}
       /\ sweepRow' = [q \in DOMAIN sweepRow \cup new |->
                         IF q \in new THEN [status |-> "pending", lang |-> "none"]
                         ELSE sweepRow[q]]
       /\ sweepTask' = [r \in Sweeps |-> IF r \in new THEN "new" ELSE sweepTask[r]]
  /\ UNCHANGED <<sweepCancel, sweepDropped, sweepSlot, sweeping, sweepFails, sweepClosing,
                 sweepGone, sweepNamed>>

\* _run: the row is queued, and the semaphore is asked for
SweepStarts(r) ==
  /\ sweepTask[r] = "new" /\ r \notin sweepCancel
  /\ Persist(r, "queued", "none")
  /\ sweepTask' = [sweepTask EXCEPT ![r] = "waiting"]
  /\ sweepNamed' = sweepNamed \ {r}
  /\ UNCHANGED <<sweepCancel, sweepDropped, sweepSlot, sweeping, sweepFails, sweepClosing, sweepGone>>

SlotTaken(r) ==
  /\ sweepTask[r] = "waiting" /\ sweepSlot = Nobody /\ r \notin sweepCancel
  /\ sweepSlot' = r /\ sweepFails' = 0
  /\ sweepTask' = [sweepTask EXCEPT ![r] = "probing"]
  /\ UNCHANGED <<sweepRow, sweepCancel, sweepDropped, sweeping, sweepClosing, sweepGone, sweepNamed>>

SweepBegins(r) ==
  /\ Persist(r, "running", "none") /\ sweepNamed' = sweepNamed \ {r}
  /\ sweepTask' = [sweepTask EXCEPT ![r] = "sweep"]
  /\ sweeping' = sweeping + 1 /\ sweepFails' = 0

\* _await_capacity: subgen's queue is read until it leaves room; a reading that
\* fails three times in a row counts as room
CapacityFree(r) ==
  /\ sweepTask[r] = "probing" /\ r \notin sweepCancel /\ SweepBegins(r)
  /\ UNCHANGED <<sweepCancel, sweepDropped, sweepSlot, sweepClosing, sweepGone>>
CapacityBusy(r) ==
  /\ sweepTask[r] = "probing" /\ r \notin sweepCancel
  /\ Persist(r, "waiting_for_capacity", "none") /\ sweepNamed' = sweepNamed \ {r}
  /\ sweepFails' = 0
  /\ UNCHANGED <<sweepTask, sweepCancel, sweepDropped, sweepSlot, sweeping, sweepClosing, sweepGone>>
CapacityUnread(r) ==
  /\ sweepTask[r] = "probing" /\ r \notin sweepCancel
  /\ IF sweepFails + 1 >= CapacityProbeFailOpenAfter THEN SweepBegins(r)
     ELSE /\ sweepFails' = sweepFails + 1
          /\ UNCHANGED <<sweepRow, sweepTask, sweeping, sweepNamed>>
  /\ UNCHANGED <<sweepCancel, sweepDropped, sweepSlot, sweepClosing, sweepGone>>

\* on_clip, on_step: the whole run is saved again, its language too
SweepSteps(r) ==
  /\ sweepTask[r] = "sweep" /\ r \notin sweepCancel
  /\ Persist(r, "running", "none") /\ sweepNamed' = sweepNamed \ {r}
  /\ UNCHANGED <<sweepTask, sweepCancel, sweepDropped, sweepSlot, sweeping, sweepFails,
                 sweepClosing, sweepGone>>

\* Mutant: only a sweep that succeeds gives the slot back.
TaskOverHolding(r) ==
  /\ sweepTask' = [sweepTask EXCEPT ![r] = "over"]
  /\ sweepDropped' = sweepDropped \ {r} /\ sweepCancel' = sweepCancel \ {r}
  /\ UNCHANGED sweepSlot
  /\ sweeping' = IF sweepTask[r] = "sweep" THEN sweeping - 1 ELSE sweeping

\* the two finally clauses and the end of the semaphore's block
TaskOver(r) ==
  /\ sweepTask' = [sweepTask EXCEPT ![r] = "over"]
  /\ sweepDropped' = sweepDropped \ {r} /\ sweepCancel' = sweepCancel \ {r}
  /\ sweepSlot' = IF sweepSlot = r THEN Nobody ELSE sweepSlot
  /\ sweeping' = IF sweepTask[r] = "sweep" THEN sweeping - 1 ELSE sweeping

\* _execute ends: the language is the one that was heard
SweepDone(r) ==
  /\ sweepTask[r] = "sweep" /\ r \notin sweepCancel
  /\ Persist(r, "done", "heard") /\ sweepNamed' = sweepNamed \ {r} /\ TaskOver(r)
  /\ UNCHANGED <<sweepFails, sweepClosing, sweepGone>>

SweepFailed(r) ==
  /\ sweepTask[r] = "sweep" /\ r \notin sweepCancel
  /\ Persist(r, "error", "none") /\ sweepNamed' = sweepNamed \ {r} /\ TaskOver(r)
  /\ UNCHANGED <<sweepFails, sweepClosing, sweepGone>>

\* CancelledError where the task waits; a task that has not begun ends without
\* running any of it
CancelHeard(r) ==
  /\ r \in sweepCancel /\ sweepTask[r] \in {"waiting", "probing", "sweep"}
  /\ Persist(r, "error", "none") /\ sweepNamed' = sweepNamed \ {r} /\ TaskOver(r)
  /\ UNCHANGED <<sweepFails, sweepClosing, sweepGone>>
CancelledUnbegun(r) ==
  /\ r \in sweepCancel /\ sweepTask[r] = "new"
  /\ sweepTask' = [sweepTask EXCEPT ![r] = "over"] /\ sweepCancel' = sweepCancel \ {r}
  /\ UNCHANGED <<sweepRow, sweepDropped, sweepSlot, sweeping, sweepFails, sweepClosing,
                 sweepGone, sweepNamed>>

\* delete: the task is told to stop, the row goes
SweepDeleted(r) ==
  /\ r \in DOMAIN sweepRow
  /\ sweepRow' = [q \in DOMAIN sweepRow \ {r} |-> sweepRow[q]]
  /\ sweepDropped' = sweepDropped \cup {r} /\ sweepGone' = sweepGone \cup {r}
  /\ sweepCancel' = IF r \in LiveSweeps THEN sweepCancel \cup {r} ELSE sweepCancel
  /\ sweepNamed' = sweepNamed \ {r}
  /\ UNCHANGED <<sweepTask, sweepSlot, sweeping, sweepFails, sweepClosing>>

\* set_arena_run_language: of any stored run
SweepNamed(r) ==
  /\ r \in DOMAIN sweepRow /\ ~sweepClosing
  /\ sweepRow' = [sweepRow EXCEPT ![r].lang = "user"] /\ sweepNamed' = sweepNamed \cup {r}
  /\ UNCHANGED <<sweepTask, sweepCancel, sweepDropped, sweepSlot, sweeping, sweepFails,
                 sweepClosing, sweepGone>>

\* aclose
ArenaCloses ==
  /\ ~sweepClosing /\ sweepClosing' = TRUE /\ sweepCancel' = sweepCancel \cup LiveSweeps
  /\ UNCHANGED <<sweepRow, sweepTask, sweepDropped, sweepSlot, sweeping, sweepFails,
                 sweepGone, sweepNamed>>

\* Mutant: the statuses of the first version.
ReconciledWithoutWaiting ==
  [r \in DOMAIN sweepRow |->
     IF sweepRow[r].status \in {"pending", "queued", "running"}
     THEN [sweepRow[r] EXCEPT !.status = "error"] ELSE sweepRow[r]]

\* reconcile_interrupted
Reconciled ==
  [r \in DOMAIN sweepRow |->
     IF sweepRow[r].status \in Unfinished
     THEN [sweepRow[r] EXCEPT !.status = "error"] ELSE sweepRow[r]]

\* a restart, after aclose or a crash; rows that are too old go (prune_older_than)
ArenaBoots ==
  /\ \E old \in SUBSET DOMAIN sweepRow :
       sweepRow' = [r \in DOMAIN sweepRow \ old |-> Reconciled[r]]
  /\ sweepTask' = [r \in Sweeps |-> IF sweepTask[r] = "none" THEN "none" ELSE "over"]
  /\ sweepCancel' = {} /\ sweepDropped' = {} /\ sweepSlot' = Nobody /\ sweeping' = 0
  /\ sweepFails' = 0 /\ sweepClosing' = FALSE /\ sweepNamed' = sweepNamed \cap DOMAIN sweepRow'
  /\ UNCHANGED sweepGone

SweepRuns(r) ==
  SweepStarts(r) \/ SlotTaken(r) \/ SweepDone(r) \/ SweepFailed(r)
  \/ CancelHeard(r) \/ CancelledUnbegun(r)

ArenaNext ==
  \/ SweepsSubmitted \/ ArenaCloses \/ ArenaBoots
  \/ \E r \in Sweeps : \/ SweepRuns(r) \/ CapacityFree(r) \/ CapacityBusy(r) \/ CapacityUnread(r)
                       \/ SweepSteps(r) \/ SweepDeleted(r) \/ SweepNamed(r)

\* Every task goes on, a transcription ends, and subgen has room again and again.
ArenaFairness ==
  \A r \in Sweeps :
    /\ WF_arenaVars(SweepStarts(r)) /\ WF_arenaVars(SweepDone(r) \/ SweepFailed(r))
    /\ WF_arenaVars(CancelHeard(r) \/ CancelledUnbegun(r))
    /\ SF_arenaVars(SlotTaken(r)) /\ SF_arenaVars(CapacityFree(r))

ArenaSpec == ArenaInit /\ [][ArenaNext]_arenaVars /\ ArenaFairness

----------------------------------------------------------------------------
\* "deleting a run while its task is live is a true stop" (arena_service.py:181):
\* no later save of the task brings the row back.
DeletedStaysGone == \A r \in sweepGone : r \notin DOMAIN sweepRow

\* "Mark such rows as errored on boot so the UI shows the truth instead of a
\* forever-spinning sweep" (arena_store.py:222): a row shown as unfinished has a
\* task that will write it again.
UnfinishedHasTask ==
  \A r \in DOMAIN sweepRow :
    sweepRow[r].status \in Unfinished /\ ~sweepClosing => r \in LiveSweeps

\* What is stored agrees with what runs: no row without the task that will write
\* it again, and no task that writes what is gone.
RunsMatchTasks == DeletedStaysGone /\ UnfinishedHasTask

\* However the sweep that holds the semaphore ends - done, failed, cancelled
\* while it waits for subgen or while it transcribes - the next one gets it.
WaitersGetTheSlot == \A r \in Sweeps : sweepTask[r] = "waiting" ~> sweepTask[r] # "waiting"

\* "Sets the run's language (user-sourced)" (routers/arena.py:215): the language
\* a user set is the run's language until a user sets another.
NamedStaysNamed == [][\A r \in sweepNamed \cap DOMAIN sweepRow' : sweepRow'[r].lang = "user"]_arenaVars
=============================================================================
