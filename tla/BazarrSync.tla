----------------------------- MODULE BazarrSync -----------------------------
(* A verified language is written back to Sonarr, and Bazarr is told to     *)
(* read Sonarr again (routers/audio_lang.py). A sync of Bazarr is heavy:    *)
(* within the window after one, requests are coalesced into one trailing    *)
(* sync at the end of the window.                                           *)
(*                                                                          *)
(* Each request is a handler on the event loop; a step is the code between  *)
(* two awaits, or a remote program doing what it was asked.                 *)
EXTENDS Naturals

CONSTANTS
  Requests,     \* verifications that are propagated
  Window        \* BAZARR_SYNC_COALESCE_S, in ticks

ASSUME WindowAssumption == Window \in Nat \ {0}

VARIABLES
  at,        \* per request where its handler is
  unsynced,  \* requests whose change Sonarr has and no later sync of Bazarr
             \* has read
  task,      \* _bazarr_sync_task_ids: the sync task of Bazarr is known
  age,       \* ticks since _bazarr_sync_last_fired, Window at most; Never
  trailing,  \* _bazarr_sync_trailing: "none" when there is none or it is done
  delay,     \* ticks the trailing task still sleeps
  failed,    \* history: a call to Bazarr has failed
  overlapped \* history: a sync was answered while another was under way, or
             \* while the trailing one slept

syncVars == <<at, unsynced, task, age, trailing, delay, failed, overlapped>>

NeverFired == Window + 1

SyncInit ==
  /\ at = [r \in Requests |-> "idle"]
  /\ unsynced = {} /\ task = FALSE /\ age = NeverFired
  /\ trailing = "none" /\ delay = 0 /\ failed = FALSE /\ overlapped = FALSE

\* _propagate_to_sonarr up to the PUT: a file it cannot resolve, a language
\* Sonarr does not have, or a failing call ends it
FileResolved(r) ==
  /\ at[r] = "idle"
  /\ at' = [at EXCEPT ![r] = "put"]
  /\ UNCHANGED <<unsynced, task, age, trailing, delay, failed, overlapped>>

Unpropagated(r) ==
  /\ at[r] = "put" /\ at' = [at EXCEPT ![r] = "done"]
  /\ UNCHANGED <<unsynced, task, age, trailing, delay, failed, overlapped>>

\* Sonarr takes the PUT; its answer is on the way, but may not come: a timeout or
\* a dropped connection, which the handler reports as put_failed
PutLands(r) ==
  /\ at[r] = "put" /\ at' = [at EXCEPT ![r] = "landed"]
  /\ unsynced' = unsynced \cup {r}
  /\ UNCHANGED <<task, age, trailing, delay, failed, overlapped>>

AnswerLost(r) ==
  /\ at[r] = "landed" /\ at' = [at EXCEPT ![r] = "unheard"]
  /\ UNCHANGED <<unsynced, task, age, trailing, delay, failed, overlapped>>

\* Mutant: what comes within a window of a sync is taken as done by it.
CoalescedAtOnce(r) ==
  /\ age < Window
  /\ at' = [at EXCEPT ![r] = "done"]
  /\ UNCHANGED <<trailing, delay>>

\* a sync fired less than a window ago: one trailing task for all
Coalesced(r) ==
  /\ age < Window
  /\ at' = [at EXCEPT ![r] = "done"]
  /\ IF trailing = "none" THEN trailing' = "sleep" /\ delay' = Window - age
     ELSE UNCHANGED <<trailing, delay>>

Immediate(r) ==
  /\ age >= Window
  /\ at' = [at EXCEPT ![r] = "send"]
  /\ UNCHANGED <<trailing, delay>>

\* _trigger_bazarr_sync once the task is known
Decides(r) ==
  /\ (at[r] = "landed" /\ task) \/ at[r] = "discovered"
  /\ Coalesced(r) \/ Immediate(r)
  /\ task' = TRUE
  /\ UNCHANGED <<unsynced, age, failed, overlapped>>

\* ... and before that the list of tasks, which is awaited
TaskLooked(r) ==
  /\ at[r] = "landed" /\ ~task
  /\ at' = [at EXCEPT ![r] = "listing"]
  /\ UNCHANGED <<unsynced, task, age, trailing, delay, failed, overlapped>>

TaskFound(r) ==
  /\ at[r] = "listing" /\ at' = [at EXCEPT ![r] = "discovered"]
  /\ UNCHANGED <<unsynced, task, age, trailing, delay, failed, overlapped>>

\* Bazarr does not list its tasks, or has none for the sync
NoTaskFound(r) ==
  /\ at[r] = "listing" /\ at' = [at EXCEPT ![r] = "done"] /\ failed' = TRUE
  /\ UNCHANGED <<unsynced, task, age, trailing, delay, overlapped>>

\* Bazarr starts the sync; its answer is on the way
SyncStarts(r) ==
  /\ at[r] = "send" /\ at' = [at EXCEPT ![r] = "started"]
  /\ unsynced' = {}
  /\ UNCHANGED <<task, age, trailing, delay, failed, overlapped>>

OtherSyncs(r) == \E q \in Requests \ {r} : at[q] \in {"send", "started"}

SyncAnswered(r) ==
  /\ at[r] = "started" /\ at' = [at EXCEPT ![r] = "done"] /\ age' = 0
  /\ overlapped' = (overlapped \/ trailing \in {"send", "started"} \/ OtherSyncs(r))
  /\ UNCHANGED <<unsynced, task, trailing, delay, failed>>

SyncFails(r) ==
  /\ at[r] \in {"send", "started"} /\ at' = [at EXCEPT ![r] = "done"] /\ failed' = TRUE
  /\ UNCHANGED <<unsynced, task, age, trailing, delay, overlapped>>

\* _fire_bazarr_sync_later
TrailingWakes ==
  /\ trailing = "sleep" /\ delay = 0 /\ trailing' = "send"
  /\ overlapped' = (overlapped \/ age < Window)
  /\ UNCHANGED <<at, unsynced, task, age, delay, failed>>

TrailingStarts ==
  /\ trailing = "send" /\ trailing' = "started" /\ unsynced' = {}
  /\ UNCHANGED <<at, task, age, delay, failed, overlapped>>

TrailingAnswered ==
  /\ trailing = "started" /\ trailing' = "none" /\ age' = 0
  /\ overlapped' = (overlapped \/ \E r \in Requests : at[r] \in {"send", "started"})
  /\ UNCHANGED <<at, unsynced, task, delay, failed>>

\* a failure is logged
TrailingFails ==
  /\ trailing \in {"send", "started"} /\ trailing' = "none" /\ failed' = TRUE
  /\ UNCHANGED <<at, unsynced, task, age, delay, overlapped>>

SyncTick ==
  /\ age < Window \/ delay > 0
  /\ age' = IF age < Window THEN age + 1 ELSE age
  /\ delay' = IF delay > 0 THEN delay - 1 ELSE 0
  /\ UNCHANGED <<at, unsynced, task, trailing, failed, overlapped>>

SyncNext ==
  \/ \E r \in Requests :
       \/ FileResolved(r) \/ Unpropagated(r) \/ PutLands(r) \/ AnswerLost(r) \/ Decides(r)
       \/ TaskLooked(r) \/ TaskFound(r) \/ NoTaskFound(r)
       \/ SyncStarts(r) \/ SyncAnswered(r) \/ SyncFails(r)
  \/ TrailingWakes \/ TrailingStarts \/ TrailingAnswered \/ TrailingFails
  \/ SyncTick

\* The event loop runs what can run, the clock goes on, and Sonarr and Bazarr
\* answer or fail in the end.
SyncFairness ==
  /\ \A r \in Requests :
       /\ WF_syncVars(Decides(r)) /\ WF_syncVars(TaskLooked(r))
       /\ WF_syncVars(TaskFound(r) \/ NoTaskFound(r))
       /\ WF_syncVars(SyncStarts(r) \/ SyncFails(r))
       /\ WF_syncVars(SyncAnswered(r) \/ SyncFails(r))
  /\ WF_syncVars(TrailingWakes)
  /\ WF_syncVars(TrailingStarts \/ TrailingFails) /\ WF_syncVars(TrailingAnswered \/ TrailingFails)
  /\ WF_syncVars(SyncTick)

SyncSpec == SyncInit /\ [][SyncNext]_syncVars /\ SyncFairness

----------------------------------------------------------------------------
\* "the trailing one runs after every PUT in the burst has landed"
\* (routers/audio_lang.py:380): every change Sonarr took is followed by a sync
\* of Bazarr, unless a call to Bazarr failed.
EveryPutIsSynced == \A r \in Requests : r \in unsynced ~> r \notin unsynced \/ failed

\* The coalescing alone loses no change: one that Sonarr took is synced unless
\* the answer to its PUT was lost, a call to Bazarr failed, or two syncs came
\* closer than a window.
PutsAreSynced ==
  \A r \in Requests :
    r \in unsynced ~> r \notin unsynced \/ at[r] = "unheard" \/ failed \/ overlapped

\* The first of these exceptions is one: a change whose answer was lost is synced
\* only if another verification is.
UnheardIsSynced ==
  \A r \in Requests :
    r \in unsynced ~> r \notin unsynced \/ failed \/ overlapped
=============================================================================
