---------------------------- MODULE HistoryCache ----------------------------
(* The cache the queue page is served from (routers/queue.py). A version    *)
(* stands for what the scan store holds, another for what the pending queue *)
(* holds; the view the page shows is the pair it was built from.            *)
EXTENDS Naturals

CONSTANTS
  Pages,        \* requests of the page that may run at a time
  MaxEdits,     \* bound: changes of the stores
  HistTtl       \* _HIST_TTL_S, in ticks

ASSUME HistoryAssumption == MaxEdits \in Nat /\ HistTtl \in Nat \ {0}

VARIABLES
  truth,        \* [scans, jobs]: versions of the stores
  cache,        \* [valid, view, age]: _hist_cache
  refreshing,   \* the flag of the background rebuild
  page,         \* per request of the page, and for the rebuild, how far it
                \* has read
  promised      \* history: the stores when the cache was last dropped

histVars == <<truth, cache, refreshing, page, promised>>

Rebuild == "rebuild"
NotReading == [at |-> "idle", scans |-> 0, jobs |-> 0, age |-> 0]

HistInit ==
  /\ truth = [scans |-> 0, jobs |-> 0]
  /\ cache = [valid |-> FALSE, view |-> [scans |-> 0, jobs |-> 0], age |-> 0]
  /\ refreshing = FALSE
  /\ page = [p \in Pages \cup {Rebuild} |-> NotReading]
  /\ promised = truth

Edits == truth.scans + truth.jobs

\* _invalidate_history_cache
Invalidated == [cache EXCEPT !.valid = FALSE]

\* requeue: a job is queued, the feeder is woken, the cache is dropped
Requeued ==
  /\ Edits < MaxEdits
  /\ truth' = [truth EXCEPT !.jobs = @ + 1] /\ cache' = Invalidated /\ promised' = truth'
  /\ UNCHANGED <<refreshing, page>>

\* delete_scan
ScanDeleted ==
  /\ Edits < MaxEdits
  /\ truth' = [truth EXCEPT !.scans = @ + 1] /\ cache' = Invalidated /\ promised' = truth'
  /\ UNCHANGED <<refreshing, page>>

\* clear_history, the feeder and the watcher change the stores and leave the
\* cache to its age
StoreChanges ==
  /\ Edits < MaxEdits
  /\ \E k \in {"scans", "jobs"} : truth' = [truth EXCEPT ![k] = @ + 1]
  /\ UNCHANGED <<cache, refreshing, page, promised>>

\* get_queue: without a valid cache the request builds the view itself;
\* otherwise it is served, and an old view starts the rebuild
PageAsked(p) ==
  /\ page[p].at = "idle"
  /\ IF cache.valid
     THEN IF cache.age >= HistTtl /\ page[Rebuild].at = "idle"
          THEN page' = [page EXCEPT ![Rebuild] = [NotReading EXCEPT !.at = "asked"]]
          ELSE UNCHANGED page
     ELSE page' = [page EXCEPT ![p] = [NotReading EXCEPT !.at = "scans", !.scans = truth.scans]]
  /\ UNCHANGED <<truth, cache, refreshing, promised>>

\* _refresh_history_cache: one at a time; it reads the scans and then asks subgen
RebuildStarts ==
  /\ page[Rebuild].at = "asked"
  /\ IF refreshing THEN page' = [page EXCEPT ![Rebuild] = NotReading] /\ UNCHANGED refreshing
     ELSE /\ refreshing' = TRUE
          /\ page' = [page EXCEPT ![Rebuild] = [@ EXCEPT !.at = "scans", !.scans = truth.scans]]
  /\ UNCHANGED <<truth, cache, promised>>

\* the ledger and the pending queue are read in threads
JobsRead(p) ==
  /\ page[p].at = "scans"
  /\ page' = [page EXCEPT ![p] = [@ EXCEPT !.at = "jobs", !.jobs = truth.jobs]]
  /\ UNCHANGED <<truth, cache, refreshing, promised>>

ViewOf(p) == [scans |-> page[p].scans, jobs |-> page[p].jobs]

\* c.update: the rebuild is as old as its end, a request's view as old as its start
PageBuilt(p) ==
  /\ p # Rebuild /\ page[p].at = "jobs"
  /\ cache' = [valid |-> TRUE, view |-> ViewOf(p), age |-> page[p].age]
  /\ page' = [page EXCEPT ![p] = NotReading]
  /\ UNCHANGED <<truth, refreshing, promised>>

Rebuilt ==
  /\ page[Rebuild].at = "jobs"
  /\ cache' = [valid |-> TRUE, view |-> ViewOf(Rebuild), age |-> 0]
  /\ page' = [page EXCEPT ![Rebuild] = NotReading] /\ refreshing' = FALSE
  /\ UNCHANGED <<truth, promised>>

\* Mutant: a rebuild that fails leaves its flag.
RebuildFailsLeavingFlag ==
  /\ page[Rebuild].at \in {"scans", "jobs"}
  /\ page' = [page EXCEPT ![Rebuild] = NotReading]
  /\ UNCHANGED <<truth, cache, refreshing, promised>>

\* a store cannot be read
RebuildFails ==
  /\ page[Rebuild].at \in {"scans", "jobs"}
  /\ page' = [page EXCEPT ![Rebuild] = NotReading] /\ refreshing' = FALSE
  /\ UNCHANGED <<truth, cache, promised>>

HistTick ==
  /\ cache.age < HistTtl \/ \E p \in Pages : page[p].at # "idle" /\ page[p].age < HistTtl
  /\ cache' = [cache EXCEPT !.age = IF @ < HistTtl THEN @ + 1 ELSE @]
  /\ page' = [p \in DOMAIN page |->
                IF p # Rebuild /\ page[p].at # "idle" /\ page[p].age < HistTtl
                THEN [page[p] EXCEPT !.age = @ + 1] ELSE page[p]]
  /\ UNCHANGED <<truth, refreshing, promised>>

HistNext ==
  \/ Requeued \/ ScanDeleted \/ StoreChanges
  \/ \E p \in Pages : PageAsked(p) \/ JobsRead(p) \/ PageBuilt(p)
  \/ RebuildStarts \/ JobsRead(Rebuild) \/ Rebuilt \/ RebuildFails
  \/ HistTick

\* The event loop runs what can run, the clock goes on, and the page is open:
\* it asks every few seconds.
HistFairness ==
  /\ \A p \in Pages : WF_histVars(PageAsked(p)) /\ WF_histVars(JobsRead(p)) /\ WF_histVars(PageBuilt(p))
  /\ WF_histVars(RebuildStarts) /\ WF_histVars(JobsRead(Rebuild)) /\ WF_histVars(Rebuilt)
  /\ WF_histVars(HistTick)

HistSpec == HistInit /\ [][HistNext]_histVars /\ HistFairness

----------------------------------------------------------------------------
\* "force the next GET /api/queue to rebuild, so a requeue or delete is
\* reflected on the refetch that follows it" (routers/queue.py:433): what is
\* served was read after the requeue or the deletion.
InvalidationHolds ==
  cache.valid => cache.view.scans >= promised.scans /\ cache.view.jobs >= promised.jobs

\* While the page stays open it shows the stores as they are in the end,
\* whatever rebuilds overlap, or fail for a time, on the way.
HistorySettles == <>[][~RebuildFails]_histVars => <>[](cache.valid /\ cache.view = truth)
=============================================================================
