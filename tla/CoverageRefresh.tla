-------------------------- MODULE CoverageRefresh --------------------------
(* The coverage snapshot and the probes it is built from: the cache that    *)
(* coalesces requests for a rebuild (coverage_cache.py), the walker that    *)
(* runs ffprobe over the files a build could not judge (probe_walker.py)    *)
(* and the table of their results (probe_store.py).                         *)
(*                                                                          *)
(* A build reads the probe table while walks write it; a walk that wrote    *)
(* something asks for a build; a build that still finds unprobed rows       *)
(* starts a walk. A step is the code between two awaits.                    *)
EXTENDS Naturals, Sequences, FiniteSets

CONSTANTS
  Rows,         \* the rows of the report in the order of the report, a
                \* sequence of distinct files
  EagerCap,     \* _EAGER_PROBE_CAP: files of one eager walk
  MaxHolds,     \* _MAX_CONSECUTIVE_HOLDS
  Faults,       \* the disturbances of this configuration
  MaxEvents     \* bound: disturbances and requests by users, together

Files == { Rows[i] : i \in DOMAIN Rows }

ASSUME RowsAssumption == Len(Rows) \in Nat /\ \A i, j \in DOMAIN Rows : Rows[i] = Rows[j] => i = j
ASSUME CapAssumption == EagerCap \in Nat \ {0} /\ MaxHolds \in Nat
ASSUME RefreshBoundsAssumption == MaxEvents \in Nat

VARIABLES
  disk,      \* per file: can it be stat'ed, does ffprobe read it, its (mtime,
             \* size) as one stamp, its tracks
  probes,    \* media_probe: per file the stamp and tracks stored, or NoProbe
  buildFailures,  \* probe_failures
  snap,      \* the published snapshot: verdict per row, were the critical
             \* sources healthy, did the build know what subgen can do;
             \* NoSnapshot before the first build
  down,      \* a critical source is failing (configured, not ok)
  holds,     \* _consecutive_holds
  waiting,   \* callers of refresh() that wait for _refresh_lock, in order
  build,     \* the build under way: its caller, its stage and its locals
  again,     \* _pending_again
  args,      \* _pending_args: the last request passed a probe walker or not
  timer,     \* _debounce_handle is armed
  walks,     \* the eager walk and a root walk
  reprobe,   \* a force_reprobe handler waits for the eager walk to end
  unserved,  \* history: a request was made that no build has answered yet
  budget     \* bound: disturbances and requests left

refreshVars == <<disk, probes, buildFailures, snap, down, holds, waiting, build, again,
                 args, timer, walks, reprobe, unserved, budget>>

NoProbe == [stamp |-> 0, tracks |-> 0]
NoSnapshot == [verdict |-> [f \in Files |-> "none"], healthy |-> FALSE, caps |-> FALSE]
Verdicts == {"verified", "probe_failed", "unprobed"}
\* A task carries the arguments of the request: all requests pass the stores,
\* some pass no probe walker ("bare"), none the provider of capabilities.
Tasks == {"task", "bare"}
RefreshCallers == {"loop", "now"} \cup Tasks
NoBuild == [by |-> "none", stage |-> "none", verified |-> {}, hurt |-> FALSE,
            verdict |-> NoSnapshot.verdict]
WalkIds == {"eager", "root"}
Out == [at |-> "out", stamp |-> 0, ok |-> FALSE, tracks |-> 0]
Todo == [Out EXCEPT !.at = "todo"]
NoWalk == [on |-> FALSE, force |-> FALSE, hook |-> FALSE, wrote |-> FALSE,
           file |-> [f \in Files |-> Out]]

\* is_refreshing(): set while the lock is held, cleared before it is released
Refreshing == build.by # "none"

RefreshInit ==
  /\ disk = [f \in Files |-> [stat |-> TRUE, ok |-> TRUE, stamp |-> 1, tracks |-> 1]]
  /\ probes = [f \in Files |-> NoProbe]
  /\ buildFailures = {}
  /\ snap = NoSnapshot
  /\ down = FALSE
  /\ holds = 0
  /\ waiting = <<>>
  /\ build = NoBuild
  /\ again = FALSE
  /\ args = "task"
  /\ timer = FALSE
  /\ walks = [w \in WalkIds |-> NoWalk]
  /\ reprobe = FALSE
  /\ unserved = FALSE
  /\ budget = MaxEvents

----------------------------------------------------------------------------
(* Requests for a rebuild. *)

\* Mutant: a request during a build leaves no note.
RequestDuringBuildIsDropped(w, a) ==
  /\ unserved' = TRUE
  /\ args' = a
  /\ UNCHANGED <<again, timer>>
  /\ waiting' = IF Refreshing \/ timer THEN w ELSE Append(w, a)

\* request_refresh: during a build it leaves a note for the end of the build,
\* an armed timer absorbs it, and otherwise it starts a task at once or, less
\* than the minimum interval after the last build, arms the timer. Time passes
\* freely, so that every armed timer may fire at any moment: a follow-up with a
\* shorter wait then needs no timer of its own.
Request(w, a) ==
  /\ unserved' = TRUE
  /\ args' = a
  /\ \/ Refreshing /\ again' = TRUE /\ UNCHANGED timer /\ waiting' = w
     \/ ~Refreshing /\ timer /\ UNCHANGED <<again, timer>> /\ waiting' = w
     \/ ~Refreshing /\ ~timer /\ UNCHANGED <<again, timer>> /\ waiting' = Append(w, a)
     \/ /\ ~Refreshing /\ ~timer
        /\ snap # NoSnapshot
        /\ timer' = TRUE
        /\ UNCHANGED again
        /\ waiting' = w

\* POST /coverage/refresh, an ignored title, a verified language
Kick ==
  /\ budget > 0
  /\ budget' = budget - 1
  /\ \E a \in Tasks : Request(waiting, a)
  /\ UNCHANGED <<disk, probes, buildFailures, snap, down, holds, build, walks, reprobe>>

\* _fire_debounced
TimerFires ==
  /\ timer
  /\ timer' = FALSE
  /\ IF Refreshing
     THEN again' = TRUE /\ UNCHANGED waiting
     ELSE waiting' = Append(waiting, args) /\ UNCHANGED again
  /\ UNCHANGED <<args, disk, probes, buildFailures, snap, down, holds, build, walks, reprobe,
                 unserved, budget>>

\* background_refresh_loop at the end of its sleep, or the warm-up at boot
LoopAsks ==
  /\ "loop" \notin {waiting[i] : i \in DOMAIN waiting} \cup {build.by}
  /\ waiting' = Append(waiting, "loop")
  /\ UNCHANGED <<args, disk, probes, buildFailures, snap, down, holds, build, again, timer, walks,
                 reprobe, unserved, budget>>

\* GET /coverage?fresh=true and the run-now trigger call refresh() themselves
AskedNow ==
  /\ budget > 0
  /\ budget' = budget - 1
  /\ "now" \notin {waiting[i] : i \in DOMAIN waiting} \cup {build.by}
  /\ waiting' = Append(waiting, "now")
  /\ UNCHANGED <<args, disk, probes, buildFailures, snap, down, holds, build, again, timer, walks,
                 reprobe, unserved>>

----------------------------------------------------------------------------
(* refresh(), under the lock. *)

\* async with self._refresh_lock: first come, first served
BuildStarts ==
  /\ ~Refreshing
  /\ waiting # <<>>
  /\ build' = [NoBuild EXCEPT !.by = Head(waiting), !.stage = "fetch"]
  /\ waiting' = Tail(waiting)
  /\ UNCHANGED <<args, disk, probes, buildFailures, snap, down, holds, again, timer, walks, reprobe,
                 unserved, budget>>

\* build_coverage asks the sources, then reads all probe entries in one query
ReadsEntries ==
  /\ build.stage = "fetch"
  /\ build' = [build EXCEPT !.stage = "entries", !.hurt = down,
                            !.verified = {f \in Files : probes[f] # NoProbe}]
  /\ unserved' = FALSE
  /\ UNCHANGED <<args, disk, probes, buildFailures, snap, down, holds, waiting, again, timer, walks,
                 reprobe, budget>>

\* _attach_probe_episode and _attach_probe_movie, for rows whose file is known:
\* a probe of that file wins over a recorded failure. A build without its
\* sources knows no files.
Verdict(f) ==
  CASE build.hurt -> "unprobed"
    [] ~build.hurt /\ f \in build.verified -> "verified"
    [] ~build.hurt /\ f \notin build.verified /\ f \in buildFailures -> "probe_failed"
    [] OTHER -> "unprobed"

\* The end of refresh(): the lock goes, and a coalesced task runs once more if
\* it was asked to meanwhile. The other callers leave the note where it is.
BuildEnds ==
  /\ build' = NoBuild
  /\ IF build.by \in Tasks /\ again
     THEN again' = FALSE /\ waiting' = Append(waiting, args)
     ELSE UNCHANGED <<again, waiting>>

\* the publish gate: degraded_sources against the cached snapshot
Held == build.hurt /\ snap # NoSnapshot /\ snap.healthy /\ holds < MaxHolds

\* Mutant: a held build is not counted.
BuildHeldUncounted ==
  /\ build.stage = "entries"
  /\ Held
  /\ BuildEnds
  /\ UNCHANGED <<holds, args, disk, probes, buildFailures, snap, down, timer, walks, reprobe,
                 unserved, budget>>

\* failed_paths is read after the entries; then the build is held or stored
BuildHeld ==
  /\ build.stage = "entries"
  /\ Held
  /\ holds' = holds + 1
  /\ BuildEnds
  /\ UNCHANGED <<args, disk, probes, buildFailures, snap, down, timer, walks, reprobe, unserved, budget>>

BuildGoesOut ==
  /\ build.stage = "entries"
  /\ ~Held
  /\ holds' = 0
  /\ build' = [build EXCEPT !.stage = "storing", !.verdict = [f \in Files |-> Verdict(f)]]
  /\ UNCHANGED <<args, disk, probes, buildFailures, snap, down, waiting, again, timer, walks, reprobe,
                 unserved, budget>>

\* eager_probe_targets: the first unprobed rows of the report, up to the cap
Targets ==
  LET open == SelectSeq(Rows, LAMBDA f : build.verdict[f] = "unprobed" /\ ~build.hurt)
  IN {open[i] : i \in {j \in DOMAIN open : j <= EagerCap}}

\* store() returned from its thread; _kick_eager_probe starts a walk with a
\* hook, or joins the one that is running and leaves no hook
Published ==
  /\ build.stage = "storing"
  /\ snap' = [verdict |-> build.verdict, healthy |-> ~build.hurt,
               caps |-> build.by \notin Tasks]
  /\ walks' = IF Targets = {} \/ build.by = "bare" \/ walks["eager"].on THEN walks
              ELSE [walks EXCEPT !["eager"] =
                      [NoWalk EXCEPT !.on = TRUE, !.hook = TRUE,
                         !.file = [f \in Files |-> IF f \in Targets THEN Todo ELSE Out]]]
  /\ BuildEnds
  /\ UNCHANGED <<args, disk, probes, buildFailures, down, holds, timer, reprobe, unserved, budget>>

\* build_coverage or the write raised: nothing is published
BuildRaises ==
  /\ "raise" \in Faults /\ budget > 0
  /\ budget' = budget - 1
  /\ build.stage \in {"fetch", "entries", "storing"}
  /\ unserved' = FALSE
  /\ BuildEnds
  /\ UNCHANGED <<args, disk, probes, buildFailures, snap, down, holds, timer, walks, reprobe>>

----------------------------------------------------------------------------
(* Walks. *)

\* POST /probe/reprobe: probe_paths with force, or whatever eager walk is on
Reprobe(fs) ==
  /\ budget > 0
  /\ budget' = budget - 1
  /\ ~reprobe
  /\ reprobe' = TRUE
  /\ walks' = IF walks["eager"].on THEN walks
              ELSE [walks EXCEPT !["eager"] =
                      [NoWalk EXCEPT !.on = TRUE, !.force = TRUE,
                         !.file = [f \in Files |-> IF f \in fs THEN Todo ELSE Out]]]
  /\ UNCHANGED <<args, disk, probes, buildFailures, snap, down, holds, waiting, build, again, timer,
                 unserved>>

\* start_walk by the scheduler or a user: every file found under the root
RootWalk ==
  /\ "rootwalk" \in Faults /\ budget > 0
  /\ budget' = budget - 1
  /\ ~walks["root"].on
  /\ walks' = [walks EXCEPT !["root"] =
                 [NoWalk EXCEPT !.on = TRUE,
                    !.file = [f \in Files |-> IF disk[f].stat THEN Todo ELSE Out]]]
  /\ UNCHANGED <<args, disk, probes, buildFailures, snap, down, holds, waiting, build, again, timer,
                 reprobe, unserved>>

\* _lookup: stat, then the cache read, which needs the stored stamp to match
Lookup(w, f) ==
  LET found == disk[f].stat
      cached == ~walks[w].force /\ probes[f] # NoProbe /\ probes[f].stamp = disk[f].stamp
  IN /\ walks[w].file[f].at = "todo"
     /\ walks' = [walks EXCEPT ![w].file[f] =
                    IF ~found \/ cached THEN Out
                    ELSE [Out EXCEPT !.at = "statted", !.stamp = disk[f].stamp]]
     /\ UNCHANGED <<args, disk, probes, buildFailures, snap, down, holds, waiting, build, again,
                    timer, reprobe, unserved, budget>>

\* ffprobe opens the file that is there now
Ffprobe(w, f) ==
  /\ walks[w].file[f].at = "statted"
  /\ walks' = [walks EXCEPT ![w].file[f] =
                 [@ EXCEPT !.at = "read", !.ok = disk[f].stat /\ disk[f].ok,
                           !.tracks = disk[f].tracks]]
  /\ UNCHANGED <<args, disk, probes, buildFailures, snap, down, holds, waiting, build, again, timer,
                 reprobe, unserved, budget>>

\* Mutant: the stamp stored is that of a stat after ffprobe.
RecordedWithLateStat(w, f) ==
  /\ walks[w].file[f].at = "read"
  /\ probes' = [probes EXCEPT ![f] = [stamp |-> disk[f].stamp, tracks |-> walks[w].file[f].tracks]]
  /\ buildFailures' = buildFailures \ {f}
  /\ walks' = [walks EXCEPT ![w].file[f] = Out, ![w].wrote = TRUE]
  /\ UNCHANGED <<args, disk, snap, down, holds, waiting, build, again, timer, reprobe,
                 unserved, budget>>

\* Mutant: a file ffprobe cannot read is recorded nowhere.
RecordedSuccessOnly(w, f) ==
  LET got == walks[w].file[f]
  IN /\ got.at = "read"
     /\ probes' = IF got.ok
                  THEN [probes EXCEPT ![f] = [stamp |-> got.stamp, tracks |-> got.tracks]]
                  ELSE probes
     /\ walks' = [walks EXCEPT ![w].file[f] = Out, ![w].wrote = TRUE]
     /\ UNCHANGED <<args, disk, buildFailures, snap, down, holds, waiting, build, again, timer,
                    reprobe, unserved, budget>>

\* record_failure, failed_paths
FailureRecorded(f) == buildFailures \cup {f}

\* upsert with the stamp of the lookup, which clears a failure, or record_failure
Recorded(w, f) ==
  LET got == walks[w].file[f]
  IN /\ got.at = "read"
     /\ IF got.ok
        THEN /\ probes' = [probes EXCEPT ![f] = [stamp |-> got.stamp, tracks |-> got.tracks]]
             /\ buildFailures' = buildFailures \ {f}
        ELSE /\ buildFailures' = FailureRecorded(f)
             /\ UNCHANGED probes
     /\ walks' = [walks EXCEPT ![w].file[f] = Out, ![w].wrote = TRUE]
     /\ UNCHANGED <<args, disk, snap, down, holds, waiting, build, again, timer, reprobe,
                    unserved, budget>>

\* Mutant: the hook asks for a build after every walk.
WalkEndsAlwaysAsks(w) ==
  /\ walks[w].on
  /\ \A f \in Files : walks[w].file[f].at = "out"
  /\ walks' = [walks EXCEPT ![w] = NoWalk]
  /\ IF walks[w].hook
     THEN Request(waiting, "task")
     ELSE UNCHANGED <<unserved, again, args, timer, waiting>>
  /\ UNCHANGED <<disk, probes, buildFailures, snap, down, holds, build, reprobe, budget>>

\* the walk is done; the hook asks for a build if the walk wrote anything
WalkEnds(w) ==
  /\ walks[w].on
  /\ \A f \in Files : walks[w].file[f].at = "out"
  /\ walks' = [walks EXCEPT ![w] = NoWalk]
  /\ IF walks[w].hook /\ walks[w].wrote
     THEN Request(waiting, "task")
     ELSE UNCHANGED <<unserved, again, args, timer, waiting>>
  /\ UNCHANGED <<disk, probes, buildFailures, snap, down, holds, build, reprobe, budget>>

\* _refresh_coverage_after_walk
ReprobeAsks ==
  /\ reprobe
  /\ ~walks["eager"].on
  /\ reprobe' = FALSE
  /\ Request(waiting, "bare")
  /\ UNCHANGED <<disk, probes, buildFailures, snap, down, holds, build, walks, budget>>

----------------------------------------------------------------------------
(* The world: files are replaced, mounts and sources come and go, the        *)
(* process restarts.                                                        *)

Disturbed(kind) ==
  /\ kind \in Faults /\ budget > 0
  /\ budget' = budget - 1

\* a new file at the same path, which ffprobe can or cannot read
Replaced(f) ==
  /\ Disturbed("replace")
  /\ \E ok \in BOOLEAN :
        disk' = [disk EXCEPT ![f].ok = ok, ![f].stamp = @ + 1, ![f].tracks = @ + 1]
  /\ UNCHANGED <<probes, buildFailures, snap, down, holds, waiting, build, again, args, timer,
                 walks, reprobe, unserved>>

\* the path cannot be stat'ed any more, or again
Mounted(f) ==
  /\ Disturbed("mount")
  /\ disk' = [disk EXCEPT ![f].stat = ~@]
  /\ UNCHANGED <<probes, buildFailures, snap, down, holds, waiting, build, again, args, timer,
                 walks, reprobe, unserved>>

\* a critical source fails or recovers
Outage ==
  /\ Disturbed("outage")
  /\ down' = ~down
  /\ UNCHANGED <<disk, probes, buildFailures, snap, holds, waiting, build, again, args, timer,
                 walks, reprobe, unserved>>

\* the tables and the snapshot survive, load() brings the snapshot back
Restart ==
  /\ Disturbed("restart")
  /\ holds' = 0 /\ waiting' = <<>> /\ build' = NoBuild
  /\ again' = FALSE /\ args' = "task" /\ timer' = FALSE
  /\ walks' = [w \in WalkIds |-> NoWalk]
  /\ reprobe' = FALSE /\ unserved' = FALSE
  /\ UNCHANGED <<disk, probes, buildFailures, snap, down>>

----------------------------------------------------------------------------

BuildStep == BuildStarts \/ ReadsEntries \/ BuildHeld \/ BuildGoesOut \/ Published
FileStep(w, f) == Lookup(w, f) \/ Ffprobe(w, f) \/ Recorded(w, f)

RefreshNext ==
  \/ Kick \/ TimerFires \/ LoopAsks \/ AskedNow
  \/ BuildStep \/ BuildRaises
  \/ \E fs \in (SUBSET Files) \ {{}} : Reprobe(fs)
  \/ RootWalk \/ ReprobeAsks
  \/ \E w \in WalkIds : WalkEnds(w) \/ \E f \in Files : FileStep(w, f)
  \/ \E f \in Files : Replaced(f) \/ Mounted(f)
  \/ Outage \/ Restart

\* Timers fire, the loop wakes up, builds and walks go on: all of them have
\* timeouts. Users owe nothing.
RefreshFairness ==
  /\ WF_refreshVars(TimerFires) /\ WF_refreshVars(LoopAsks) /\ WF_refreshVars(BuildStep)
  /\ WF_refreshVars(ReprobeAsks)
  /\ \A w \in WalkIds : WF_refreshVars(WalkEnds(w))
  /\ \A w \in WalkIds, f \in Files : WF_refreshVars(FileStep(w, f))

RefreshSpec == RefreshInit /\ [][RefreshNext]_refreshVars /\ RefreshFairness

----------------------------------------------------------------------------
(* Properties. *)

\* Types of the tables, the lock and the walks.
RefreshTypeOK ==
  /\ disk \in [Files -> [stat : BOOLEAN, ok : BOOLEAN, stamp : Nat, tracks : Nat]]
  /\ probes \in [Files -> [stamp : Nat, tracks : Nat]]
  /\ buildFailures \subseteq Files
  /\ snap \in [verdict : [Files -> Verdicts \cup {"none"}], healthy : BOOLEAN, caps : BOOLEAN]
  /\ down \in BOOLEAN /\ holds \in 0..MaxHolds
  /\ waiting \in Seq(RefreshCallers)
  /\ build.by \in RefreshCallers \cup {"none"}
  /\ build.stage \in {"none", "fetch", "entries", "storing"}
  /\ again \in BOOLEAN /\ timer \in BOOLEAN /\ args \in Tasks
  /\ \A w \in WalkIds : \A f \in Files :
        walks[w].file[f].at \in {"out", "todo", "statted", "read"}
  /\ reprobe \in BOOLEAN /\ unserved \in BOOLEAN
  /\ budget \in 0..MaxEvents

\* A request is never dropped: until a build has read the tables after it, one
\* is promised by the note, the timer, the queue at the lock or a build that
\* has not read yet. (request_refresh: a burst collapses, it does not vanish.)
NoRequestForgotten ==
  unserved => again \/ timer \/ waiting # <<>> \/ build.stage = "fetch"

\* A cached probe that would be trusted (its stamp is the file's) describes the
\* file that is there, whatever was replaced while walks were probing it: the
\* stamp is taken before ffprobe reads. (Tags edited in place change neither
\* mtime nor size and are outside this: force_reprobe is for them.)
TrustedProbesAreTrue ==
  \A f \in Files :
    probes[f] # NoProbe /\ probes[f].stamp = disk[f].stamp => probes[f].tracks = disk[f].tracks

\* The rows that cannot be stat'ed can fill an eager walk: nothing about them is
\* recorded, so that every build asks for them again (see BacklogDrains).
Crowded == Cardinality({f \in Files : ~disk[f].stat}) >= EagerCap

\* The row is shown as being analysed, its file can be reached, the sources are
\* up and walks have a place to spare.
Analyzable(f) == disk[f].stat /\ ~down /\ ~Crowded /\ snap.verdict[f] = "unprobed"

\* An analysis that is possible happens and is shown: no row stays so for ever.
RowsLeaveAnalyzing == \A f \in Files : Analyzable(f) ~> ~Analyzable(f)

\* Builds and eager walks do not feed each other for ever: when users and files
\* are at rest, in the end only the loop builds.
FollowUpsEnd ==
  <>[](~timer /\ build.by \notin Tasks /\ \A i \in DOMAIN waiting : waiting[i] \notin Tasks)

\* A source that stays down does not pin the old snapshot for ever.
OutageShows == down ~> (~down \/ ~snap.healthy)

\* The note that a build must follow has a task that will read it.
\* (request_refresh, "exactly ONE follow-up build runs after it completes".)
\* It does not hold: the builds of the loop and of run-now never read it.
NoteHasReader ==
  again => build.by \in Tasks \/ \E i \in DOMAIN waiting : waiting[i] \in Tasks

\* "the rest drain over subsequent builds" (_EAGER_PROBE_CAP): a reachable file
\* is analysed in the end, however many rows are unprobed. It does not hold:
\* rows that cannot be stat'ed are recorded nowhere and take the places.
BacklogDrains ==
  \A f \in Files : [](disk[f].stat) => <>(snap.verdict[f] # "unprobed" /\ snap # NoSnapshot)

\* The snapshot knows what subgen can do (#79, "reflected on the next refresh").
\* It does not hold: coalesced builds are not given the provider.
SnapshotKnowsSubgen == snap # NoSnapshot => snap.caps
=============================================================================
