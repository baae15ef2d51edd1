----------------------------- MODULE TrackSwap -----------------------------
(* A file whose default audio track is the wrong one: the user exchanges    *)
(* the flags or says that it is meant so (routers/audio_lang.py,            *)
(* track_swap.py), while coverage builds publish what the probe store says. *)
EXTENDS FiniteSets

CONSTANTS
  SwapFiles,     \* the .mkv files with a wrong default track at some time
  Swaps      \* requests to exchange the flags

VARIABLES
  mistracked,      \* files whose default track is wrong
  stored,    \* files that are wrong by the probe store
  snapshot,  \* files the published rows call wrong
  meant,     \* files of track_mismatch_dismissed
  swap,      \* per request its file and where it is
  trackBuild,   \* the coverage build: [at, read]
  refreshAsked, \* a build is asked for
  cured         \* history: files put right whose new probe is stored

trackVars == <<mistracked, stored, snapshot, meant, swap, trackBuild, refreshAsked, cured>>

NoSwap == [at |-> "idle"]

\* clear_track_mismatch_for: the row is taken off the snapshot in place
RowCleared(f) == snapshot \ {f}

\* the probes may be older than the files
TrackInit ==
  /\ mistracked \in SUBSET SwapFiles /\ stored \in SUBSET SwapFiles
  /\ snapshot = stored /\ meant = {}
  /\ swap = [s \in Swaps |-> NoSwap]
  /\ trackBuild = [at |-> "idle", read |-> {}]
  /\ refreshAsked = FALSE /\ cured = {}

\* _swap_one_track_mismatch: the row must be flagged in the snapshot
SwapAsked(s, f) ==
  /\ swap[s].at = "idle" /\ f \in snapshot
  /\ swap' = [swap EXCEPT ![s] = [at |-> "probing", file |-> f]]
  /\ UNCHANGED <<mistracked, stored, snapshot, meant, trackBuild, refreshAsked, cured>>

\* the file is read afresh: what is right already is only taken off the rows
SwapProbed(s) ==
  /\ swap[s].at = "probing"
  /\ IF swap[s].file \in mistracked
     THEN swap' = [swap EXCEPT ![s].at = "writing"] /\ UNCHANGED <<snapshot, refreshAsked>>
     ELSE /\ snapshot' = RowCleared(swap[s].file)
          /\ refreshAsked' = TRUE /\ swap' = [swap EXCEPT ![s] = NoSwap]
  /\ UNCHANGED <<mistracked, stored, meant, trackBuild, cured>>

\* swap_default_audio_track
SwapWrites(s) ==
  /\ swap[s].at = "writing"
  /\ mistracked' = mistracked \ {swap[s].file} /\ swap' = [swap EXCEPT ![s].at = "recording"]
  /\ UNCHANGED <<stored, snapshot, meant, trackBuild, refreshAsked, cured>>

\* the file cannot be probed or written
SwapFails(s) ==
  /\ swap[s].at \in {"probing", "writing"} /\ swap' = [swap EXCEPT ![s] = NoSwap]
  /\ UNCHANGED <<mistracked, stored, snapshot, meant, trackBuild, refreshAsked, cured>>

\* the new probe is stored, unless that fails
Reprobed(f) ==
  \/ UNCHANGED <<stored, cured>>
  \/ /\ stored' = IF f \in mistracked THEN stored \cup {f} ELSE stored \ {f}
     /\ cured' = IF f \in mistracked THEN cured ELSE cured \cup {f}

\* Mutant: the rows are cleared, and no build is asked for.
SwapEndsUnasked(s) ==
  /\ swap[s].at = "recording" /\ Reprobed(swap[s].file)
  /\ snapshot' = RowCleared(swap[s].file) /\ swap' = [swap EXCEPT ![s] = NoSwap]
  /\ UNCHANGED <<mistracked, meant, trackBuild, refreshAsked>>

\* the rows are cleared, and a build is asked for
SwapEnds(s) ==
  /\ swap[s].at = "recording" /\ Reprobed(swap[s].file)
  /\ snapshot' = RowCleared(swap[s].file)
  /\ refreshAsked' = TRUE /\ swap' = [swap EXCEPT ![s] = NoSwap]
  /\ UNCHANGED <<mistracked, meant, trackBuild>>

\* dismiss_track_mismatch, one or many; undismiss_track_mismatch
Dismissed ==
  /\ \E fs \in (SUBSET SwapFiles) \ {{}} : meant' = meant \cup fs
  /\ UNCHANGED <<mistracked, stored, snapshot, swap, trackBuild, refreshAsked, cured>>
Undismissed ==
  /\ \E f \in meant : meant' = meant \ {f}
  /\ UNCHANGED <<mistracked, stored, snapshot, swap, trackBuild, refreshAsked, cured>>

\* build_coverage reads the probes at its start and the dismissals at its end;
\* one that was asked for meanwhile follows it
TrackBuildReads ==
  /\ trackBuild.at = "idle"
  /\ trackBuild' = [at |-> "building", read |-> stored] /\ refreshAsked' = FALSE
  /\ UNCHANGED <<mistracked, stored, snapshot, meant, swap, cured>>

TrackBuildEnds ==
  /\ trackBuild.at = "building"
  /\ snapshot' = trackBuild.read \ meant /\ trackBuild' = [trackBuild EXCEPT !.at = "idle"]
  /\ UNCHANGED <<mistracked, stored, meant, swap, refreshAsked, cured>>

TrackNext ==
  \/ \E s \in Swaps : SwapProbed(s) \/ SwapWrites(s) \/ SwapFails(s) \/ SwapEnds(s)
                        \/ \E f \in SwapFiles : SwapAsked(s, f)
  \/ Dismissed \/ Undismissed
  \/ TrackBuildReads \/ TrackBuildEnds

\* a build that is asked for runs, and a build ends
TrackFairness ==
  /\ WF_trackVars(refreshAsked /\ TrackBuildReads)
  /\ WF_trackVars(TrackBuildEnds)

TrackSpec == TrackInit /\ [][TrackNext]_trackVars /\ TrackFairness

----------------------------------------------------------------------------
\* A row whose file was put right, and whose new probe is stored, is not called
\* wrong for good: a build that read the old probe may publish it after the
\* rows were cleared, and the build that was asked for follows.
SwappedRowsClear == \A f \in SwapFiles : f \in cured ~> [](f \notin snapshot)
=============================================================================
