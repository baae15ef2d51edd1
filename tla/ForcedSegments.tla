--------------------------- MODULE ForcedSegments ---------------------------
(* Foreign scenes of files in English: found, translated and written as a   *)
(* forced subtitle next to the file (forced_segment.py,                     *)
(* forced_segment_service.py, forced_segment_lid.py), with the verdicts     *)
(* that spare a file another scan (forced_segment_store.py). Times are in   *)
(* tenths of a second, probabilities in percent.                            *)
EXTENDS Integers, Sequences, FiniteSets, SequencesExt

CONSTANTS
  Films,        \* the files
  Walkers,      \* deep scans a user may start
  AtImport,     \* scans after a completion
  MaxVersions   \* bound: versions of a file

ASSUME ForcedAssumption == MaxVersions \in Nat /\ Walkers \cap AtImport = {}

MinSpan == 25
MergeGap == 15
ConfFloor == 50
MostlyForeignPercent == 50
LidWindow == 150
LidMinConfidence == 50
LidMaxEnglish == 25
GateMinRuntime == 1200
EnglishCodes == {"en", "eng"}

----------------------------------------------------------------------------
\* classify_utterances: heard is [lang, conf] per utterance, over-flagging
SoundsForeign(heard) ==
  \/ heard.lang # "none" /\ heard.lang \notin EnglishCodes
  \/ (heard.lang = "none" \/ heard.lang \in EnglishCodes) /\ heard.conf < ConfFloor

\* subgen_lid: the share of agreeing chunks of a file subgen can see, or what a
\* transcription says
SubgenHeard(answer) ==
  CASE answer.failed -> [lang |-> "none", conf |-> 0]
    [] answer.shared /\ (answer.lang = "none" \/ answer.total = 0) -> [lang |-> "none", conf |-> 0]
    [] answer.shared -> [lang |-> answer.lang, conf |-> (100 * answer.agreeing) \div answer.total]
    [] OTHER -> [lang |-> answer.lang, conf |-> IF answer.lang = "none" THEN 0 ELSE 100]

\* _classify: a clip that cannot be cut is foreign
ByUtterance(utterances, answers) ==
  [i \in DOMAIN utterances |->
     [from |-> utterances[i].from, to |-> utterances[i].to,
      foreign |-> answers[i].unclipped \/ SoundsForeign(SubgenHeard(answers[i]))]]

Lasts(spans) == FoldSet(LAMBDA s, sum : sum + s.to - s.from, 0, spans)
\* is_mostly_foreign
MostlyForeign(classified) ==
  LET all == Lasts(ToSet(classified))
  IN all > 0 /\ 100 * Lasts({u \in ToSet(classified) : u.foreign}) > MostlyForeignPercent * all

\* merge_foreign_spans: neighbours within the gap are one span, short ones go
ForeignSpans(classified) ==
  LET foreign == {u \in ToSet(classified) : u.foreign}
      \* a span begins where no foreign speech reaches up to the gap before it
      starts == {u.from : u \in {v \in foreign :
                   \A w \in foreign : w.from >= v.from \/ w.to + MergeGap < v.from}}
      endOf(a) == LET inside == {u.to : u \in {v \in foreign : v.from >= a /\
                                   \A b \in starts : b > a => v.from < b}}
                  IN CHOOSE e \in inside : \A x \in inside : x <= e
  IN {[from |-> a, to |-> endOf(a)] : a \in {b \in starts : endOf(b) - b >= MinSpan}}

\* assemble_windows: the number of the window of each utterance
WindowOf(utterances) ==
  LET begins[i \in 0..Len(utterances)] ==   \* the first utterance of i's window
        IF i <= 1 THEN i
        ELSE IF utterances[i].to - utterances[begins[i - 1]].from <= LidWindow
             THEN begins[i - 1] ELSE i
  IN [i \in DOMAIN utterances |-> begins[i]]

\* window_is_foreign
WindowForeign(verdict) ==
  /\ verdict.top \notin EnglishCodes \cup {"none"}
  /\ verdict.prob >= LidMinConfidence /\ verdict.english <= LidMaxEnglish

\* LocalLidBackend.classify, expand_window_verdicts: a window that cannot be
\* judged is foreign
ByWindow(utterances, verdicts) ==
  [i \in DOMAIN utterances |->
     LET w == verdicts[WindowOf(utterances)[i]]
     IN [from |-> utterances[i].from, to |-> utterances[i].to,
         foreign |-> w.failed \/ WindowForeign(w)]]

\* is_forced_sidecar_for: name is the sequence of its parts after the stem
ForcedSidecar(name, lang) ==
  /\ Last(name) = "srt"
  /\ "forced" \in ToSet(Front(name))
  /\ ToSet(Front(name)) \cap ({lang} \cup IF lang = "en" THEN {"eng"} ELSE {}) # {}

\* qualifies_for_forced_segment
Qualifies(f) ==
  CASE f.audio \cap EnglishCodes = {} -> "not_english_audio"
    [] f.class = "multi" -> "multilingual"
    [] f.embedded = "EN(forced)" \/ f.sidecar -> "existing_forced"
    [] f.duration # 0 /\ f.duration < GateMinRuntime -> "too_short"
    [] OTHER -> "ok"

\* _fs_gate: what the gate is asked about a file, of the probe of it, of what is
\* beside it, and of what was heard in it; what cannot be read is not there
GateInputs(probe, disk, verdict) ==
  [audio |-> IF probe.known THEN probe.langs ELSE {},
   embedded |-> IF probe.known THEN probe.english ELSE "none",
   duration |-> IF probe.known THEN probe.duration ELSE 0,
   sidecar |-> disk.readable /\ disk.there /\ \E name \in disk.names : ForcedSidecar(name, "en"),
   class |-> IF verdict.known THEN verdict.class ELSE "single"]

\* _build_cues: the cues of each span, moved to where the span is; a span whose
\* source turns out to be English is dropped
ForcedCues(spans, translated) ==
  UNION {{[from |-> s.from + c.from, to |-> s.from + c.to, text |-> c.text] :
            c \in {d \in translated[s].cues : d.text # {}}} :
         s \in {t \in spans : ~translated[t].failed /\ translated[t].source \notin EnglishCodes}}

----------------------------------------------------------------------------
VARIABLES
  film,        \* per file [version, scenes]: does it have foreign scenes
  forcedFile,  \* per file the forced subtitle on disk: "none", "own", "user"
  forcedRow,   \* forced_segment_scans: per file [status, version, heard, outage];
               \* the last two are history: the version heard, was a service down
  scanner,     \* per scan where it is: [at, film, version, heard, outage]
  walkTodo,    \* per walker the files it has left
  walkAsked,   \* the walks that are to start when their files are listed
  walkTask,    \* the walk the service holds: the one started last
  vadHere, subgenHere  \* is the voice detector there, does subgen answer

walkVars == <<walkAsked, walkTask>>
forcedVars == <<film, forcedFile, forcedRow, scanner, walkTodo, walkVars, vadHere, subgenHere>>

Scanners == Walkers \cup AtImport
NoScan == [at |-> "idle"]
Terminal == {"scanned", "none", "bailed", "exists"}

ForcedInit ==
  /\ film \in [Films -> [version : {0}, scenes : BOOLEAN]]
  /\ forcedFile = [f \in Films |-> "none"] /\ walkAsked = {} /\ walkTask = {}
  /\ forcedRow = [f \in Films |-> [status |-> "unscanned", version |-> 0, heard |-> 0, outage |-> FALSE]]
  /\ scanner = [s \in Scanners |-> NoScan] /\ walkTodo = [s \in Walkers |-> {}]
  /\ vadHere \in BOOLEAN /\ subgenHere \in BOOLEAN

\* get: only what is settled, and only for the file as it is
CacheHit(f) == forcedRow[f].status \in Terminal /\ forcedRow[f].version = film[f].version

\* Mutant: the row is written for the file as it is at the end.
ForcedVerdictLate(s, status) ==
  LET c == scanner[s]
  IN forcedRow' = [forcedRow EXCEPT ![c.film] =
       [status |-> status, version |-> film[c.film].version, heard |-> c.heard, outage |-> c.outage]]

\* upsert, with the mtime and size read at the start
ForcedVerdict(s, status) ==
  LET c == scanner[s]
  IN forcedRow' = [forcedRow EXCEPT ![c.film] =
       [status |-> status, version |-> c.version, heard |-> c.heard, outage |-> c.outage]]

ScanEnds(s) == scanner' = [scanner EXCEPT ![s] = NoScan]

\* is_running: of the walk the service holds
WalkRuns == \E w \in walkTask : walkTodo[w] # {} \/ scanner[w] # NoScan

\* start, up to the listing of the files in a thread. A second walk may be asked
\* for meanwhile; both then run, and only the later can be stopped.
WalkAskedFor(s) ==
  /\ ~WalkRuns
  /\ s \notin walkAsked /\ walkTodo[s] = {} /\ scanner[s] = NoScan
  /\ walkAsked' = walkAsked \cup {s}
  /\ UNCHANGED <<film, forcedFile, forcedRow, scanner, walkTodo, walkTask, vadHere, subgenHere>>

\* start, after it: a listing that fails leaves nothing to walk
WalkStarted(s) ==
  /\ s \in walkAsked
  /\ walkAsked' = walkAsked \ {s} /\ walkTask' = {s}
  /\ \E listed \in {{}, Films} : walkTodo' = [walkTodo EXCEPT ![s] = listed]
  /\ UNCHANGED <<film, forcedFile, forcedRow, scanner, vadHere, subgenHere>>

\* stop
WalkStopped(s) ==
  /\ s \in walkTask /\ WalkRuns
  /\ walkTodo' = [walkTodo EXCEPT ![s] = {}] /\ ScanEnds(s)
  /\ UNCHANGED <<film, forcedFile, forcedRow, walkVars, vadHere, subgenHere>>

\* _run up to its first await: a settled file, one the gate refuses (here: there
\* is a forced subtitle) and one with a forced subtitle on disk are done with
ScanBegins(s) ==
  /\ scanner[s] = NoScan
  /\ \E f \in Films :
       /\ IF s \in Walkers
          THEN f \in walkTodo[s] /\ walkTodo' = [walkTodo EXCEPT ![s] = @ \ {f}]
          ELSE UNCHANGED walkTodo
       /\ IF CacheHit(f) THEN UNCHANGED <<forcedRow, scanner>>
          ELSE \/ forcedFile[f] # "none" /\ UNCHANGED <<forcedRow, scanner>>
               \/ /\ forcedFile[f] # "none" /\ UNCHANGED scanner
                  /\ forcedRow' = [forcedRow EXCEPT ![f] =
                       [status |-> "exists", version |-> film[f].version,
                        heard |-> film[f].version, outage |-> FALSE]]
               \/ /\ forcedFile[f] = "none" /\ UNCHANGED forcedRow
                  /\ scanner' = [scanner EXCEPT ![s] =
                       [at |-> "vad", film |-> f, version |-> film[f].version,
                        heard |-> film[f].version, outage |-> FALSE]]
  /\ UNCHANGED <<film, forcedFile, walkVars, vadHere, subgenHere>>

\* detect_utterances, and what nothing heard means
SpeechHeard(s) ==
  /\ scanner[s].at = "vad"
  /\ IF vadHere
     THEN /\ scanner' = [scanner EXCEPT ![s].at = "lid",
                         ![s].heard = film[scanner[s].film].version]
          /\ UNCHANGED forcedRow
     ELSE ForcedVerdict(s, "vad-unavailable") /\ ScanEnds(s)
  /\ UNCHANGED <<film, forcedFile, walkTodo, walkVars, vadHere, subgenHere>>
NothingHeard(s) ==
  /\ scanner[s].at = "vad" /\ vadHere /\ ~film[scanner[s].film].scenes
  /\ ForcedVerdict(s, "none") /\ ScanEnds(s)
  /\ UNCHANGED <<film, forcedFile, walkTodo, walkVars, vadHere, subgenHere>>

\* the local model classifies: scenes are found, none, or too many
ScenesFound(s) ==
  /\ scanner[s].at = "lid"
  /\ scanner' = [scanner EXCEPT ![s].at = "translate"]
  /\ UNCHANGED <<film, forcedFile, forcedRow, walkTodo, walkVars, vadHere, subgenHere>>
NoScenes(s) ==
  /\ scanner[s].at = "lid" /\ ~film[scanner[s].film].scenes
  /\ \E status \in {"none", "bailed"} : ForcedVerdict(s, status)
  /\ ScanEnds(s) /\ UNCHANGED <<film, forcedFile, walkTodo, walkVars, vadHere, subgenHere>>

\* without the local model subgen is asked, and a question without an answer
\* counts as foreign speech
LidUnanswered(s) ==
  /\ scanner[s].at = "lid" /\ ~subgenHere
  /\ forcedRow' = [forcedRow EXCEPT ![scanner[s].film] =
       [status |-> "bailed", version |-> scanner[s].version, heard |-> scanner[s].heard,
        outage |-> TRUE]]
  /\ ScanEnds(s) /\ UNCHANGED <<film, forcedFile, walkTodo, walkVars, vadHere, subgenHere>>

\* subgen_translate and _build_cues: without an answer there is no cue, and a
\* false alarm has none either
Translated(s) ==
  /\ scanner[s].at = "translate"
  /\ IF subgenHere /\ film[scanner[s].film].scenes
     THEN scanner' = [scanner EXCEPT ![s].at = "write"]
     ELSE scanner' = [scanner EXCEPT ![s].at = "empty", ![s].outage = ~subgenHere]
  /\ UNCHANGED <<film, forcedFile, forcedRow, walkTodo, walkVars, vadHere, subgenHere>>
NoCues(s) ==
  /\ scanner[s].at = "empty" /\ ForcedVerdict(s, "none") /\ ScanEnds(s)
  /\ UNCHANGED <<film, forcedFile, walkTodo, walkVars, vadHere, subgenHere>>

\* the file is replaced by what was written beside it, then the verdict recorded
ForcedWritten(s) ==
  /\ scanner[s].at = "write"
  /\ forcedFile' = [forcedFile EXCEPT ![scanner[s].film] = "own"]
  /\ scanner' = [scanner EXCEPT ![s].at = "written"]
  /\ UNCHANGED <<film, forcedRow, walkTodo, walkVars, vadHere, subgenHere>>
ForcedRecorded(s) ==
  /\ scanner[s].at = "written" /\ ForcedVerdict(s, "scanned") /\ ScanEnds(s)
  /\ UNCHANGED <<film, forcedFile, walkTodo, walkVars, vadHere, subgenHere>>

\* process: any other failure is recorded as such, for the file as it is now
ScanFails(s) ==
  /\ scanner[s] # NoScan /\ scanner[s].at # "written"
  /\ forcedRow' = [forcedRow EXCEPT ![scanner[s].film] =
       [status |-> "error", version |-> film[scanner[s].film].version,
        heard |-> scanner[s].heard, outage |-> FALSE]]
  /\ ScanEnds(s) /\ UNCHANGED <<film, forcedFile, walkTodo, walkVars, vadHere, subgenHere>>

\* what others do: another version of the file, a user's own forced subtitle,
\* services that come and go
FilmReplaced ==
  /\ \E f \in Films, scenes \in BOOLEAN :
       /\ film[f].version < MaxVersions
       /\ film' = [film EXCEPT ![f] = [version |-> @.version + 1, scenes |-> scenes]]
  /\ UNCHANGED <<forcedFile, forcedRow, scanner, walkTodo, walkVars, vadHere, subgenHere>>
UserPutsForced ==
  /\ \E f \in Films : forcedFile[f] # "user" /\ forcedFile' = [forcedFile EXCEPT ![f] = "user"]
  /\ UNCHANGED <<film, forcedRow, scanner, walkTodo, walkVars, vadHere, subgenHere>>
ServicesChange ==
  /\ \/ vadHere' = ~vadHere /\ UNCHANGED subgenHere
     \/ subgenHere' = ~subgenHere /\ UNCHANGED vadHere
  /\ UNCHANGED <<film, forcedFile, forcedRow, scanner, walkTodo, walkVars>>

\* a restart forgets the scans
ForcedBoots ==
  /\ scanner' = [s \in Scanners |-> NoScan] /\ walkTodo' = [s \in Walkers |-> {}]
  /\ walkAsked' = {} /\ walkTask' = {}
  /\ UNCHANGED <<film, forcedFile, forcedRow, vadHere, subgenHere>>

ForcedNext ==
  \/ \E s \in Walkers : WalkAskedFor(s) \/ WalkStarted(s) \/ WalkStopped(s)
  \/ \E s \in Scanners : \/ ScanBegins(s) \/ SpeechHeard(s) \/ NothingHeard(s) \/ ScenesFound(s)
                         \/ NoScenes(s) \/ LidUnanswered(s) \/ Translated(s) \/ NoCues(s) \/ ForcedWritten(s)
                         \/ ForcedRecorded(s) \/ ScanFails(s)
  \/ FilmReplaced \/ UserPutsForced \/ ServicesChange \/ ForcedBoots

ForcedSpec == ForcedInit /\ [][ForcedNext]_forcedVars

----------------------------------------------------------------------------
\* "a row is a cache HIT only when the stored (mtime, size) still match the file"
\* (forced_segment_store.py:3): what spares a file another scan was heard in this
\* version of it, though a file may be replaced while it is scanned.
VerdictsAreOfThisFile == \A f \in Films : CacheHit(f) => forcedRow[f].heard = film[f].version

\* "Transient verdicts are a deliberate MISS so a subgen outage ... auto-retries
\* on the next walk without the file having to change"
\* (forced_segment_store.py:55): no outage spares a file the next scan.
OutagesAreRetried == \A f \in Films : CacheHit(f) => ~forcedRow[f].outage

\* "a forced sidecar already on disk is never overwritten"
\* (forced_segment_service.py:204).
NoClobber == [][\A f \in Films : forcedFile[f] = "user" => forcedFile'[f] = "user"]_forcedVars
=============================================================================
