------------------------------ MODULE Verdicts ------------------------------
(* What is known about the spoken language of files: the verdicts of users  *)
(* and of the machine (audio_lang_store.py, routers/audio_lang.py), the     *)
(* audit that listens to the library (audio_audit.py), and the passes that  *)
(* follow files which were replaced, moved or deleted: the carry-over and   *)
(* the back-fill of ids with a coverage build, the prune and the relink of  *)
(* the administrator (orphan_prune.py, routers/admin.py).                   *)
(*                                                                          *)
(* The passes run in threads of their own. They look at the disk with no     *)
(* lock held and write row by row, so a step is one look or one statement.  *)
EXTENDS Naturals, FiniteSets

CONSTANTS
  Paths,        \* canonical paths
  Library,      \* per path the library whose mount holds it
  Key,          \* per path the show folder and SxxExx token, or NoKey
  Id,           \* per path what the *arr knows it as: [kind, n]
  Languages,    \* languages users and the machine can name
  Here,         \* the paths that have a file at first
  Mixes,        \* bound: the sets of passes, of Threads, that run together
  MaxChanges    \* bound: changes by users and to the disk, together

Threads == {"refresh", "prune", "relink", "audit"}
NoKey == "no key"
NoArrId == [kind |-> "none", n |-> 0]
Libraries == {Library[p] : p \in Paths}
Ids == {Id[p] : p \in Paths}

ASSUME PathsAssumption ==
  /\ IsFiniteSet(Paths) /\ Paths # {}
  /\ DOMAIN Library = Paths /\ DOMAIN Key = Paths /\ DOMAIN Id = Paths
  \* the token of a name and the id of the *arr agree on what a file is
  /\ \A p, q \in Paths : Key[p] = Key[q] /\ Key[p] # NoKey => Id[p] = Id[q] /\ Library[p] = Library[q]
ASSUME MixesAssumption == Here \subseteq Paths /\ Mixes \subseteq SUBSET Threads
ASSUME VerdictBoundsAssumption == MaxChanges \in Nat

VARIABLES
  content,   \* per path the version of its content, 0: no file
  mounted,   \* libraries that can be read
  verdict,   \* audio_lang_verifications
  rule,      \* series_lang_intent for the show: [lang, by], or NoRule
  probed,    \* media_probe: paths with a row
  known,     \* the ids of the last coverage snapshot: paths it names
  finding,   \* audio_lang_audit: the mtime stored and, as history, the
             \* version that was heard
  walk,      \* the audit walker
  mix,       \* the passes that run in this behaviour
  pass,      \* per thread its stage and locals
  changes    \* bound: changes made

libraryVars == <<content, mounted, verdict, rule, probed, known, finding, walk, mix, pass, changes>>

Sources == {"user", "whisper-robust", "auto-high-conf-multi"}
\* `about` is history: what the language was heard or said of.
NoWord == [by |-> "none", lang |-> "none", id |-> NoArrId, about |-> NoArrId]
NoRule == [by |-> "none", lang |-> "none"]
NoFinding == [mtime |-> 0, heard |-> 0]
AtRest == [at |-> "idle", todo |-> {}, listing |-> {}, old |-> {}, new |-> {}, missing |-> {}]
NoAuditWalk == [at |-> "idle", todo |-> {}, path |-> {}, mtime |-> [p \in Paths |-> 0], heard |-> 0]

\* Path.exists() through the mount
Present(p) == content[p] > 0 /\ Library[p] \in mounted
Live == {p \in Paths : Present(p)}
Worded == {p \in Paths : verdict[p] # NoWord}
\* _index_videos: the files of an episode under its show folder
Listed(k) == {p \in Live : Key[p] = k /\ k # NoKey}

LibraryInit ==
  /\ content = [p \in Paths |-> IF p \in Here THEN 1 ELSE 0] /\ mounted = Libraries
  /\ verdict = [p \in Paths |-> NoWord]
  /\ rule = NoRule
  /\ probed = {p \in Paths : content[p] > 0}
  /\ known = {}
  /\ finding = [p \in Paths |-> NoFinding]
  /\ walk = NoAuditWalk
  /\ mix \in Mixes /\ pass = [t \in Threads |-> AtRest]
  /\ changes = 0

\* a content written by this change; no mtime comes back
NewVersion == changes + 2

Change == changes < MaxChanges /\ changes' = changes + 1

----------------------------------------------------------------------------
(* The store. *)

\* AudioLangStore.upsert: an id recorded before is kept
VerdictUpserted(p, by, lang, id) ==
  [by |-> by, lang |-> lang, id |-> IF id = NoArrId THEN verdict[p].id ELSE id, about |-> Id[p]]

\* _get_intent, _lookup_series_intent: one show, so one declaration at most
Declared(p) == IF Key[p] # NoKey THEN rule ELSE NoRule

\* AudioLangStore.get: the word on the file, else the one on its series
WordOn(p) == IF verdict[p] # NoWord THEN verdict[p].by ELSE Declared(p).by

\* _arr_ids_for: the id of the path in the cached snapshot
KnownId(p) == IF p \in known THEN Id[p] ELSE NoArrId

\* Mutant: the row moves whatever is recorded for the new path.
MoveOver(old, new) ==
  IF verdict[old] # NoWord /\ old # new
  THEN [verdict EXCEPT ![new] = verdict[old], ![old] = NoWord]
  ELSE verdict

\* _move_verdict: nothing moves onto a path with a row of its own
Moved(old, new) ==
  IF verdict[old] # NoWord /\ verdict[new] = NoWord
  THEN [verdict EXCEPT ![new] = verdict[old], ![old] = NoWord]
  ELSE verdict

\* suggest_series_rules: enough verdicts on the show, all for one language,
\* none of a multilingual file, and no rule yet. The bound of three is
\* MinAgreeing.
MinAgreeing == 2
LanguagesSuggested ==
  LET heard == {p \in Worded : Key[p] # NoKey}
      langs == {verdict[p].lang : p \in heard}
  IN IF /\ rule = NoRule /\ Cardinality(heard) >= MinAgreeing
        /\ Cardinality(langs) = 1
        /\ \A p \in heard : verdict[p].by # "auto-high-conf-multi"
     THEN langs ELSE {}

----------------------------------------------------------------------------
(* Users. *)

\* upsert_verification
Verify(p, lang) ==
  /\ Change
  /\ verdict' = [verdict EXCEPT ![p] = VerdictUpserted(p, "user", lang, KnownId(p))]
  /\ UNCHANGED <<mix, content, mounted, rule, probed, known, finding, walk, pass>>

\* bulk_for_series: the same word for the files that were named
BulkForSeries(files, lang) ==
  /\ Change
  /\ verdict' = [p \in Paths |-> IF p \in files /\ Key[p] # NoKey
                                 THEN VerdictUpserted(p, "user", lang, NoArrId) ELSE verdict[p]]
  /\ UNCHANGED <<mix, content, mounted, rule, probed, known, finding, walk, pass>>

\* delete_verification
Withdraw(p) ==
  /\ Change /\ verdict[p] # NoWord
  /\ verdict' = [verdict EXCEPT ![p] = NoWord]
  /\ UNCHANGED <<mix, content, mounted, rule, probed, known, finding, walk, pass>>

\* set_series_intent: the last one stands
SeriesIntent(by, lang) == [by |-> by, lang |-> lang]

\* upsert_series_intent
DeclareSeries(lang) ==
  /\ Change
  /\ rule' = SeriesIntent("user", lang)
  /\ UNCHANGED <<mix, content, mounted, verdict, probed, known, finding, walk, pass>>

\* delete_series_intent
DropSeries ==
  /\ Change /\ rule # NoRule
  /\ rule' = NoRule
  /\ UNCHANGED <<mix, content, mounted, verdict, probed, known, finding, walk, pass>>

\* apply_series_suggestion: only what is still offered
ApplySuggestion(lang) ==
  /\ Change /\ lang \in LanguagesSuggested
  /\ rule' = SeriesIntent("suggestion", lang)
  /\ UNCHANGED <<mix, content, mounted, verdict, probed, known, finding, walk, pass>>

----------------------------------------------------------------------------
(* The content. *)

\* a file is written, replaced in place, renamed or deleted
Written(p) ==
  /\ Change /\ Library[p] \in mounted
  /\ content' = [content EXCEPT ![p] = NewVersion]
  /\ UNCHANGED <<mix, mounted, verdict, rule, probed, known, finding, walk, pass>>

\* the *arr puts a new file in the place of the old one
FileReplaced(p, q) ==
  /\ Change /\ p # q /\ Id[p] = Id[q] /\ Library[p] = Library[q]
  /\ Present(p) /\ content[q] = 0
  /\ content' = [content EXCEPT ![p] = 0, ![q] = NewVersion]
  /\ UNCHANGED <<mix, mounted, verdict, rule, probed, known, finding, walk, pass>>

MountLost(l) ==
  /\ Change /\ l \in mounted /\ mounted' = mounted \ {l}
  /\ UNCHANGED <<mix, content, verdict, rule, probed, known, finding, walk, pass>>

MountBack(l) ==
  /\ l \notin mounted /\ mounted' = mounted \cup {l}
  /\ UNCHANGED <<mix, content, verdict, rule, probed, known, finding, walk, pass, changes>>

----------------------------------------------------------------------------
(* The pass of a coverage build: back-fill, then the carry-over by token    *)
(* and by id (_maybe_sweep_carry_overs). The prune begins with the          *)
(* carry-over by token alone.                                               *)

Goes(t, record) == pass' = [pass EXCEPT ![t] = record]

\* backfill_ids: ids for rows without one, where the file is still there
BackFilled ==
  [p \in Paths |-> IF p \in known \cap Live /\ verdict[p] # NoWord /\ verdict[p].id = NoArrId
                   THEN [verdict[p] EXCEPT !.id = Id[p]] ELSE verdict[p]]

\* the build published a snapshot: it names the files the *arr names
CarryBegins(named) ==
  /\ "refresh" \in mix /\ pass["refresh"] = AtRest
  /\ known' = named
  /\ verdict' = BackFilled
  /\ Goes("refresh", [AtRest EXCEPT !.at = "look", !.todo = Worded])
  /\ UNCHANGED <<mix, content, mounted, rule, probed, finding, walk, changes>>

\* prune_missing_multi after its carry-over; the dry run stops before deleting
PruneBegins ==
  /\ "prune" \in mix /\ pass["prune"] = AtRest
  /\ Goes("prune", [AtRest EXCEPT !.at = "look", !.todo = Worded])
  /\ UNCHANGED <<mix, content, mounted, verdict, rule, probed, known, finding, walk, changes>>

\* sweep_carry_overs: the row of a file that is gone, and the one file its
\* episode has now
CarryLists(t) ==
  /\ pass[t].at = "look"
  /\ \E old \in pass[t].todo :
       LET same == Listed(Key[old]) IN
       Goes(t, [pass[t] EXCEPT
         !.todo = @ \ {old},
         !.listing = IF old \notin Live /\ Cardinality(same) = 1 THEN @ \cup same ELSE @])
  /\ UNCHANGED <<mix, content, mounted, verdict, rule, probed, known, finding, walk, changes>>

\* find_carry_over, against the listing of the sweep; of orphans that agree
\* any may be the most recent
CarryOver(new) ==
  LET orphans == {old \in Worded \ {new} : Key[old] = Key[new] /\ old \notin Live}
  IN IF verdict[new] = NoWord /\ Cardinality({verdict[o].lang : o \in orphans}) = 1
     THEN orphans ELSE {}

CarryLooks(t) ==
  /\ pass[t].at = "look" /\ pass[t].todo = {} /\ pass[t].new = {}
  /\ \E new \in pass[t].listing :
       \/ \E old \in CarryOver(new) :
            Goes(t, [pass[t] EXCEPT !.listing = @ \ {new}, !.old = {old}, !.new = {new}])
       \/ CarryOver(new) = {} /\ Goes(t, [pass[t] EXCEPT !.listing = @ \ {new}])
  /\ UNCHANGED <<mix, content, mounted, verdict, rule, probed, known, finding, walk, changes>>

\* the statement that moves the row
CarryMoves(t) ==
  /\ pass[t].at \in {"look", "ids"} /\ pass[t].new # {}
  /\ \E old \in pass[t].old, new \in pass[t].new : verdict' = Moved(old, new)
  /\ Goes(t, [pass[t] EXCEPT !.old = {}, !.new = {}])
  /\ UNCHANGED <<mix, content, mounted, rule, probed, known, finding, walk, changes>>

TokensDone(t) ==
  /\ pass[t].at = "look" /\ pass[t].todo = {} /\ pass[t].listing = {} /\ pass[t].new = {}
  /\ IF t = "refresh" THEN Goes(t, [pass[t] EXCEPT !.at = "ids", !.todo = Worded])
     ELSE Goes(t, [pass[t] EXCEPT !.at = "check", !.todo = Worded \cup probed])
  /\ UNCHANGED <<mix, content, mounted, verdict, rule, probed, known, finding, walk, changes>>

\* Mutant: the number of the id alone, a series of one kind for a film of the other.
SuccessorsByNumber(old) ==
  {p \in known : Library[p] = Library[old] /\ Id[p].n = verdict[old].id.n}

\* the files of the snapshot with the id of the row, in its library
Successors(old) ==
  {p \in known : Library[p] = Library[old] /\ Id[p] = verdict[old].id}

\* _carry_by_id
CarryById ==
  /\ pass["refresh"].at = "ids" /\ pass["refresh"].new = {}
  /\ \E old \in pass["refresh"].todo :
       LET named == Successors(old)
           may == /\ verdict[old].id # NoArrId /\ old \notin Live
                  /\ Cardinality(named) = 1 /\ named # {old} /\ named \subseteq Live
       IN Goes("refresh", [pass["refresh"] EXCEPT
            !.todo = @ \ {old},
            !.old = IF may THEN {old} ELSE {}, !.new = IF may THEN named ELSE {}])
  /\ UNCHANGED <<mix, content, mounted, verdict, rule, probed, known, finding, walk, changes>>

CarryEnds ==
  /\ pass["refresh"].at = "ids"
  /\ pass["refresh"].todo = {} /\ pass["refresh"].new = {}
  /\ Goes("refresh", AtRest)
  /\ UNCHANGED <<mix, content, mounted, verdict, rule, probed, known, finding, walk, changes>>

----------------------------------------------------------------------------
(* The prune and the relink. *)

\* partition_missing: one path after another
PruneChecks ==
  /\ pass["prune"].at = "check"
  /\ \E p \in pass["prune"].todo :
       Goes("prune", [pass["prune"] EXCEPT
         !.todo = @ \ {p}, !.listing = @ \cup {p},
         !.missing = IF p \in Live THEN @ ELSE @ \cup {p}])
  /\ UNCHANGED <<mix, content, mounted, verdict, rule, probed, known, finding, walk, changes>>

\* prune_decision: MAX_MISSING_RATIO is a half
PruneDecision(total, missing) == total >= 1 /\ 2 * missing <= total

PruneDeletes ==
  /\ pass["prune"].at = "check" /\ pass["prune"].todo = {}
  /\ LET missing == pass["prune"].missing
         safe == PruneDecision(Cardinality(pass["prune"].listing), Cardinality(missing))
     IN /\ verdict' = [p \in Paths |-> IF safe /\ p \in missing THEN NoWord ELSE verdict[p]]
        /\ probed' = IF safe THEN probed \ missing ELSE probed
  /\ Goes("prune", AtRest)
  /\ UNCHANGED <<mix, content, mounted, rule, known, finding, walk, changes>>

\* _relink_apply for a pair of the offered rule: the new file is checked
\* before the row is moved
RelinkChecks(old, new) ==
  /\ "relink" \in mix /\ pass["relink"] = AtRest
  /\ Id[old] = Id[new] /\ old \notin Live /\ new \in Live /\ old \in Worded \cup probed
  /\ IF old \in Worded THEN new \notin Worded ELSE new \notin probed
  /\ Goes("relink", [AtRest EXCEPT !.at = "move", !.old = {old}, !.new = {new},
                                 !.missing = {old} \cap Worded])
  /\ UNCHANGED <<mix, content, mounted, verdict, rule, probed, known, finding, walk, changes>>

\* the verdict first; when it could not move, the probe stays with it
RelinkMoves ==
  /\ pass["relink"].at = "move"
  /\ \E old \in pass["relink"].old, new \in pass["relink"].new :
       LET worded == old \in pass["relink"].missing
           moves == verdict[old] # NoWord /\ verdict[new] = NoWord
       IN /\ verdict' = IF worded THEN Moved(old, new) ELSE verdict
          /\ probed' = IF (worded => moves) /\ old \in probed /\ new \notin probed
                       THEN (probed \ {old}) \cup {new} ELSE probed
  /\ Goes("relink", AtRest)
  /\ UNCHANGED <<mix, content, mounted, rule, known, finding, walk, changes>>

----------------------------------------------------------------------------
(* The audit. *)

\* AudioAuditWalker.start: the list of files with their mtimes
AuditStarts ==
  /\ "audit" \in mix /\ walk.at = "idle" /\ Live # {}
  /\ walk' = [NoAuditWalk EXCEPT !.at = "next", !.todo = Live, !.mtime = content]
  /\ UNCHANGED <<mix, content, mounted, verdict, rule, probed, known, finding, pass, changes>>

\* _run: a file whose stored mtime is the one of the list was heard before
AuditNext ==
  /\ walk.at = "next"
  /\ \E p \in walk.todo :
       walk' = IF finding[p].mtime = walk.mtime[p]
               THEN [walk EXCEPT !.todo = @ \ {p}]
               ELSE [walk EXCEPT !.todo = @ \ {p}, !.at = "listen", !.path = {p},
                                 !.heard = IF p \in Live THEN content[p] ELSE 0]
  /\ UNCHANGED <<mix, content, mounted, verdict, rule, probed, known, finding, pass, changes>>

\* Mutant: the mtime is read after listening.
FindingStoredLate(p) == [mtime |-> content[p], heard |-> walk.heard]

\* AudioAuditStore.upsert in _audit_one: the mtime is the one of the list
FindingStored(p) == [mtime |-> walk.mtime[p], heard |-> walk.heard]

\* Mutant: whose word stands is not looked at.
RecordedMultiAlways(p, lang) == [verdict EXCEPT ![p] = VerdictUpserted(p, "auto-high-conf-multi", lang, NoArrId)]

\* _audit_one: several languages are recorded unless a user, or a user's
\* declaration, speaks for the file
RecordedMulti(p, lang) ==
  IF WordOn(p) = "user" THEN verdict
  ELSE [verdict EXCEPT ![p] = VerdictUpserted(p, "auto-high-conf-multi", lang, NoArrId)]

\* ... and a language that contradicts the tag is recorded in any case
RecordedMislabel(p, lang) == [verdict EXCEPT ![p] = VerdictUpserted(p, "whisper-robust", lang, NoArrId)]

\* _derive_status: what contradicts the tag in a file of several tracks may be
\* another track, and what is mixed is not several languages for sure
StatusHeard(severalTracks, mislabelled, mixed, several) ==
  CASE severalTracks -> "multitrack"
    [] ~severalTracks /\ mislabelled -> "mislabel"
    [] ~severalTracks /\ ~mislabelled /\ mixed -> "bilingual"
    [] ~severalTracks /\ ~mislabelled /\ ~mixed /\ several -> "multilingual"
    [] OTHER -> "nothing to do"

StatusesHeard == {StatusHeard(t, m, b, s) : t, m, b, s \in BOOLEAN}

\* subgen answered for the file
AuditHears(status, lang) ==
  /\ walk.at = "listen" /\ walk.heard > 0
  /\ \E p \in walk.path :
       /\ finding' = [finding EXCEPT ![p] = FindingStored(p)]
       /\ verdict' = CASE status = "mislabel" -> RecordedMislabel(p, lang)
                       [] status = "multilingual" -> RecordedMulti(p, lang)
                       [] OTHER -> verdict
  /\ walk' = [walk EXCEPT !.at = "next", !.path = {}, !.heard = 0]
  /\ UNCHANGED <<mix, content, mounted, rule, probed, known, pass, changes>>

\* subgen failed: the error is noted and the run goes on
AuditFails ==
  /\ walk.at = "listen"
  /\ walk' = [walk EXCEPT !.at = "next", !.path = {}, !.heard = 0]
  /\ UNCHANGED <<mix, content, mounted, verdict, rule, probed, known, finding, pass, changes>>

\* the run is done, or was stopped in whatever it did
AuditEnds ==
  /\ walk.at # "idle" /\ walk' = NoAuditWalk
  /\ UNCHANGED <<mix, content, mounted, verdict, rule, probed, known, finding, pass, changes>>

----------------------------------------------------------------------------

LibraryNext ==
  \/ \E p \in Paths, l \in Languages : Verify(p, l)
  \/ \E files \in SUBSET Paths, l \in Languages : BulkForSeries(files, l)
  \/ \E p \in Paths : Withdraw(p)
  \/ \E l \in Languages : DeclareSeries(l)
  \/ DropSeries
  \/ \E l \in Languages : ApplySuggestion(l)
  \/ \E p \in Paths : Written(p)
  \/ \E p, q \in Paths : FileReplaced(p, q)
  \/ \E l \in Libraries : MountLost(l)
  \/ \E l \in Libraries : MountBack(l)
  \/ \E named \in SUBSET {p \in Paths : content[p] > 0} : CarryBegins(named)
  \/ PruneBegins
  \/ \E t \in Threads : CarryLists(t)
  \/ \E t \in Threads : CarryLooks(t)
  \/ \E t \in Threads : CarryMoves(t)
  \/ \E t \in Threads : TokensDone(t)
  \/ CarryById \/ CarryEnds
  \/ PruneChecks \/ PruneDeletes
  \/ \E p, q \in Paths : RelinkChecks(p, q)
  \/ RelinkMoves
  \/ AuditStarts \/ AuditNext
  \/ \E status \in StatusesHeard, l \in Languages : AuditHears(status, l)
  \/ AuditFails \/ AuditEnds

LibrarySpec == LibraryInit /\ [][LibraryNext]_libraryVars

----------------------------------------------------------------------------
(* Properties. *)

\* A verdict stays with the title it was given for: neither the token of a
\* name nor an id of the *arr carries it to another one, and nobody back-fills
\* the id of another one.
VerdictKeepsItsTitle ==
  \A p \in Worded : verdict[p].about = Id[p] /\ verdict[p].id \in {NoArrId, Id[p]}

\* An audit row that names the mtime a file has now was written from what was
\* heard in that file: the file that is replaced while subgen listens to it is
\* heard again by the next audit.
FindingsAreCurrent ==
  \A p \in Paths : finding[p].mtime = content[p] /\ content[p] > 0 => finding[p].heard = content[p]

\* What is recorded for a file while a pass looks for its predecessor stands:
\* the carry-over and the relink neither overwrite a row nor lose one.
RowsMoveWhole ==
  [][\A t \in Threads : (CarryMoves(t) \/ (t = "relink" /\ RelinkMoves))
       => /\ Cardinality(Worded') = Cardinality(Worded)
          /\ \A p \in Worded : verdict'[p] \in {verdict[p], NoWord}]_libraryVars

\* An automatic multilingual verdict replaces no word of a user, however late
\* the user gave it.
UserWordOverMulti ==
  [][\A p \in Paths : verdict'[p].by = "auto-high-conf-multi" /\ verdict[p].by = "user"
       => verdict'[p] = verdict[p]]_libraryVars

\* "NEVER clobber a human verdict" (audio_audit.py:343): no step of the audit
\* replaces the word of a user.
UserWordStands ==
  [][walk' # walk => \A p \in Paths : verdict[p].by = "user" => verdict'[p] = verdict[p]]_libraryVars

\* What the prune deletes is gone, or was when it looked: "pruning here would
\* delete verifications that are expensive to rebuild by hand"
\* (orphan_prune.py:67) when a mount drops.
PruneSparesFiles ==
  [][PruneDeletes => \A p \in Worded : verdict'[p] = NoWord => content[p] = 0]_libraryVars
=============================================================================
