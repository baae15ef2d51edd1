------------------------------ MODULE MCCases ------------------------------
(* The decisions about single files, names and rows, asked one case after   *)
(* another: a behaviour puts a case, answers it and puts the next.          *)
EXTENDS CoverageRows, Review, Subtitles, ArenaScores, History, Gaps

VARIABLE case   \* the case under consideration

NoCase == [kind |-> None]
CasesInit == case = NoCase
Fresh == case.kind = None
Answered == case.kind # None /\ case' = NoCase

Tag(l, t) == [lang |-> l, three |-> t]
Tags == {NoTag, Tag("ja", TRUE), Tag("ja", FALSE), Tag("en", TRUE), Tag("fr", TRUE)}
Tracks == [tag : Tags, default : BOOLEAN, title : {None}]
AudioOfFile == UNION {[1..n -> Tracks] : n \in 1..2}

----------------------------------------------------------------------------
(* The default track. *)

AskSwap ==
  /\ Fresh
  /\ \E audio \in UNION {[1..n -> Tracks] : n \in 1..3}, original \in {"ja", "fr", "en"} :
       case' = [kind |-> "swap", audio |-> audio, original |-> original]

\* Exchanging the default flag cures what was reported: afterwards the original
\* language plays first, and the row would not be offered again.
SwapCures ==
  case.kind = "swap" =>
    LET target == Mismatch(case.audio, case.original)
        after == Swapped(case.audio, target)
    IN target # 0 => Mismatch(after, case.original) = 0

----------------------------------------------------------------------------
(* The gate of a row and the job that is sent for it. *)

CapsOf(skipKnown, skip, preferred, force) ==
  [known |-> TRUE, bypass |-> TRUE, skipKnown |-> skipKnown, skip |-> skip, mode |-> "translate",
   name |-> "en", perRequest |-> TRUE, readable |-> TRUE, preferred |-> preferred, force |-> force]
SkipSettings == {<<FALSE, {}>>, <<TRUE, {}>>, <<TRUE, {"en"}>>}
Heard(class, lang, codes, sure) ==
  [class |-> class, lang |-> lang, codes |-> codes, source |-> TRUE, sure |-> sure]
Verdicts == {NoVerdict, Heard("single", "ja", {"ja"}, TRUE), Heard("single", "en", {"en"}, TRUE),
             Heard("single", "fr", {"fr"}, FALSE), Heard("multi", "en", {"en", "ja"}, TRUE)}

AskTask ==
  /\ Fresh
  /\ \E audio \in AudioOfFile, verdict \in Verdicts, skip \in SkipSettings,
        preferred \in {<<>>, <<"fr">>, <<None, "ja">>}, force \in {None, "fr"},
        wanted \in {{"en"}, {"en", "ja"}}, missing \in {{"en"}, {"ja"}} :
       case' = [kind |-> "task", audio |-> audio, verdict |-> verdict, wanted |-> wanted,
                missing |-> missing, caps |-> CapsOf(skip[1], skip[2], preferred, force)]

\* A row is kept out of the queue for its language exactly when the job that
\* would be sent for its file writes none of the languages the row waits for:
\* the gate and the dispatch are computed in different modules.
GateMatchesDispatch ==
  case.kind = "task" =>
    LET file == [audio |-> case.audio, probed |-> TRUE]
        decision == Submission(case.verdict, case.verdict, TRUE, case.audio,
                               [inside |-> TRUE, sidecars |-> {}], case.caps)
        sent == Dispatch([task |-> None], decision, <<file>>, 500, case.caps, TRUE, case.wanted)
        source == SourceLanguage(case.audio, decision.override, case.caps)
    IN sent.task[1] # None =>
         (Gated(file, case.verdict, case.caps, TRUE, case.wanted, case.missing)
            <=> case.missing \cap TaskOutput(sent.task[1], source) = {})

AskFolder ==
  /\ Fresh
  /\ \E one, two \in UNION {[1..n -> Tracks] : n \in 0..1}, override \in {None, "ja"},
        preferred \in {<<>>, <<"fr">>}, wanted \in {{"en"}, {"ja"}, {"en", "ja"}}, on, probed \in BOOLEAN :
       case' = [kind |-> "folder", wanted |-> wanted, on |-> on, override |-> override,
                files |-> <<[audio |-> one, probed |-> TRUE], [audio |-> two, probed |-> probed]>>,
                caps |-> CapsOf(TRUE, {}, preferred, None)]

\* A folder that is sent as one path is sent with the task each of its files
\* would be sent with alone: no file is translated because its neighbour is.
FolderTasksFit ==
  case.kind = "folder" =>
    LET job == [task |-> None]
        decision == [override |-> case.override, bypass |-> FALSE]
        sent == Dispatch(job, decision, case.files, 500, case.caps, case.on, case.wanted)
    IN \A f \in DOMAIN case.files :
         /\ sent.task[f] = Dispatch(job, decision, <<case.files[f]>>, 500, case.caps, case.on,
                                    case.wanted).task[1]
         /\ sent.whole => sent.task[f] = sent.task[1]

AskSkipped ==
  /\ Fresh
  /\ \E audio \in AudioOfFile, verdict \in Verdicts \cup {Heard("single", "zxx", {"zxx"}, TRUE)},
        skip \in SkipSettings :
       case' = [kind |-> "skipped", audio |-> audio, verdict |-> verdict,
                caps |-> CapsOf(skip[1], skip[2], <<>>, None)]

\* explain_audio_language_skip promises "requeue it and subarr sends that
\* language" (submission_language.py:400). The job that is sent then carries it.
PromiseKept ==
  case.kind = "skipped" =>
    (ExplainSkip(case.verdict, TRUE, case.audio, case.caps) = "requeue: override"
       => Override(case.verdict, case.caps) # None)

----------------------------------------------------------------------------
(* Names of sidecars. *)

Stem == <<"Film">>
Marks == {"en", "ja", "hi", "xyz", "sdh", "alass", "forced", "long"}
AskName ==
  /\ Fresh
  /\ \E marks \in UNION {[1..n -> Marks] : n \in 0..3} :
       case' = [kind |-> "name", name |-> Stem \o marks]

\* A caption marker after the name of a sidecar never changes its language, and
\* "hi" after a language never turns it into Hindi.
CaptionsKeepLanguage ==
  case.kind = "name" =>
    /\ \A c \in CaptionSuffixes : NameLanguage(Append(case.name, c)) = NameLanguage(case.name)
    /\ Last(case.name) \in LanguageTokens \ {"hi"}
         => NameLanguage(Append(case.name, "hi")) = Last(case.name)

AskRename ==
  /\ Fresh
  /\ \E marks \in UNION {[1..n -> {"en", "forced", "sdh", "tpyo"}] : n \in 0..2},
        head \in {"Film", "film"}, alike \in BOOLEAN :
       case' = [kind |-> "rename", name |-> <<head>> \o marks, alike |-> alike]

\* A suggested name keeps the language of the old one: "suggest renaming the
\* .srt to match the video's stem while preserving the .en.srt language tag"
\* (sidecar_scanner.py:210).
RenameKeepsLanguage ==
  case.kind = "rename" =>
    LET s == Suggested(case.name, <<Stem>>, 85, case.alike)
    IN s.kind = "loose" /\ Last(case.name) # "tpyo" => NameLanguage(s.to) = NameLanguage(case.name)

----------------------------------------------------------------------------
(* Rows. *)

Sidecar(marks) == [name |-> Stem \o marks, shown |-> 1, paired |-> TRUE]
Names == {<<>>, <<"en">>, <<"en", "forced">>, <<"ja">>}
AskCovered ==
  /\ Fresh
  /\ \E names \in SUBSET Names, place \in {"episode", "movie", "blind episode", "blind movie"},
        wanted \in {{"en"}, {"ja"}}, answered \in BOOLEAN :
       case' = [kind |-> "covered", place |-> place, wanted |-> wanted, answered |-> answered,
                sidecars |-> {Sidecar(n) : n \in names}]

\* The row of the case is kept back, or missing, because of a sidecar.
HeldBack(c) ==
  CASE c.place = "episode" ->
         EpisodeCovered([known |-> TRUE, file |-> "f", number |-> 1, wanted |-> c.wanted], c.answered,
                        c.sidecars, Stem).hit
    [] c.place = "movie" -> MovieCovered([readable |-> TRUE, srts |-> c.sidecars]).hit
    [] c.place = "blind episode" ->
         BlindEpisodes({[id |-> 1, hasFile |-> TRUE, file |-> "f", stem |-> Stem]}, {}, c.sidecars,
                       [i \in {1} |-> TRUE], [i \in {1} |-> FALSE]) = {}
    [] c.place = "blind movie" ->
         BlindMovies({[id |-> 1, hasFile |-> TRUE, file |-> "f", stem |-> Stem, probed |-> TRUE,
                       embedded |-> None, sidecars |-> c.sidecars]}, {}) = {}
    [] OTHER -> FALSE

\* "A FORCED sidecar is not full coverage" (coverage_engine.py:706): what keeps
\* a row back is more than forced subtitles.
ForcedIsNotCoverage ==
  case.kind = "covered" /\ HeldBack(case) => \E s \in case.sidecars : ~Contains(s.name, "forced")

\* A wanted episode whose file is known is called covered only by a full
\* subtitle in a language it waits for.
CoveredByWanted ==
  case.kind = "covered" /\ case.place = "episode" /\ case.answered /\ HeldBack(case)
    => \E s \in case.sidecars : ~Contains(s.name, "forced") /\ NameLanguage(s.name) \in case.wanted

FileWith(audio) ==
  [path |-> "f", folder |-> "d", season |-> "s", original |-> "ja", audio |-> audio]
AskLabel ==
  /\ Fresh
  /\ \E audio \in AudioOfFile, own \in {"none", "user", "machine", "machine multi"},
        intents \in SUBSET {"d", "s"}, playing, plex \in {None, "en"} :
       case' = [kind |-> "label", file |-> FileWith(audio), playing |-> playing, plex |-> plex,
                intents |-> {[series |-> i, lang |-> IF i = "d" THEN "fr" ELSE "de"] : i \in intents},
                verdicts |-> [p \in IF own = "none" THEN {} ELSE {"f"} |->
                               [by |-> IF own = "user" THEN "user" ELSE "machine", lang |-> "ja",
                                codes |-> IF own = "machine multi" THEN {"ja", "en"} ELSE {"ja"}]]]

LabelOfCase == LabelOf(case.file, case.verdicts, case.intents, case.playing, case.plex)

\* What a user verified about a file stands in its row against the tags, the
\* players and the declarations for its series, and clears the doubts.
UserVerdictWins ==
  case.kind = "label" /\ DOMAIN case.verdicts # {} /\ (case.verdicts["f"].by = "user")
    => /\ LabelOfCase.langs = {"ja"}
       /\ LabelOfCase.source = "user"
       /\ ~LabelOfCase.suspect /\ ~LabelOfCase.unknown

\* "Per-file rows always win" over the declaration for a series
\* (coverage_engine.py:1414): the row of a file the machine listened to shows
\* what was heard.
PerFileRowsWin ==
  case.kind = "label" /\ DOMAIN case.verdicts # {} => "ja" \in LabelOfCase.langs

Instances == {"", "a"}
AskRouting ==
  /\ Fresh
  /\ \E one, two \in [bazarr : {"", "b"}, arr : {"", "a", "gone"}], n \in 1..2 :
       case' = [kind |-> "routing", libraries |-> SubSeq(<<one, two>>, 1, n)]

\* Every wanted title is looked after by one instance and no more, whatever
\* the libraries name.
WantedOnce ==
  case.kind = "routing" =>
    \A w \in [bazarr : {"", "b", "other"}] :
      Cardinality({i \in Instances : w \in Routed({w}, Routing(case.libraries), Instances, i)}) = 1

AskBlind ==
  /\ Fresh
  /\ \E files \in [1..3 -> {"f", "g", None}], wanted \in SUBSET (1..3), suspect \in [1..3 -> BOOLEAN] :
       case' = [kind |-> "blind", files |-> files, wanted |-> wanted, suspect |-> suspect]

\* The rows for what Bazarr does not see add no second row for a file, not for
\* a double episode either.
BlindRowsAreNew ==
  case.kind = "blind" =>
    LET episode(i) == [id |-> i, hasFile |-> TRUE, file |-> case.files[i], stem |-> Stem]
        rows == {episode(i) : i \in case.wanted}
        blind == BlindEpisodes({episode(i) : i \in 1..3}, rows, {}, case.suspect,
                               [i \in 1..3 |-> FALSE])
    IN /\ \A b \in blind, r \in rows : b.file # r.file
       /\ \A b, c \in blind : b.file = c.file => b = c

----------------------------------------------------------------------------
(* The review list and the relink. *)

ReviewRow(n, arr, title) ==
  [file |-> n, order |-> n, folder |-> IF title = 1 THEN "d" ELSE NoFile, library |-> "l",
   media |-> IF arr = 3 THEN "movie" ELSE "episode", title |-> title, flag |-> "unknown",
   arr |-> arr]
AskReview ==
  /\ Fresh
  /\ \E n \in 2..4, limit \in 1..2 : \E arr \in [1..n -> 0..3], title \in [1..n -> 1..2] :
       case' = [kind |-> "review", limit |-> limit,
                rows |-> SortedRows([i \in 1..n |-> ReviewRow(i, arr[i], title[i])])]

\* The pages of the review list show every file once, with all the files of
\* its series, and end where has_more says that they end.
ReviewPagesShowAll ==
  case.kind = "review" =>
    LET page(i) == GroupPage(case.rows, case.limit, i * case.limit)
        pages == 0..(page(0).pages - 1)
        shown == UNION {{[page |-> i, place |-> n, row |-> page(i).items[n]] :
                           n \in DOMAIN page(i).items} : i \in pages}
    IN /\ {s.row : s \in shown} = ToSet(case.rows) /\ Cardinality(shown) = Len(case.rows)
       /\ \A i \in pages : page(i).more <=> i + 1 \in pages
       /\ \A s, t \in shown : s.page # t.page =>
            (s.row.folder = "d" /\ t.row.folder = "d" /\ s.row.arr = t.row.arr /\ s.row.arr # NoArr
               => s.row.media # t.row.media)

InLibrary(head, name) == [library |-> "", segs |-> <<head, "tv", "S", name>>]
Under(head, names) == {InLibrary(head, n) : n \in names}

\* Some rows have a verdict, some only a probe; a size is known from a probe.
AskRelink ==
  /\ Fresh
  /\ \E old \in SUBSET Under("old", {"e1", "e2", "e3", "e4"}),
        older \in {{}, Under("older", {"e1"}), Under("older", {"e1", "e2", "e3"})},
        unheard \in SUBSET {InLibrary("old", "e4"), InLibrary("older", "e1")},
        unsized \in {{}, Under("old", {"e1"}), Under("old", {"e4"}), Under("old", {"e1", "e2", "e3", "e4"})},
        size \in [{"e1", "e4"} -> {1, 2}], twice \in BOOLEAN,
        worded \in SUBSET Under("new", {"e1"}), listened \in SUBSET Under("new", {"e1", "e4"}) :
       LET stale == old \cup older
       IN case' = [kind |-> "relink", stale |-> stale,
                   verified |-> (stale \ unheard) \cup worded,
                   probed |-> (stale \ (unsized \ unheard)) \cup listened,
                   sizes |-> [s \in stale |-> IF s \in unsized THEN NoSize ELSE 1],
                   inventory |-> {[path |-> InLibrary("new", n),
                                   size |-> IF n \in DOMAIN size THEN size[n] ELSE 1] :
                                    n \in {"e1", "e2", "e3", "e4"}}
                                 \cup (IF twice THEN {[path |-> InLibrary("copy", "e1"), size |-> 1]} ELSE {})]

\* The rules that are offered together give each file to one row at most and
\* move no row to a file of another size; a row with a verdict keeps off the
\* files that have one, and a row with only a probe off the files with a probe.
RelinkOneToOne ==
  case.kind = "relink" =>
    LET offered == Rules(case.stale, case.sizes, case.verified, case.probed, case.inventory, {})
        pairs == UNION {r.pairs : r \in offered}
    IN \A p \in pairs :
         /\ \A q \in pairs : p.new = q.new => p = q
         /\ p.old \in case.verified => p.new \notin case.verified
         /\ p.old \notin case.verified => p.old \in case.probed /\ p.new \notin case.probed
         /\ \E f \in case.inventory : f.path = p.new /\ case.sizes[p.old] \in {NoSize, f.size}

----------------------------------------------------------------------------
(* The history of the queue page, and the ids of a file. *)

Base(path) == IF path = "p" THEN "b" ELSE "c"
AskHistory ==
  /\ Fresh
  /\ \E n \in 1..3, live \in SUBSET {"b"}, waits \in 0..3 :
     \E paths \in [1..n -> {"p", "q"}], status \in [1..n -> {"ok", "error", "skipped"}] :
     \E at \in {f \in [1..n -> 1..n] : IsInjective(f)} :
       case' = [kind |-> "history", live |-> live,
                waiting |-> IF waits = 0 THEN <<>> ELSE "p" :> waits,
                attempts |-> [i \in 1..n |->
                  [path |-> paths[i], base |-> Base(paths[i]), status |-> status[i], at |-> at[i],
                   cancelled |-> FALSE, explained |-> "none",
                   file |-> [inside |-> FALSE]]]]

\* The history folds failures away and loses none: a failure is shown only when
\* nothing has happened to its file since, and beside the newest attempt of a
\* file that is at rest each other one has a row of its own or is counted.
HistoryIsWhole ==
  case.kind = "history" =>
    LET view == HistoryView(case.attempts, case.live, case.waiting, {}, {})
        rows(p) == {n \in DOMAIN view : view[n].attempt.path = p}
        all(p) == {i \in DOMAIN case.attempts : case.attempts[i].path = p}
        counted(p) == SumOf([n \in rows(p) |-> view[n].retries])
    IN /\ \A n \in DOMAIN view : \A i \in all(view[n].attempt.path) :
            view[n].attempt.status \in Superseded => case.attempts[i].at <= view[n].attempt.at
       /\ \A p \in {"p", "q"} :
            Base(p) \notin case.live /\ p \notin DOMAIN case.waiting
              => Cardinality(rows(p)) + counted(p) = Cardinality(all(p))

\* The pages account for everything there is: the pages of the review list for
\* every row, the history for every attempt.
PagesShowAll == ReviewPagesShowAll /\ HistoryIsWhole

FileOne == <<"tv", "S", "1">>
FileTwo == <<"tv", "S", "X", "2">>
AskIds ==
  /\ Fresh
  /\ \E serie, file \in [1..3 -> 0..2], number \in [1..3 -> 1..2], path \in {FileOne, FileTwo} :
       case' = [kind |-> "ids", path |-> path,
                sonarr |-> [configured |-> TRUE, up |-> TRUE,
                            series |-> {[id |-> 1, path |-> <<"tv", "S">>],
                                        [id |-> 2, path |-> <<"tv", "S", "X">>]},
                            files |-> {[id |-> 1, path |-> FileOne], [id |-> 2, path |-> FileTwo]},
                            episodes |-> {[id |-> i, series |-> serie[i], fileId |-> file[i],
                                           number |-> number[i]] : i \in 1..3}]]

\* The id a completed file is reported with names that file: an episode found
\* for a path is resolved back to the path, and to the series it was found in.
IdsNameTheirFile ==
  case.kind = "ids" =>
    LET off == [configured |-> FALSE, up |-> FALSE]
    IN \A id \in ResolvedIds(case.path, case.sonarr, off) :
         EpisodeTarget([main |-> case.sonarr], "main", NoOne, id.id)
           = [path |-> case.path, series |-> id.series]

----------------------------------------------------------------------------
(* Timing, and the ranking of recipes. *)

Cue(from, lasts, chars) == [from |-> from, to |-> from + lasts, chars |-> chars]
\* where each cue begins: where the one before ends, and a gap later
Begins(lasts, gap) ==
  LET begin[i \in DOMAIN lasts] ==
        IF i = 1 THEN 0 ELSE begin[i - 1] + lasts[i - 1] + gap[i - 1]
  IN begin
AskTiming ==
  /\ Fresh
  /\ \E n \in 1..3 :
     \E lasts \in [1..n -> {300, 600, 1200}], gap \in [1..n -> {0, 300}], chars \in [1..n -> {8, 20, 35}] :
       case' = [kind |-> "timing",
                cues |-> [i \in 1..n |-> Cue(Begins(lasts, gap)[i], lasts[i], chars[i])]]

\* Retiming makes no cue unreadable to help another: cues keep their order and
\* do not come to overlap, none moves forward, and one that could be read still can.
RetimeKeepsCues ==
  case.kind = "timing" =>
    LET cues == case.cues
        after == Retimed(cues)
    IN /\ \A i \in DOMAIN cues :
            /\ after[i].from >= cues[i].from /\ after[i].to >= cues[i].to
            /\ Faster(after[i], CriticalCps) => Faster(cues[i], CriticalCps)
       /\ \A i \in 1..(Len(cues) - 1) : after[i].to <= after[i + 1].from

\* "Idempotent" (subtitle_retime.py:6): subtitles that are retimed again stay as
\* they are.
RetimeSettles ==
  case.kind = "timing" => Retimed(Retimed(case.cues)) = Retimed(case.cues)

Recipes == {"k", "l"}
Tried == Recipes \X {"ja", "fr"}
\* k is a hundredth better than l, or where only one of them is high, much better
\* or much worse; the odd means are those that rounding brings together
AskRanks ==
  /\ Fresh
  /\ \E high, often \in SUBSET Tried :
     LET mean(c) == (IF c[1] = "k" THEN 268 ELSE 267) + (IF c[2] = "fr" THEN 1 ELSE 0)
                    + (IF c \in high THEN 6000 ELSE 0)
     IN case' = [kind |-> "ranks",
                 sweeps |-> {[path |-> x, language |-> x[1][2], winner |-> x[1][1], tie |-> FALSE,
                              means |-> [l \in {x[1][1], "base"} |-> IF l = "base" THEN 10 ELSE mean(x[1])]] :
                               x \in {y \in Tried \X (1..3) : y[2] = 1 \/ y[1] \in often}}]

\* In every language k's mean is better than l's by so many hundredths.
AheadBy(n, sweeps, k, l) ==
  \A g \in {"ja", "fr"} : ByLanguage(sweeps, g)[k].mean >= ByLanguage(sweeps, g)[l].mean + n

\* A recipe that is better in every language is not ranked behind, however many
\* files of which language either was tried on: it is ranked before, unless the
\* two are a hundredth apart, rounding makes their overall means the same, and the
\* other has won more files or as many.
RanksFollowLanguages ==
  case.kind = "ranks" =>
    LET labels == Recipes \cup {"base"}
        before(k, l) == RankOf(case.sweeps, labels, k, 2) < RankOf(case.sweeps, labels, l, 2)
        row(l) == Overall(case.sweeps, l, 2)
    IN \A k, l \in Recipes :
         /\ AheadBy(1, case.sweeps, k, l) =>
              before(k, l) \/ (row(k).mean = row(l).mean /\ row(k).wins <= row(l).wins)
         /\ AheadBy(2, case.sweeps, k, l) => before(k, l)

----------------------------------------------------------------------------
\* What is done to a file fits it: a row is kept out of the queue exactly when
\* its job would not write what it waits for, a folder's files are sent as each
\* would be alone, and a swap of tracks cures what was reported.
RemediesFit == GateMatchesDispatch /\ FolderTasksFit /\ SwapCures

\* What the report says of a file fits what is known of it: covered only by a
\* subtitle it waits for, the language a user verified, no file twice, each
\* title at one instance, and the language of a sidecar whatever its markers.
RowsFit ==
  CoveredByWanted /\ UserVerdictWins /\ BlindRowsAreNew /\ WantedOnce /\ CaptionsKeepLanguage

\* Files are told apart: what is known of a moved file goes to that file, and
\* the id a completed file is reported with is its own.
FilesAreMatched == RelinkOneToOne /\ IdsNameTheirFile

CasesNext ==
  \/ AskSwap \/ AskTask \/ AskFolder \/ AskSkipped \/ AskName \/ AskRename
  \/ AskCovered \/ AskLabel \/ AskRouting \/ AskBlind \/ AskReview \/ AskRelink
  \/ AskHistory \/ AskIds \/ AskTiming \/ AskRanks
  \/ Answered

CasesSpec == CasesInit /\ [][CasesNext]_case
=============================================================================
