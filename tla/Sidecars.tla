------------------------------ MODULE Sidecars ------------------------------
(* Subtitle files beside videos: which of them belong to an episode, which  *)
(* language their names say, whether they cover what is wanted              *)
(* (coverage_engine.py, paths.py), and the names that do not fit any video  *)
(* with their renaming (sidecar_scanner.py, routers/sidecar.py).            *)
(*                                                                          *)
(* A name is the sequence of its tokens between dots and hyphens, without   *)
(* the extension. The stem of a video is such a sequence too.               *)
EXTENDS Integers, Sequences, FiniteSets, SequencesExt

Unmarked == "none"
GreatestOf(S) == CHOOSE i \in S : \A j \in S : j <= i
TailTokens(name, stem) == SubSeq(name, Len(stem) + 1, Len(name))

----------------------------------------------------------------------------
(* The language a name says. *)

\* _KNOWN_TOOLS, _KNOWN_NON_LANG and _CAPTION_SUFFIXES: no language
CaptionSuffixes == {"sdh", "cc"}
SkipTokens == CaptionSuffixes \cup {"web", "alass"}
\* _shaped_lang_token: two or three letters
ShapedTokens == {"en", "ja", "fr", "hi", "xyz"} \cup (SkipTokens \ {"alass"})
\* _is_known_language_token
LanguageTokens == {"en", "ja", "fr", "hi"}

\* _trailing_suffix_cluster: the positions of the suffix tokens at the end
SuffixCluster(name) ==
  {i \in DOMAIN name : \A j \in i..Len(name) : name[j] \in SkipTokens \cup ShapedTokens}

\* Mutant: a caption suffix of three letters passes for a language.
LanguageInClusterCaptions(name, cluster) ==
  LET named == {i \in cluster : name[i] \in ShapedTokens \ (SkipTokens \ CaptionSuffixes)}
  IN IF named = {} THEN Unmarked ELSE name[GreatestOf(named)]

\* _lang_in_cluster: the last language, where "hi" after another language of
\* the cluster marks subtitles for the hearing impaired.
LanguageInCluster(name, cluster) ==
  LET marker(i) == /\ name[i] = "hi"
                   /\ \E j \in cluster : j < i /\ name[j] \in LanguageTokens \ {"hi"}
      named == {i \in cluster : name[i] \in ShapedTokens \ SkipTokens /\ ~marker(i)}
  IN IF named = {} THEN Unmarked ELSE name[GreatestOf(named)]

\* _lang_scanning_past_unknown
LanguageAnywhere(name) ==
  LET named == {i \in DOMAIN name : name[i] \in ShapedTokens \ SkipTokens}
  IN IF named = {} THEN Unmarked ELSE name[GreatestOf(named)]

\* _sidecar_lang_token and _lang_token_from_srt_name
NameLanguage(name) ==
  LET near == LanguageInCluster(name, SuffixCluster(name))
      far == LanguageAnywhere(name)
  IN CASE near # Unmarked -> near
       [] near = Unmarked /\ far # Unmarked -> far
       [] OTHER -> "und"

\* _langs_in_sidecars: a forced subtitle is no coverage
LanguagesOf(names) == {NameLanguage(n) : n \in {m \in names : ~Contains(m, "forced")}}

\* _is_en_sidecar_for
EnglishSidecar(name, stem) ==
  IsStrictPrefix(stem, name) /\ Contains(TailTokens(name, stem), "en")

----------------------------------------------------------------------------
(* The sidecars of an episode. A sidecar is its name and the episode number *)
(* its name shows, 0 for none.                                              *)

\* _match_episode_srt_pattern, _episode_filename_pattern: S01E10 is also found
\* in S01E100.
ShowsEpisode(shown, ep) == ep # 0 /\ (shown = ep \/ (ep >= 10 /\ shown \div 10 = ep))
PatternMatches(sidecars, ep) == {s \in sidecars : ShowsEpisode(s.shown, ep)}

\* _sidecars_for_file: the stem, followed by a dot or the extension
OfFile(sidecars, stem) == {s \in sidecars : IsPrefix(stem, s.name)}

\* _episode_image_pairs: .idx files that have their .sub
ImagePairs(images, known, stem, ep) ==
  LET whole == {s \in images : s.paired} IN
  IF known /\ stem # <<>> THEN OfFile(whole, stem) ELSE PatternMatches(whole, ep)

Uncovered == [hit |-> FALSE, seen |-> {}]

\* Mutant: any sidecar of the episode covers whatever is wanted.
StaleAnyLanguage(known, stem, sidecars, ep, wanted) ==
  LET mine == OfFile(sidecars, stem) \cup PatternMatches(sidecars, ep)
  IN [hit |-> mine # {}, seen |-> mine]

\* _stale_for_episode. `known` says that the row has an episode of Sonarr and
\* `stem` is that of its file, empty when Sonarr has none; without a file the
\* pattern decides, whatever the language.
StaleForEpisode(known, stem, sidecars, ep, wanted) ==
  LET guess == PatternMatches(sidecars, ep)
      own == OfFile(sidecars, stem)
      mine == IF own = {} THEN guess ELSE own
  IN CASE ~known \/ sidecars = {} ->
            IF wanted = {} /\ guess # {} THEN [hit |-> TRUE, seen |-> guess] ELSE Uncovered
       [] known /\ sidecars # {} /\ stem = <<>> -> [hit |-> guess # {}, seen |-> guess]
       [] OTHER ->
            [hit |-> mine # {} /\ (wanted = {} \/ wanted \cap LanguagesOf({s.name : s \in mine}) # {}),
             seen |-> mine]

\* _scan_sidecars_recursive: a folder that cannot be read is an empty one
ScannedTree(folder) ==
  IF folder.readable
  THEN [srts |-> folder.srts, images |-> {s \in folder.images : s.paired}]
  ELSE [srts |-> {}, images |-> {}]

\* _scan_for_srt, for a movie: any .srt in its folder
ScannedFolder(folder) ==
  IF folder.readable THEN [hit |-> folder.srts # {}, seen |-> folder.srts] ELSE Uncovered

\* image_sidecar_names and _scan_for_image_pairs
ScannedPairs(folder) ==
  IF folder.readable THEN {s \in folder.images : s.paired} ELSE {}

\* srt_sidecar_names: names that begin with the stem, at a dot or not
NamesFrom(folder, stem) ==
  IF folder.readable THEN {s.name : s \in {t \in folder.srts : IsPrefix(stem, t.name)}} ELSE {}

----------------------------------------------------------------------------
(* Names that fit no video. Stems are compared as they are, in lower case,  *)
(* or without their trailing tags.                                          *)

LowerCase(name) == [i \in DOMAIN name |-> IF name[i] = "Film" THEN "film" ELSE name[i]]
SuffixTags == {"en", "fr", "ja", "hi", "forced", "sdh", "cc"}

\* _LANG_SUFFIX_RE.sub: the expression takes one dot, and so one tag
WithoutTag(name) ==
  IF Len(name) > 1 /\ Last(name) \in SuffixTags THEN Front(name) ELSE name

\* _normalise_stem: repeated until nothing changes
Normalised(name) ==
  LET kept == {n \in 1..Len(name) : n = 1 \/ name[n] \notin SuffixTags}
  IN LowerCase(SubSeq(name, 1, GreatestOf(kept)))

\* _classify; the similarity of stems that differ is 90 of 100 when `alike`
SimilarityOf(video, name, alike) ==
  CASE video = name -> 100
    [] video # name /\ Normalised(video) = Normalised(name) -> 99
    [] OTHER -> IF alike THEN 90 ELSE 50

\* _classify_one: nothing for a name that is a video's stem with at most one
\* tag, else the best video above the threshold and the new name.
Suggested(name, videos, threshold, alike) ==
  LET bare == WithoutTag(name)
      score == [i \in DOMAIN videos |-> SimilarityOf(videos[i], bare, alike)]
      best == {i \in DOMAIN videos : \A j \in DOMAIN videos : score[j] <= score[i]}
      first == CHOOSE i \in best : \A j \in best : i <= j
  IN CASE bare \in Range(videos) -> [kind |-> "exact", to |-> name]
       [] bare \notin Range(videos) /\ (videos = <<>> \/ score[first] < threshold)
            -> [kind |-> "orphan", to |-> name]
       [] OTHER -> [kind |-> "loose", to |-> videos[first] \o TailTokens(name, bare)]

\* sidecar_rename and apply_rename: only in the same folder, never onto a file
\* that is there.
Renamed(folder, from, to) ==
  IF from \in folder /\ to \notin folder THEN (folder \ {from}) \cup {to} ELSE folder

\* scan: one verdict per .srt that is no link and not too deep
ScanNames(names, videos, threshold, alike) ==
  [n \in names |-> Suggested(n, videos, threshold, alike)]
=============================================================================
