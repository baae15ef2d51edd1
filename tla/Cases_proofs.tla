---------------------------- MODULE Cases_proofs ----------------------------
(* Theorems about the decisions of MCCases, for any file, row, library and   *)
(* subtitle: first for every input, then for the cases that are put.         *)
EXTENDS MCCases, FiniteSetTheorems, WellFoundedInduction, TLAPS

\* Places have a least one.
LEMMA LeastPlace ==
  ASSUME NEW S \in SUBSET Nat, S # {}
  PROVE  LeastOf(S) \in S /\ \A j \in S : LeastOf(S) <= j
<1> DEFINE R == OpToRel(<, Nat)
<1>1. IsWellFoundedOn(R, Nat)
  BY NatLessThanWellFounded
<1>2. \A x, y \in Nat : <<y, x>> \in R <=> y < x
  BY DEF OpToRel
<1> HIDE DEF R
<1>3. \E x \in S : \A y \in S : ~(<<y, x>> \in R)
  BY <1>1, WFMin
<1>4. ASSUME NEW x \in S, NEW y \in S, ~(<<y, x>> \in R)
      PROVE  x <= y
  <2>1. x \in Nat /\ y \in Nat
    OBVIOUS
  <2>2. ~(y < x)
    BY <1>2, <1>4, <2>1
  <2>3. QED
    BY <2>1, <2>2
<1>5. \E x \in S : \A y \in S : x <= y
  BY <1>3, <1>4
<1>6. QED
  BY <1>5 DEF LeastOf

\* The places of a sequence have a greatest one.
LEMMA GreatestPlace ==
  ASSUME NEW n \in Nat, NEW S \in SUBSET (1..n), S # {}
  PROVE  GreatestOf(S) \in S /\ \A j \in S : j <= GreatestOf(S)
<1> DEFINE left == {n - i : i \in S}
<1>1. left \in SUBSET Nat /\ left # {}
  <2>1. \A i \in S : n - i \in Nat
    OBVIOUS
  <2>2. QED
    BY <2>1
<1> DEFINE k == LeastOf(left)
<1>2. k \in left /\ \A j \in left : k <= j
  BY <1>1, LeastPlace
<1> HIDE DEF k
<1>3. PICK i \in S : k = n - i
  BY <1>2
<1>4. ASSUME NEW j \in S
      PROVE  j <= i
  <2>1. n - j \in left /\ i \in Nat /\ j \in Nat
    OBVIOUS
  <2>2. n - i <= n - j
    BY <1>2, <1>3, <2>1
  <2>3. QED
    BY <2>1, <2>2
<1>5. \E g \in S : \A j \in S : j <= g
  BY <1>4
<1>6. QED
  BY <1>5 DEF GreatestOf

\* A sequence of one file.
LEMMA OneFile ==
  ASSUME NEW x
  PROVE  DOMAIN <<x>> = {1} /\ Cardinality(DOMAIN <<x>>) = 1 /\ <<x>> # <<>> /\ <<x>>[1] = x
<1>1. DOMAIN <<x>> = 1..1 /\ <<x>> # <<>> /\ <<x>>[1] = x
  OBVIOUS
<1>2. 1..1 = {1}
  OBVIOUS
<1>3. Cardinality({1}) = 1
  BY FS_Singleton
<1>4. QED
  BY <1>1, <1>2, <1>3

----------------------------------------------------------------------------
(* The default track. *)

\* The audio tracks of some file: as many as there are, with tags and titles of any kind.
TrackList(audio) ==
  \E n \in Nat : \E T, U : audio \in [1..n -> [tag : T, default : BOOLEAN, title : U]]

\* The swap of track_swap.py cures what detect_default_track_mismatch reports,
\* for every list of tracks and every original language: afterwards nothing
\* more is reported.
THEOREM SwapCuresAnyFile ==
  ASSUME NEW audio, TrackList(audio), NEW original, Mismatch(audio, original) # 0
  PROVE  Mismatch(Swapped(audio, Mismatch(audio, original)), original) = 0
<1> DEFINE target == Mismatch(audio, original)
           native == {i \in DOMAIN audio : Norm(audio[i].tag) = original}
           after == Swapped(audio, target)
           marked == {i \in DOMAIN after : after[i].default}
<1> PICK n \in Nat : \E T, U : audio \in [1..n -> [tag : T, default : BOOLEAN, title : U]]
  BY DEF TrackList
<1>0. PICK T, U : audio \in [1..n -> [tag : T, default : BOOLEAN, title : U]]
  OBVIOUS
<1>1. target = LeastOf(native) /\ native # {}
  BY DEF Mismatch
<1>2. target \in 1..n /\ Norm(audio[target].tag) = original
  <2>1. native \in SUBSET Nat
    BY <1>0
  <2>2. LeastOf(native) \in native
    BY <1>1, <2>1, LeastPlace
  <2>3. QED
    BY <1>0, <1>1, <2>2
<1>3. /\ DOMAIN after = 1..n
      /\ \A i \in 1..n : after[i].tag = audio[i].tag /\ after[i].default = (i = target)
  <2> HIDE DEF target
  <2>1. QED
    BY <1>0 DEF Swapped
<1> HIDE DEF target, after
<1>4. marked = {target} /\ marked # {}
  BY <1>2, <1>3
<1>5. LeastOf(marked) = target
  <2>1. LeastOf({target}) = target
    BY <1>2 DEF LeastOf
  <2>2. QED
    BY <1>4, <2>1
<1>6. Norm(after[target].tag) = original
  BY <1>2, <1>3
<1>7. QED
  BY <1>4, <1>5, <1>6 DEF Mismatch, target, after

----------------------------------------------------------------------------
(* The gate of a row and the job that is sent for it. *)

\* A row waits for something, and what is wanted are languages.
Awaited(wanted, missing) ==
  missing # {} /\ None \notin missing /\ "?" \notin wanted

\* The row is kept out exactly when the job that is sent for the file, if one is
\* sent, writes none of what the row waits for.
GateFits(file, verdict, disk, caps, enabled, wanted, missing, cap) ==
  LET decision == Submission(verdict, verdict, TRUE, file.audio, disk, caps)
      sent == Dispatch([task |-> None], decision, <<file>>, cap, caps, enabled, wanted)
      source == SourceLanguage(file.audio, decision.override, caps)
  IN sent.task[1] # None =>
       (Gated(file, verdict, caps, enabled, wanted, missing)
          <=> missing \cap TaskOutput(sent.task[1], source) = {})

\* The gate that _score puts on a row agrees with the job that plan_job_dispatch
\* sends, for every file whose tracks are known, verdict, capability and setting,
\* as long as the row waits for some language.
THEOREM GateMatchesDispatchAnyFile ==
  ASSUME NEW file, file.probed = TRUE, NEW verdict, NEW disk, NEW caps, NEW enabled, NEW wanted,
         NEW missing, Awaited(wanted, missing), NEW cap \in Nat \ {0}
  PROVE  GateFits(file, verdict, disk, caps, enabled, wanted, missing, cap)
<1> DEFINE decision == Submission(verdict, verdict, TRUE, file.audio, disk, caps)
           sent == Dispatch([task |-> None], decision, <<file>>, cap, caps, enabled, wanted)
           source == SourceLanguage(file.audio, Override(verdict, caps), caps)
           asked == FileTask(TRUE, file.audio, Override(verdict, caps), caps, enabled, wanted)
<1> missing # {} /\ None \notin missing /\ "?" \notin wanted
  BY DEF Awaited
<1>1. decision.override = Override(verdict, caps)
  BY DEF Submission
<1> SUFFICES ASSUME sent.task[1] # None
             PROVE  Gated(file, verdict, caps, enabled, wanted, missing)
                      <=> missing \cap TaskOutput(sent.task[1], source) = {}
  <2> HIDE DEF decision, sent
  <2>1. QED
    BY <1>1 DEF GateFits, decision, sent
<1> HIDE DEF decision
<1>2. Cardinality(DOMAIN <<file>>) = 1 /\ DOMAIN <<file>> = {1} /\ <<file>> # <<>> /\ <<file>>[1] = file
  BY OneFile
<1>3. sent.task[1] = None \/ sent.task[1] = asked
  BY <1>1, <1>2 DEF Dispatch
<1>5. asked # None /\ sent.task[1] = asked
  BY <1>3
<1> HIDE DEF sent, source
<1>6. /\ TasksActive(caps, enabled, wanted) /\ file.audio # <<>>
      /\ asked = Task(source, NormalWanted(wanted))
  BY <1>5 DEF FileTask, source
<1>7. TaskOutput(asked, source) # Unknown
  <2>1. asked = "translate" \/ (asked = "transcribe" /\ source \in wanted)
    BY <1>5, <1>6 DEF Task, NormalWanted, Spoken
  <2>2. QED
    BY <2>1 DEF TaskOutput, Unknown
<1>8. Gated(file, verdict, caps, enabled, wanted, missing)
        <=> missing \cap TaskOutput(asked, source) = {}
  BY <1>5, <1>6, <1>7 DEF Gated, NormalWanted, source
<1>9. QED
  BY <1>1, <1>5, <1>8 DEF decision, sent, source

\* Each file of the folder is sent with the task it would be sent with alone,
\* and a path that stands for the folder with the task of all its files.
FolderFits(decision, files, cap, caps, enabled, wanted) ==
  LET job == [task |-> None]
      sent == Dispatch(job, decision, files, cap, caps, enabled, wanted)
  IN \A f \in DOMAIN files :
       /\ sent.task[f] = Dispatch(job, decision, <<files[f]>>, cap, caps, enabled, wanted).task[1]
       /\ \A g \in DOMAIN files : sent.whole => sent.task[f] = sent.task[g]

\* plan_job_dispatch sends a folder as one path only with the task each of its
\* files would have alone, for every folder it looks through to the end.
THEOREM FolderTasksFitAnyFolder ==
  ASSUME NEW decision, NEW caps, NEW enabled, NEW wanted, NEW files, \E F : files \in Seq(F),
         NEW cap \in Nat \ {0}, Len(files) <= cap
  PROVE  FolderFits(decision, files, cap, caps, enabled, wanted)
<1>0. PICK F : files \in Seq(F)
  OBVIOUS
<1> SUFFICES ASSUME NEW f \in DOMAIN files
             PROVE  LET job == [task |-> None]
                        sent == Dispatch(job, decision, files, cap, caps, enabled, wanted)
                    IN /\ sent.task[f] = Dispatch(job, decision, <<files[f]>>, cap, caps, enabled,
                                                  wanted).task[1]
                       /\ \A g \in DOMAIN files : sent.whole => sent.task[f] = sent.task[g]
  BY DEF FolderFits
<1> DEFINE ask(g) == FileTask(files[g].probed, files[g].audio, decision.override, caps, enabled, wanted)
           job == [task |-> None]
           sent == Dispatch(job, decision, files, cap, caps, enabled, wanted)
           alone == Dispatch(job, decision, <<files[f]>>, cap, caps, enabled, wanted)
           asked == {ask(g) : g \in DOMAIN files}
<1>1. /\ DOMAIN files = 1..Len(files) /\ Len(files) \in Nat /\ files # <<>>
      /\ Cardinality(DOMAIN files) = Len(files)
  BY <1>0, FS_Interval
<1>2. Cardinality(DOMAIN <<files[f]>>) = 1 /\ DOMAIN <<files[f]>> = {1}
      /\ <<files[f]>> # <<>> /\ <<files[f]>>[1] = files[f]
  BY OneFile
<1>3. CASE ~TasksActive(caps, enabled, wanted)
  <2>1. sent = [whole |-> TRUE, task |-> [g \in DOMAIN files |-> None]]
    BY <1>3 DEF Dispatch
  <2>2. alone = [whole |-> TRUE, task |-> [g \in DOMAIN <<files[f]>> |-> None]]
    BY <1>3 DEF Dispatch
  <2>3. QED
    BY <1>2, <2>1, <2>2
<1>4. CASE TasksActive(caps, enabled, wanted)
  <2>1. sent = [whole |-> Cardinality(asked) = 1, task |-> [g \in DOMAIN files |-> ask(g)]]
    BY <1>1, <1>4 DEF Dispatch
  <2>2. alone.task[1] = ask(f)
    BY <1>2, <1>4 DEF Dispatch
  <2>3. ASSUME Cardinality(asked) = 1, NEW g \in DOMAIN files
        PROVE  ask(f) = ask(g)
    <3> HIDE DEF ask
    <3>1. IsFiniteSet(asked)
      <4>1. IsFiniteSet(DOMAIN files)
        BY <1>1, FS_Interval
      <4>2. [h \in DOMAIN files |-> ask(h)] \in Surjection(DOMAIN files, asked)
        BY DEF Surjection
      <4>3. QED
        BY <4>1, <4>2, FS_Surjection
    <3>2. \E x : asked = {x}
      BY <2>3, <3>1, FS_Singleton
    <3>3. QED
      BY <3>2
  <2>4. \A g \in DOMAIN files : Cardinality(asked) = 1 => ask(f) = ask(g)
    BY <2>3
  <2> HIDE DEF ask, asked
  <2>5. /\ sent.task[f] = ask(f) /\ sent.whole = (Cardinality(asked) = 1)
        /\ \A g \in DOMAIN files : sent.task[g] = ask(g)
    BY <2>1
  <2> HIDE DEF sent, alone
  <2>6. QED
    BY <2>2, <2>4, <2>5 DEF sent, alone
<1>5. QED
  BY <1>3, <1>4

----------------------------------------------------------------------------
(* Names of sidecars. *)

\* A caption marker at the end of a name adds nothing to its language.
LEMMA CaptionIsNoLanguage ==
  ASSUME NEW T, NEW name \in Seq(T), NEW c \in CaptionSuffixes
  PROVE  NameLanguage(Append(name, c)) = NameLanguage(name)
<1> DEFINE long == Append(name, c)
           n == Len(name)
           short == SuffixCluster(name)
           full == SuffixCluster(long)
<1>1. /\ n \in Nat /\ DOMAIN name = 1..n /\ DOMAIN long = 1..(n + 1) /\ Len(long) = n + 1
      /\ long[n + 1] = c /\ \A i \in 1..n : long[i] = name[i]
  OBVIOUS
<1> HIDE DEF long, n
<1>2. c \in SkipTokens /\ c \notin LanguageTokens /\ c # "hi"
  BY DEF CaptionSuffixes, SkipTokens, LanguageTokens
<1>3. full = short \cup {n + 1}
  <2>1. ASSUME NEW i \in 1..n
        PROVE  i \in full <=> i \in short
    <3>1. \A j \in i..(n + 1) : j \in i..n \/ j = n + 1
      BY <1>1
    <3>2. \A j \in i..n : long[j] = name[j] /\ j \in i..(n + 1)
      BY <1>1
    <3>3. QED
      BY <1>1, <1>2, <3>1, <3>2 DEF SuffixCluster, n
  <2>2. n + 1 \in full
    <3>1. \A j \in (n + 1)..(n + 1) : j = n + 1
      BY <1>1
    <3>2. QED
      BY <1>1, <1>2, <3>1 DEF SuffixCluster
  <2>3. short \subseteq 1..n /\ full \subseteq 1..(n + 1)
    BY <1>1 DEF SuffixCluster
  <2>4. QED
    BY <1>1, <2>1, <2>2, <2>3
<1>4. short \subseteq 1..n
  BY <1>1 DEF SuffixCluster
<1> HIDE DEF full, short
<1>5. LanguageInCluster(long, full) = LanguageInCluster(name, short)
  <2> DEFINE m1(i) == /\ long[i] = "hi"
                      /\ \E j \in full : j < i /\ long[j] \in LanguageTokens \ {"hi"}
             m0(i) == /\ name[i] = "hi"
                      /\ \E j \in short : j < i /\ name[j] \in LanguageTokens \ {"hi"}
             named1 == {i \in full : long[i] \in ShapedTokens \ SkipTokens /\ ~m1(i)}
             named0 == {i \in short : name[i] \in ShapedTokens \ SkipTokens /\ ~m0(i)}
  <2>1. n + 1 \notin named1
    BY <1>1, <1>2
  <2>2. ASSUME NEW i \in short
        PROVE  m1(i) <=> m0(i)
    <3>1. \A j \in full : j < i => j \in short
      BY <1>1, <1>3, <1>4
    <3>2. QED
      BY <1>1, <1>3, <1>4, <3>1
  <2>3. \A i \in short : i \in named1 <=> i \in named0
    BY <1>1, <1>3, <1>4, <2>2
  <2>4. named1 = named0 /\ named0 \subseteq short
    <3> HIDE DEF m1, m0
    <3>1. named1 \subseteq full /\ named0 \subseteq short
      OBVIOUS
    <3> HIDE DEF named1, named0
    <3>2. QED
      BY <1>3, <2>1, <2>3, <3>1
  <2>5. /\ LanguageInCluster(long, full)
             = IF named1 = {} THEN Unmarked ELSE long[GreatestOf(named1)]
        /\ LanguageInCluster(name, short)
             = IF named0 = {} THEN Unmarked ELSE name[GreatestOf(named0)]
    BY DEF LanguageInCluster
  <2>6. named0 # {} => GreatestOf(named0) \in 1..n
    <3>1. named0 \in SUBSET (1..n)
      BY <1>4, <2>4
    <3> HIDE DEF named0, named1
    <3>2. QED
      BY <1>1, <3>1, GreatestPlace
  <2> HIDE DEF named0, named1
  <2>7. QED
    BY <1>1, <2>4, <2>5, <2>6
<1>6. LanguageAnywhere(long) = LanguageAnywhere(name)
  <2> DEFINE named1 == {i \in DOMAIN long : long[i] \in ShapedTokens \ SkipTokens}
             named0 == {i \in DOMAIN name : name[i] \in ShapedTokens \ SkipTokens}
  <2>1. named1 = named0 /\ named0 \in SUBSET (1..n)
    BY <1>1, <1>2
  <2>2. /\ LanguageAnywhere(long) = IF named1 = {} THEN Unmarked ELSE long[GreatestOf(named1)]
        /\ LanguageAnywhere(name) = IF named0 = {} THEN Unmarked ELSE name[GreatestOf(named0)]
    BY DEF LanguageAnywhere
  <2> HIDE DEF named0, named1
  <2>3. named0 # {} => GreatestOf(named0) \in 1..n
    BY <1>1, <2>1, GreatestPlace
  <2>4. QED
    BY <1>1, <2>1, <2>2, <2>3
<1>7. QED
  BY <1>5, <1>6 DEF NameLanguage, full, short, long

\* "hi" after another language marks the subtitles, and is not their language.
LEMMA HiIsAMark ==
  ASSUME NEW T, NEW name \in Seq(T), name # <<>>, Last(name) \in LanguageTokens \ {"hi"}
  PROVE  NameLanguage(Append(name, "hi")) = Last(name)
<1> DEFINE long == Append(name, "hi")
           n == Len(name)
           full == SuffixCluster(long)
           marker(i) == /\ long[i] = "hi"
                        /\ \E j \in full : j < i /\ long[j] \in LanguageTokens \ {"hi"}
           named == {i \in full : long[i] \in ShapedTokens \ SkipTokens /\ ~marker(i)}
<1>1. /\ n \in Nat /\ n >= 1 /\ DOMAIN long = 1..(n + 1) /\ Len(long) = n + 1
      /\ long[n + 1] = "hi" /\ long[n] = Last(name)
  BY DEF Last
<1> HIDE DEF long, n
<1>2. /\ long[n] \in ShapedTokens \ SkipTokens /\ long[n] # "hi" /\ long[n] # Unmarked
      /\ long[n] \in LanguageTokens
      /\ "hi" \in ShapedTokens
  BY <1>1 DEF LanguageTokens, ShapedTokens, SkipTokens, CaptionSuffixes, Unmarked
<1>3. n \in full /\ n + 1 \in full /\ full \subseteq 1..(n + 1)
  <2>1. \A j \in n..(n + 1) : j = n \/ j = n + 1
    BY <1>1
  <2>2. \A j \in (n + 1)..(n + 1) : j = n + 1
    BY <1>1
  <2>3. QED
    BY <1>1, <1>2, <2>1, <2>2 DEF SuffixCluster
<1> HIDE DEF full
<1>4. n \in named /\ n + 1 \notin named /\ named \subseteq 1..(n + 1)
  <2>1. marker(n + 1) /\ ~marker(n)
    <3>1. n < n + 1
      BY <1>1
    <3>2. QED
      BY <1>1, <1>2, <1>3, <3>1
  <2> HIDE DEF marker
  <2>2. QED
    BY <1>2, <1>3, <2>1
<1>5. LanguageInCluster(long, full) = IF named = {} THEN Unmarked ELSE long[GreatestOf(named)]
  BY DEF LanguageInCluster
<1> HIDE DEF named
<1>6. GreatestOf(named) = n
  <2>1. \A i \in named : i <= n
    BY <1>1, <1>4
  <2>2. \A i \in named : n <= i => i = n
    BY <1>1, <1>4, <2>1
  <2>3. QED
    BY <1>4, <2>1, <2>2 DEF GreatestOf
<1>7. LanguageInCluster(long, full) = Last(name) /\ Last(name) # Unmarked
  BY <1>1, <1>2, <1>4, <1>5, <1>6
<1>8. QED
  BY <1>7 DEF NameLanguage, full, long

----------------------------------------------------------------------------
(* Rows. *)

\* build_coverage calls an episode whose file is known covered only by a full
\* sidecar in a language it waits for, whatever lies beside it.
THEOREM CoveredByWantedAnyEpisode ==
  ASSUME NEW ep, NEW sidecars, NEW stem, stem # <<>>,
         ep.known = TRUE, ep.file # None, ep.wanted # {},
         EpisodeCovered(ep, TRUE, sidecars, stem).hit
  PROVE  \E s \in sidecars : ~Contains(s.name, "forced") /\ NameLanguage(s.name) \in ep.wanted
<1> DEFINE mine == IF OfFile(sidecars, stem) = {} THEN PatternMatches(sidecars, ep.number)
                   ELSE OfFile(sidecars, stem)
           covered == EpisodeCovered(ep, TRUE, sidecars, stem)
<1>1. covered = StaleForEpisode(TRUE, stem, sidecars, ep.number, ep.wanted)
  BY DEF EpisodeCovered, EpisodeFile
<1>2. mine \subseteq sidecars
  BY DEF OfFile, PatternMatches
<1>3. covered.hit
  OBVIOUS
<1> HIDE DEF covered
<1>4. sidecars # {}
  <2> SUFFICES ASSUME sidecars = {} PROVE FALSE
    OBVIOUS
  <2>1. covered = Uncovered
    BY <1>1 DEF StaleForEpisode
  <2>2. Uncovered.hit = FALSE
    BY DEF Uncovered
  <2>3. QED
    BY <1>3, <2>1, <2>2
<1>5. ep.wanted \cap LanguagesOf({s.name : s \in mine}) # {}
  <2>1. covered = [hit |-> mine # {} /\ (ep.wanted = {}
                                        \/ ep.wanted \cap LanguagesOf({s.name : s \in mine}) # {}),
                   seen |-> mine]
    BY <1>1, <1>4 DEF StaleForEpisode
  <2> DEFINE met == mine # {} /\ (ep.wanted = {} \/ ep.wanted \cap LanguagesOf({s.name : s \in mine}) # {})
  <2>2. met \in BOOLEAN
    OBVIOUS
  <2> HIDE DEF mine, met
  <2>3. met = TRUE
    <3>1. covered.hit = met
      BY <2>1 DEF met
    <3>2. QED
      BY <1>3, <2>2, <3>1
  <2>4. QED
    BY <2>3 DEF met
<1> HIDE DEF mine
<1>6. PICK s \in mine : ~Contains(s.name, "forced") /\ NameLanguage(s.name) \in ep.wanted
  BY <1>5 DEF LanguagesOf
<1>7. QED
  BY <1>2, <1>6

\* _apply_episode_probe gives a file that a user verified that language, against
\* any tags, players and declarations, and takes the doubts from it.
THEOREM UserVerdictWinsAnyFile ==
  ASSUME NEW file, NEW verdicts, NEW intents, NEW playing, NEW plex,
         file.path \in DOMAIN verdicts, verdicts[file.path].by = "user",
         verdicts[file.path].lang # None, Cardinality(verdicts[file.path].codes) = 1
  PROVE  LET label == LabelOf(file, verdicts, intents, playing, plex)
         IN /\ label.langs = {verdicts[file.path].lang}
            /\ label.source = "user"
            /\ ~label.suspect /\ ~label.unknown
<1> DEFINE word == verdicts[file.path]
           user == Looked(UserBase(verdicts), intents, file)
           heard == Looked(MachineBase(verdicts), {}, file)
           first == Labelled(file, TrackLanguages(file.audio), file.original, user, heard, playing, plex)
           by == [p \in DOMAIN verdicts |-> verdicts[p].by]
           declared == {[series |-> i.series, lang |-> "user"] : i \in intents}
<1>1. user = word.lang /\ user # None
  <2>1. file.path \in DOMAIN UserBase(verdicts) /\ UserBase(verdicts)[file.path] = word.lang
    BY DEF UserBase
  <2> HIDE DEF word
  <2>2. QED
    BY <2>1 DEF Looked, word
<1>2. Looked(by, declared, file) = "user"
  <2>1. file.path \in DOMAIN by /\ by[file.path] = "user"
    OBVIOUS
  <2> HIDE DEF by, declared
  <2>2. QED
    BY <2>1 DEF Looked
<1> HIDE DEF user, heard, by, declared
<1>3. PICK c : first = [langs |-> {user}, source |-> "user", suspect |-> FALSE,
                       unknown |-> FALSE, clash |-> c]
  BY <1>1 DEF Labelled
<1> HIDE DEF first
<1>4. Refined(first, file, verdicts, intents) = [first EXCEPT !.source = "user"]
  BY <1>2 DEF Refined, by, declared
<1> DEFINE label == [first EXCEPT !.source = "user"]
<1>5. LabelOf(file, verdicts, intents, playing, plex) = label
  <2>1. Cardinality(word.codes) < 2
    OBVIOUS
  <2>2. QED
    BY <1>4, <2>1 DEF LabelOf, Several, first, user, heard
<1>6. /\ label.langs = {user} /\ label.source = "user"
      /\ label.suspect = FALSE /\ label.unknown = FALSE
  BY <1>3
<1> HIDE DEF label
<1>7. QED
  BY <1>1, <1>5, <1>6

\* _add_bazarr_blind_synthetic_rows adds no second row for a file, whatever
\* episodes share it, if each episode has an id of its own.
THEOREM BlindRowsAreNewAnySeries ==
  ASSUME NEW rows, NEW sidecars, NEW suspect, NEW foreign, NEW episodes,
         \A e \in episodes : e.id \in Int,
         \A d, e \in episodes : d.id = e.id => d = e
  PROVE  LET blind == BlindEpisodes(episodes, rows, sidecars, suspect, foreign)
         IN /\ \A b \in blind, r \in rows : b.file # r.file
            /\ \A b, c \in blind : b.file = c.file => b = c
<1> DEFINE blind == BlindEpisodes(episodes, rows, sidecars, suspect, foreign)
<1>1. \A b \in blind : b \in episodes /\ \A r \in rows : r.file # b.file
  BY DEF BlindEpisodes
<1>2. \A b, c \in blind : b.file = c.file => b.id <= c.id
  BY DEF BlindEpisodes
<1> HIDE DEF blind
<1>3. \A b, c \in blind : b.file = c.file => b.id = c.id
  BY <1>1, <1>2
<1>4. QED
  BY <1>1, <1>3 DEF blind

\* _route_wanted gives each wanted title to exactly one instance, for any
\* libraries, also those that name an instance that is gone.
THEOREM WantedOnceAnyLibraries ==
  ASSUME NEW libraries, NEW valid, "" \in valid, NEW w
  PROVE  \E i \in valid : \A j \in valid :
           w \in Routed({w}, Routing(libraries), valid, j) <=> j = i
<1> DEFINE routing == Routing(libraries)
           target == IF w.bazarr \in DOMAIN routing /\ routing[w.bazarr] \in valid
                     THEN routing[w.bazarr] ELSE ""
<1> HIDE DEF routing
<1>1. \A j : w \in Routed({w}, routing, valid, j) <=> target = j
  BY DEF Routed
<1>2. target \in valid
  OBVIOUS
<1> HIDE DEF target
<1>3. QED
  BY <1>1, <1>2 DEF routing

----------------------------------------------------------------------------
(* Files that moved, and files with ids. *)

\* What a file is matched with is one of its candidates.
LEMMA BestIsCandidate ==
  ASSUME NEW stale, NEW size, NEW inventory, NEW f \in Best(stale, Candidates(stale, size, inventory))
  PROVE  f \in inventory /\ (size # NoSize => f.size = size)
<1>1. f \in Candidates(stale, size, inventory)
  <2> DEFINE C == Candidates(stale, size, inventory)
  <2> HIDE DEF C
  <2>1. \A x \in Best(stale, C) : x \in C
    BY DEF Best
  <2>2. QED
    BY <2>1 DEF C
<1>2. QED
  BY <1>1 DEF Candidates

\* The rules that relink.analyse offers move no two rows to the same file and no
\* row to a file of another size. A row with a verdict keeps off the files that
\* have one, and a row with only a probe off the files with a probe. The stale
\* rows are those of either store, as admin._relink_analysis takes them; any
\* inventory.
THEOREM RelinkOneToOneAnyFiles ==
  ASSUME NEW stale, NEW sizes, NEW verified, NEW probed, NEW inventory, NEW failed,
         stale \subseteq verified \cup probed
  PROVE  LET offered == Rules(stale, sizes, verified, probed, inventory, failed)
             pairs == UNION {r.pairs : r \in offered}
         IN \A p \in pairs :
              /\ \A q \in pairs : p.new = q.new => p = q
              /\ p.old \in verified => p.new \notin verified
              /\ p.old \notin verified => p.old \in probed /\ p.new \notin probed
              /\ \E f \in inventory : f.path = p.new /\ sizes[p.old] \in {NoSize, f.size}
<1> DEFINE matches == Matches(stale, sizes, inventory, failed)
           free == {m \in Mutual(matches) : IF m.old \in verified THEN m.new \notin verified
                                            ELSE m.new \notin probed}
           offered == Rules(stale, sizes, verified, probed, inventory, failed)
           pairs == UNION {r.pairs : r \in offered}
<1>1. \A r \in offered : r.pairs \subseteq free
  <2> DEFINE doubted == Mismatched(stale, sizes, inventory, failed)
             pairsOf(h) == {m \in free : HeadsOf(m.old, m.new) = h}
             sized(h) == {m \in pairsOf(h) : m.how = "size"}
             included(h) == IF sized(h) = {} \/ h \in doubted THEN sized(h) ELSE pairsOf(h)
  <2>1. \A h : included(h) \subseteq free
    <3> HIDE DEF free, doubted
    <3>1. QED
      OBVIOUS
  <2>2. offered \subseteq {[heads |-> HeadsOf(m.old, m.new),
                            pairs |-> included(HeadsOf(m.old, m.new))] : m \in free}
    BY DEF Rules
  <2> HIDE DEF free, included, offered
  <2>3. QED
    BY <2>1, <2>2
<1>2. \A m \in matches : /\ m.old \in stale
                         /\ \E f \in inventory : f.path = m.new /\ sizes[m.old] \in {NoSize, f.size}
  <2> SUFFICES ASSUME NEW m \in matches
               PROVE  /\ m.old \in stale
                      /\ \E f \in inventory : f.path = m.new /\ sizes[m.old] \in {NoSize, f.size}
    OBVIOUS
  <2>1. PICK s \in stale : \E f \in Best(s, Candidates(s, sizes[s], Inventory(inventory, failed))) :
               m = [old |-> s, new |-> f.path,
                    how |-> IF sizes[s] # NoSize THEN "size" ELSE "path_only"]
    BY DEF Matches
  <2>2. PICK f \in Best(s, Candidates(s, sizes[s], Inventory(inventory, failed))) :
               m.old = s /\ m.new = f.path
    BY <2>1
  <2>3. f \in Inventory(inventory, failed) /\ (sizes[s] # NoSize => f.size = sizes[s])
    BY <2>2, BestIsCandidate
  <2>4. f \in inventory
    BY <2>3 DEF Inventory
  <2>5. QED
    BY <2>2, <2>3, <2>4
<1> HIDE DEF matches, offered
<1>3. \A p \in free : p \in matches /\ \A q \in matches : p.new = q.new => p = q
  BY DEF Mutual
<1>4. \A p \in free : /\ p.old \in verified => p.new \notin verified
                      /\ p.old \notin verified => p.old \in probed /\ p.new \notin probed
  <2>1. \A p \in free : /\ p.old \in verified => p.new \notin verified
                        /\ p.old \notin verified => p.new \notin probed
    OBVIOUS
  <2> HIDE DEF free
  <2>2. QED
    BY <1>2, <1>3, <2>1
<1> HIDE DEF free
<1>5. pairs \subseteq free
  BY <1>1
<1> HIDE DEF pairs
<1>6. QED
  BY <1>2, <1>3, <1>4, <1>5 DEF pairs, offered

\* The episode id that ArrIdResolver finds for a path is resolved back by
\* resolve_episode_target to that path and series, in any library whose ids are
\* its own.
THEOREM IdsNameTheirFileAnyLibrary ==
  ASSUME NEW sonarr, NEW radarr, NEW path, NEW library, NEW default, NEW arrs,
         NEW arr, arr = IF library # NoOne THEN library ELSE default, arrs[arr] = sonarr,
         NEW id \in ResolvedIds(path, sonarr, radarr), id.kind = "episode",
         \A e \in sonarr.episodes : e.id # NoId,
         \A d, e \in sonarr.episodes : d.id = e.id => d = e,
         \A f, g \in sonarr.files : f.id = g.id => f = g
  PROVE  EpisodeTarget(arrs, default, library, id.id) = [path |-> path, series |-> id.series]
<1>1. PICK e \in EpisodeOnFile(sonarr, path) :
         id.series = e.series /\ id.id = e.id /\ sonarr.configured /\ sonarr.up
  BY DEF ResolvedIds
<1>2. /\ e \in sonarr.episodes
      /\ \E f \in sonarr.files : f.id = e.fileId /\ f.path = path
  BY DEF EpisodeOnFile
<1>3. PICK f \in sonarr.files : f.id = e.fileId /\ f.path = path
  BY <1>2
<1> DEFINE found == {d \in sonarr.episodes : d.id = id.id}
           files(d) == {g \in sonarr.files : g.id = d.fileId}
<1>4. found = {e} /\ found # {} /\ e.id # NoId
  BY <1>1, <1>2
<1>5. (CHOOSE d \in found : TRUE) = e
  BY <1>4
<1>6. files(e) = {f} /\ files(e) # {}
  BY <1>3
<1>7. (CHOOSE g \in files(e) : TRUE) = f
  BY <1>6
<1> HIDE DEF found, files
<1>8. EpisodeTarget(arrs, default, library, id.id)
        = [path |-> IF files(e) = {} THEN NoPath ELSE (CHOOSE g \in files(e) : TRUE).path,
           series |-> e.series]
  BY <1>1, <1>4, <1>5 DEF EpisodeTarget, found, files
<1>9. QED
  BY <1>1, <1>3, <1>6, <1>7, <1>8

----------------------------------------------------------------------------
(* Timing. *)

\* Cues with a text.
Cues == [from : Int, to : Int, chars : Nat \ {0}]

\* A cue that begins or ends elsewhere is a cue.
LEMMA CueMoved ==
  ASSUME NEW c \in Cues, NEW v \in Nat
  PROVE  /\ Delayed(c, v) \in Cues /\ Prolonged(c, v) \in Cues
         /\ Delayed(c, v).from = c.from + v /\ Delayed(c, v).to = c.to
         /\ Delayed(c, v).chars = c.chars
         /\ Prolonged(c, v).from = c.from /\ Prolonged(c, v).to = c.to + v
         /\ Prolonged(c, v).chars = c.chars
<1>1. c.from + v \in Int /\ c.to + v \in Int
  BY DEF Cues
<1>2. QED
  BY <1>1 DEF Delayed, Prolonged, Cues

\* A loan is a length of time.
LEMMA LoanIsTime ==
  ASSUME NEW a \in Cues,
         NEW b \in Cues
  PROVE  /\ Loan(a, b) \in Nat
         /\ Loan(a, b) > 0 => Loan(a, b) <= b.to - b.from - TimeFor(b.chars, CriticalCps)
<1>1. TimeFor(a.chars, CriticalCps) \in Int /\ TimeFor(b.chars, CriticalCps) \in Int
  BY DEF Cues, TimeFor, CriticalCps
<1>2. a.from \in Int /\ a.to \in Int /\ b.from \in Int /\ b.to \in Int
      /\ a.chars \in Int /\ b.chars \in Int
  BY DEF Cues
<1>3. QED
  BY <1>1, <1>2 DEF Loan, Atleast, Atmost, MaxCue, MaxBorrow

\* The lengths that are lent exist, each computed from the one before: of the
\* numbers of cues without them there would be a least one.
LEMMA LoansExist ==
  ASSUME NEW cues, NEW m \in Nat, \A i \in 1..m : cues[i] \in Cues /\ cues[i + 1] \in Cues
  PROVE  \E f \in [0..m -> Nat] :
           f[0] = 0 /\ \A i \in 1..m : f[i] = Loan(Delayed(cues[i], f[i - 1]), cues[i + 1])
<1> DEFINE next(i, v) == Loan(Delayed(cues[i], v), cues[i + 1])
<1>0. \A i \in 1..m, v \in Nat : next(i, v) \in Nat
  BY CueMoved, LoanIsTime
<1> HIDE DEF next
<1> DEFINE Runs(f, k) == f[0] = 0 /\ \A i \in 1..k : f[i] = next(i, f[i - 1])
           bad == {k \in 0..m : ~\E f \in [0..k -> Nat] : Runs(f, k)}
<1>1. SUFFICES ASSUME bad # {} PROVE FALSE
  <2>1. m \in 0..m
    OBVIOUS
  <2>2. m \notin bad => \E f \in [0..m -> Nat] : Runs(f, m)
    BY <2>1
  <2>3. QED
    BY <2>2 DEF next
<1> DEFINE k == LeastOf(bad)
<1>2. k \in bad /\ \A j \in bad : k <= j
  <2>1. bad \in SUBSET Nat
    OBVIOUS
  <2> HIDE DEF bad
  <2>2. QED
    BY <1>1, <2>1, LeastPlace
<1> HIDE DEF k
<1>3. k \in 0..m /\ k \in Nat /\ ~\E f \in [0..k -> Nat] : Runs(f, k)
  BY <1>2
<1>4. CASE k = 0
  <2> DEFINE f == [i \in 0..k |-> 0]
  <2>1. f \in [0..k -> Nat]
    OBVIOUS
  <2>2. f[0] = 0 /\ 1..k = {}
    BY <1>4
  <2>3. Runs(f, k)
    BY <2>2
  <2> HIDE DEF f, Runs
  <2>4. QED
    BY <1>3, <2>1, <2>3
<1>5. CASE k # 0
  <2>1. k - 1 \in 0..m /\ k - 1 \notin bad
    <3> HIDE DEF bad
    <3>1. QED
      BY <1>2, <1>3, <1>5
  <2>2. PICK g \in [0..(k - 1) -> Nat] : Runs(g, k - 1)
    BY <2>1
  <2> DEFINE f == [i \in 0..k |-> IF i = k THEN next(k, g[k - 1]) ELSE g[i]]
  <2>3. /\ k - 1 \in 0..(k - 1) /\ k \in 1..m
        /\ g[k - 1] \in Nat /\ \A i \in 0..(k - 1) : g[i] \in Nat
    BY <1>3, <1>5
  <2>4. next(k, g[k - 1]) \in Nat
    BY <1>0, <2>3
  <2>5. f \in [0..k -> Nat]
    <3>1. \A i \in 0..k : i = k \/ i \in 0..(k - 1)
      BY <1>3
    <3>2. QED
      BY <2>3, <2>4, <3>1
  <2>6. f[0] = 0
    <3>1. 0 \in 0..k /\ f[0] = g[0]
      BY <1>3, <1>5
    <3>2. QED
      BY <2>2, <3>1
  <2>7. ASSUME NEW i \in 1..k
        PROVE  f[i] = next(i, f[i - 1])
    <3>1. i \in 0..k /\ i - 1 \in 0..k /\ i - 1 # k
      BY <1>3
    <3>2. f[i - 1] = g[i - 1]
      BY <3>1
    <3>3. CASE i = k
      BY <3>1, <3>2, <3>3
    <3>4. CASE i # k
      <4>1. i \in 1..(k - 1) /\ f[i] = g[i]
        BY <1>3, <3>1, <3>4
      <4>2. QED
        BY <2>2, <3>2, <4>1
    <3>5. QED
      BY <3>3, <3>4
  <2> HIDE DEF f
  <2>8. Runs(f, k)
    BY <2>6, <2>7
  <2> HIDE DEF Runs
  <2>9. QED
    BY <1>3, <2>5, <2>8
<1>6. QED
  BY <1>4, <1>5 DEF next

\* Lent is what its definition says.
LEMMA LentIsLent ==
  ASSUME NEW cues \in Seq(Cues), Len(cues) >= 1
  PROVE  /\ Lent(cues) \in [0..(Len(cues) - 1) -> Nat]
         /\ Lent(cues)[0] = 0
         /\ \A i \in 1..(Len(cues) - 1) :
              Lent(cues)[i] = Loan(Delayed(cues[i], Lent(cues)[i - 1]), cues[i + 1])
<1> DEFINE m == Len(cues) - 1
           Eqn(f) == f = [i \in 0..m |->
                       IF i = 0 THEN 0 ELSE Loan(Delayed(cues[i], f[i - 1]), cues[i + 1])]
<1>1. m \in Nat /\ \A i \in 1..m : cues[i] \in Cues /\ cues[i + 1] \in Cues
  OBVIOUS
<1> HIDE DEF m
<1>2. ASSUME NEW i \in 1..m, NEW v \in Nat
      PROVE  Loan(Delayed(cues[i], v), cues[i + 1]) \in Nat
  <2>1. Delayed(cues[i], v) \in Cues
    BY <1>1, CueMoved
  <2>2. QED
    BY <1>1, <2>1, LoanIsTime
<1>3. PICK g \in [0..m -> Nat] :
         g[0] = 0 /\ \A i \in 1..m : g[i] = Loan(Delayed(cues[i], g[i - 1]), cues[i + 1])
  BY <1>1, LoansExist
<1>5. Eqn(g)
  <2>1. \A i \in 0..m : i # 0 => i \in 1..m
    BY <1>1
  <2>2. \A i \in 0..m : g[i] = IF i = 0 THEN 0
                                ELSE Loan(Delayed(cues[i], g[i - 1]), cues[i + 1])
    BY <1>3, <2>1
  <2>3. g = [i \in 0..m |-> g[i]]
    BY <1>1, <1>3
  <2>4. QED
    BY <2>2, <2>3
<1>6. Lent(cues) = CHOOSE f : Eqn(f)
  BY DEF Lent, m
<1> DEFINE f == Lent(cues)
<1>7. Eqn(f)
  <2> HIDE DEF Eqn
  <2>1. QED
    BY <1>5, <1>6
<1> HIDE DEF f
<1>8. /\ f = [i \in 0..m |-> f[i]] /\ f[0] = 0
      /\ \A i \in 1..m : f[i] = Loan(Delayed(cues[i], f[i - 1]), cues[i + 1])
  <2>1. DOMAIN f = 0..m /\ f = [i \in 0..m |-> f[i]]
    BY <1>7
  <2>2. 0 \in 0..m /\ \A i \in 1..m : i \in 0..m /\ i # 0
    BY <1>1
  <2>3. \A i \in 0..m : f[i] = IF i = 0 THEN 0 ELSE Loan(Delayed(cues[i], f[i - 1]), cues[i + 1])
    BY <1>7
  <2>4. QED
    BY <2>1, <2>2, <2>3
<1> HIDE DEF Eqn
<1> DEFINE bad == {i \in 0..m : f[i] \notin Nat}
<1>9. bad = {}
  <2> SUFFICES ASSUME bad # {} PROVE FALSE
    OBVIOUS
  <2> DEFINE k == LeastOf(bad)
  <2>1. k \in bad /\ \A j \in bad : k <= j
    <3>1. bad \in SUBSET Nat
      OBVIOUS
    <3> HIDE DEF bad
    <3>2. QED
      BY <3>1, LeastPlace
  <2> HIDE DEF k
  <2>2. k \in 1..m /\ f[k] \notin Nat
    BY <1>1, <1>8, <2>1
  <2>3. k - 1 \in 0..m /\ k - 1 \notin bad
    BY <1>1, <2>1, <2>2
  <2>4. f[k - 1] \in Nat
    BY <2>3
  <2>5. QED
    BY <1>2, <1>8, <2>2, <2>4
<1>10. f \in [0..m -> Nat]
  BY <1>8, <1>9
<1>11. QED
  BY <1>8, <1>10 DEF f, m

\* Who has as much to read and more time for it is not faster.
LEMMA TimeHelps ==
  ASSUME NEW c \in Cues, NEW d \in Cues, c.chars = d.chars, d.to - d.from >= c.to - c.from,
         Faster(d, CriticalCps)
  PROVE  Faster(c, CriticalCps)
<1>1. /\ c.from \in Int /\ c.to \in Int /\ d.from \in Int /\ d.to \in Int
      /\ c.chars \in Nat /\ d.chars \in Nat
  BY DEF Cues
<1>2. QED
  BY <1>1 DEF Faster, Lasting, Atleast, CriticalCps

\* A cue that has the time its text takes is not too fast.
LEMMA TimeEnough ==
  ASSUME NEW c \in Cues, c.to - c.from >= TimeFor(c.chars, CriticalCps)
  PROVE  ~Faster(c, CriticalCps)
<1>1. c.from \in Int /\ c.to \in Int /\ c.chars \in Nat \ {0}
  BY DEF Cues
<1>2. TimeFor(c.chars, CriticalCps) = 40 * c.chars
  BY <1>1 DEF TimeFor, CriticalCps
<1>3. QED
  BY <1>1, <1>2 DEF Faster, Lasting, Atleast, CriticalCps

\* Subtitles whose cues follow one another.
InTurn(cues) == cues \in Seq(Cues) /\ \A i \in 1..(Len(cues) - 1) : cues[i].to <= cues[i + 1].from

\* A cue is extended into the gap behind it.
LEMMA ExtensionFits ==
  ASSUME NEW cues, InTurn(cues)
  PROVE  /\ InTurn(Extended(cues)) /\ Len(Extended(cues)) = Len(cues)
         /\ \A i \in 1..Len(cues) : /\ Extended(cues)[i].from = cues[i].from
                                    /\ Extended(cues)[i].chars = cues[i].chars
                                    /\ Extended(cues)[i].to >= cues[i].to
<1> DEFINE n == Len(cues)
<1>1. n \in Nat /\ DOMAIN cues = 1..n /\ \A i \in 1..n : cues[i] \in Cues
  BY DEF InTurn
<1>2. \A i \in 1..(n - 1) : cues[i].to <= cues[i + 1].from
  BY DEF InTurn
<1> HIDE DEF n
<1>3. ASSUME NEW i \in 1..n
      PROVE  /\ ExtendedEnd(cues, i) \in Int /\ ExtendedEnd(cues, i) >= cues[i].to
             /\ i < n => ExtendedEnd(cues, i) <= cues[i + 1].from
  <2>1. cues[i].from \in Int /\ cues[i].to \in Int /\ cues[i].chars \in Nat
    BY <1>1 DEF Cues
  <2>2. i < n => cues[i + 1].from \in Int /\ cues[i].to <= cues[i + 1].from
    <3>1. i < n => i + 1 \in 1..n /\ i \in 1..(n - 1)
      BY <1>1
    <3>2. QED
      BY <1>1, <1>2, <3>1 DEF Cues
  <2>3. TimeFor(cues[i].chars, TargetCps) \in Int
    BY <2>1 DEF TimeFor, TargetCps
  <2> DEFINE bound == IF i < n THEN Atmost(cues[i + 1].from - MinGap, cues[i].from + MaxCue)
                      ELSE cues[i].from + MaxCue
             padded == Atleast(cues[i].to, cues[i].from + MinCue)
             desired == IF Faster(cues[i], TargetCps)
                        THEN Atleast(padded, cues[i].from + TimeFor(cues[i].chars, TargetCps))
                        ELSE padded
  <2>4. bound \in Int /\ (i < n => bound <= cues[i + 1].from)
    BY <2>1, <2>2 DEF Atmost, MinGap, MaxCue
  <2>5. desired \in Int
    BY <2>1, <2>3 DEF Atleast, MinCue
  <2>6. ExtendedEnd(cues, i)
          = IF bound <= cues[i].to THEN cues[i].to ELSE Atleast(cues[i].to, Atmost(desired, bound))
    BY DEF ExtendedEnd, n
  <2> HIDE DEF bound, desired
  <2>7. QED
    BY <2>1, <2>2, <2>4, <2>5, <2>6 DEF Atleast, Atmost
<1> DEFINE ext == Extended(cues)
<1>4. /\ DOMAIN ext = 1..n
      /\ \A i \in 1..n : /\ ext[i] \in Cues /\ ext[i].from = cues[i].from
                         /\ ext[i].chars = cues[i].chars /\ ext[i].to = ExtendedEnd(cues, i)
  <2>1. ext = [i \in 1..n |-> [cues[i] EXCEPT !.to = ExtendedEnd(cues, i)]]
    BY <1>1 DEF Extended
  <2>2. ASSUME NEW c \in Cues, NEW t \in Int
        PROVE  LET d == [c EXCEPT !.to = t]
               IN d \in Cues /\ d.from = c.from /\ d.chars = c.chars /\ d.to = t
    BY DEF Cues
  <2>3. ASSUME NEW i \in 1..n
        PROVE  /\ ext[i] \in Cues /\ ext[i].from = cues[i].from
               /\ ext[i].chars = cues[i].chars /\ ext[i].to = ExtendedEnd(cues, i)
    <3>1. ext[i] = [cues[i] EXCEPT !.to = ExtendedEnd(cues, i)]
      BY <2>1
    <3>2. cues[i] \in Cues /\ ExtendedEnd(cues, i) \in Int
      BY <1>1, <1>3
    <3>3. QED
      BY <2>2, <3>1, <3>2
  <2>4. QED
    BY <2>1, <2>3
<1> HIDE DEF ext
<1>5. ext \in Seq(Cues) /\ Len(ext) = n
  <2>1. ext = [i \in 1..n |-> ext[i]]
    <3>1. Extended(cues) = [i \in DOMAIN cues |-> Extended(cues)[i]]
      BY DEF Extended
    <3>2. QED
      BY <1>1, <3>1 DEF ext
  <2>2. ext \in [1..n -> Cues]
    BY <1>4, <2>1
  <2>3. QED
    BY <1>1, <2>2
<1>6. \A i \in 1..(n - 1) : ext[i].to <= ext[i + 1].from
  <2>1. \A i \in 1..(n - 1) : i \in 1..n /\ i + 1 \in 1..n /\ i < n
    BY <1>1
  <2>2. QED
    BY <1>3, <1>4, <2>1
<1>7. QED
  BY <1>3, <1>4, <1>5, <1>6 DEF ext, n, InTurn

\* retime_cues, on any subtitle whose cues follow one another: no cue begins or
\* ends sooner, none that could be read becomes too fast, none comes to overlap.
THEOREM RetimeKeepsCuesAnySubtitle ==
  ASSUME NEW cues, InTurn(cues)
  PROVE  LET after == Retimed(cues)
         IN /\ \A i \in DOMAIN cues :
                 /\ after[i].from >= cues[i].from /\ after[i].to >= cues[i].to
                 /\ Faster(after[i], CriticalCps) => Faster(cues[i], CriticalCps)
            /\ \A i \in 1..(Len(cues) - 1) : after[i].to <= after[i + 1].from
<1> DEFINE n == Len(cues)
           ext == Extended(cues)
           after == Retimed(cues)
<1>1. n \in Nat /\ DOMAIN cues = 1..n /\ \A i \in 1..n : cues[i] \in Cues
  BY DEF InTurn
<1>2. /\ ext \in Seq(Cues) /\ Len(ext) = n
      /\ \A i \in 1..n : /\ ext[i].from = cues[i].from /\ ext[i].chars = cues[i].chars
                         /\ ext[i].to >= cues[i].to
      /\ \A i \in 1..(n - 1) : ext[i].to <= ext[i + 1].from
  <2>1. InTurn(ext) /\ Len(ext) = n
    BY ExtensionFits
  <2> HIDE DEF ext, n
  <2>2. \A i \in 1..n : /\ ext[i].from = cues[i].from /\ ext[i].chars = cues[i].chars
                        /\ ext[i].to >= cues[i].to
    BY ExtensionFits DEF ext, n
  <2>3. QED
    BY <2>1, <2>2 DEF InTurn
<1> HIDE DEF n, ext
<1>3. \A i \in 1..n : ext[i] \in Cues
  BY <1>1, <1>2
<1>4. CASE n < 2
  <2>1. after = ext
    BY <1>4 DEF Retimed, n, ext
  <2> HIDE DEF after
  <2>2. ASSUME NEW i \in 1..n, Faster(ext[i], CriticalCps)
        PROVE  Faster(cues[i], CriticalCps)
    <3>1. ext[i].to - ext[i].from >= cues[i].to - cues[i].from
      BY <1>1, <1>2, <1>3 DEF Cues
    <3>2. QED
      BY <1>1, <1>2, <1>3, <2>2, <3>1, TimeHelps
  <2>3. \A i \in 1..n : ext[i].from >= cues[i].from
    BY <1>1, <1>2, <1>3 DEF Cues
  <2>4. QED
    BY <1>1, <1>2, <2>1, <2>2, <2>3 DEF after, n
<1>5. CASE n >= 2
  <2> DEFINE lent == Lent(ext)
             gain(i) == IF i < n THEN lent[i] ELSE 0
             moved(i) == Delayed(ext[i], lent[i - 1])
  <2>1. /\ lent \in [0..(n - 1) -> Nat] /\ lent[0] = 0
        /\ \A i \in 1..(n - 1) : lent[i] = Loan(moved(i), ext[i + 1])
    BY <1>2, <1>5, LentIsLent
  <2>2. after = [i \in 1..n |-> Prolonged(moved(i), gain(i))]
    <3>1. DOMAIN ext = 1..n /\ Len(cues) >= 2 /\ ~(Len(cues) < 2)
      BY <1>1, <1>2, <1>5 DEF n
    <3>2. QED
      BY <1>2, <3>1 DEF Retimed, Borrowed, ext
  <2> HIDE DEF lent, after
  <2>3. ASSUME NEW i \in 1..n
        PROVE  /\ lent[i - 1] \in Nat /\ gain(i) \in Nat /\ moved(i) \in Cues
               /\ after[i] \in Cues /\ after[i].chars = cues[i].chars
               /\ after[i].from = ext[i].from + lent[i - 1]
               /\ after[i].to = ext[i].to + gain(i)
    <3>1. lent[i - 1] \in Nat /\ gain(i) \in Nat
      <4>1. i - 1 \in 0..(n - 1) /\ (i < n => i \in 0..(n - 1))
        BY <1>1
      <4>2. QED
        BY <2>1, <4>1
    <3> HIDE DEF gain
    <3>2. /\ moved(i) \in Cues /\ moved(i).from = ext[i].from + lent[i - 1]
          /\ moved(i).to = ext[i].to /\ moved(i).chars = ext[i].chars
      BY <1>3, <3>1, CueMoved
    <3> HIDE DEF moved
    <3>3. after[i] = Prolonged(moved(i), gain(i))
      BY <2>2
    <3>4. /\ after[i] \in Cues /\ after[i].chars = moved(i).chars
          /\ after[i].from = moved(i).from /\ after[i].to = moved(i).to + gain(i)
      <4>1. moved(i) \in Cues /\ gain(i) \in Nat
        BY <3>1, <3>2
      <4> DEFINE m == moved(i)
                 g == gain(i)
                 p == Prolonged(m, g)
      <4>2. p \in Cues /\ p.chars = m.chars /\ p.from = m.from /\ p.to = m.to + g
        <5>1. m \in Cues /\ g \in Nat
          BY <4>1
        <5> HIDE DEF m, g
        <5>2. QED
          BY <5>1, CueMoved
      <4>3. QED
        BY <3>3, <4>2
    <3>5. ext[i].chars = cues[i].chars
      BY <1>2
    <3>6. QED
      BY <3>1, <3>2, <3>4, <3>5
  <2>4. ASSUME NEW i \in 1..n, lent[i - 1] > 0
        PROVE  ext[i].to - ext[i].from - lent[i - 1] >= TimeFor(cues[i].chars, CriticalCps)
    <3>1. i - 1 \in 1..(n - 1) /\ (i - 1) + 1 = i /\ i - 1 \in 1..n
      BY <1>1, <2>1, <2>4
    <3>2. lent[i - 1] = Loan(moved(i - 1), ext[i]) /\ moved(i - 1) \in Cues
      BY <2>1, <2>3, <3>1
    <3>3. lent[i - 1] <= ext[i].to - ext[i].from - TimeFor(ext[i].chars, CriticalCps)
      BY <1>3, <2>4, <3>2, LoanIsTime
    <3>4. TimeFor(cues[i].chars, CriticalCps) \in Int /\ ext[i].chars = cues[i].chars
      BY <1>1, <1>2 DEF Cues, TimeFor, CriticalCps
    <3>5. lent[i - 1] \in Int /\ ext[i].to \in Int /\ ext[i].from \in Int
      BY <1>3, <2>3 DEF Cues
    <3>6. QED
      BY <3>3, <3>4, <3>5
  <2>5. ASSUME NEW i \in 1..n
        PROVE  /\ after[i].from >= cues[i].from /\ after[i].to >= cues[i].to
               /\ Faster(after[i], CriticalCps) => Faster(cues[i], CriticalCps)
    <3>1. /\ cues[i].from \in Int /\ cues[i].to \in Int /\ ext[i].from \in Int /\ ext[i].to \in Int
          /\ TimeFor(cues[i].chars, CriticalCps) \in Int
      BY <1>1, <1>3 DEF Cues, TimeFor, CriticalCps
    <3>2. /\ ext[i].from = cues[i].from /\ ext[i].to >= cues[i].to
          /\ lent[i - 1] \in Nat /\ gain(i) \in Nat /\ after[i] \in Cues /\ cues[i] \in Cues
          /\ after[i].chars = cues[i].chars
          /\ after[i].from = ext[i].from + lent[i - 1] /\ after[i].to = ext[i].to + gain(i)
      BY <1>1, <1>2, <2>3
    <3> HIDE DEF gain, moved
    <3>3. after[i].from >= cues[i].from /\ after[i].to >= cues[i].to
      BY <3>1, <3>2
    <3>4. CASE lent[i - 1] = 0
      <4>1. after[i].to - after[i].from >= cues[i].to - cues[i].from
        BY <3>1, <3>2, <3>4
      <4>2. QED
        BY <3>2, <3>3, <4>1, TimeHelps
    <3>5. CASE lent[i - 1] # 0
      <4>1. lent[i - 1] > 0
        BY <3>2, <3>5
      <4>2. ext[i].to - ext[i].from - lent[i - 1] >= TimeFor(cues[i].chars, CriticalCps)
        BY <2>4, <4>1
      <4>3. after[i].to - after[i].from >= TimeFor(after[i].chars, CriticalCps)
        BY <3>1, <3>2, <4>2
      <4>4. QED
        BY <3>2, <3>3, <4>3, TimeEnough
    <3>6. QED
      BY <3>4, <3>5
  <2>6. ASSUME NEW i \in 1..(n - 1)
        PROVE  after[i].to <= after[i + 1].from
    <3>1. i \in 1..n /\ i + 1 \in 1..n /\ i < n /\ (i + 1) - 1 = i
      BY <1>1
    <3>2. /\ after[i].to = ext[i].to + lent[i] /\ after[i + 1].from = ext[i + 1].from + lent[i]
          /\ lent[i] \in Nat
      BY <2>3, <3>1
    <3>3. ext[i].to <= ext[i + 1].from /\ ext[i].to \in Int /\ ext[i + 1].from \in Int
      BY <1>2, <1>3, <3>1 DEF Cues
    <3>4. QED
      BY <3>2, <3>3
  <2>7. QED
    BY <1>1, <2>5, <2>6 DEF after, n
<1>6. QED
  BY <1>1, <1>4, <1>5

----------------------------------------------------------------------------
(* Sums over finite sets. *)

\* What the fold of SumOf computes for the parts of its domain.
Step(f, h) ==
  [s \in SUBSET DOMAIN f |->
     IF s = {} THEN 0 ELSE LET x == CHOOSE x \in s : TRUE IN f[x] + h[s \ {x}]]
Parts(f) == CHOOSE h : h = Step(f, h)

\* A sum is that of all parts.
LEMMA SumOfParts ==
  ASSUME NEW f
  PROVE  SumOf(f) = Parts(f)[DOMAIN f]
BY DEF SumOf, FoldFunction, FoldFunctionOnSet, MapThenFoldSet, Parts, Step

\* Induction over the natural numbers, for a set of them.
LEMMA EveryNumber ==
  ASSUME NEW G \in SUBSET Nat, 0 \in G, \A n \in G : n + 1 \in G
  PROVE  G = Nat
<1> SUFFICES ASSUME Nat \ G # {} PROVE FALSE
  OBVIOUS
<1> DEFINE n == LeastOf(Nat \ G)
<1>1. n \in Nat \ G /\ \A m \in Nat \ G : n <= m
  <2>1. Nat \ G \in SUBSET Nat
    OBVIOUS
  <2>2. QED
    BY <2>1, LeastPlace
<1> HIDE DEF n
<1>2. n # 0 /\ n - 1 \in Nat /\ (n - 1) + 1 = n
  BY <1>1
<1>3. n - 1 \in G
  BY <1>1, <1>2
<1>4. QED
  BY <1>1, <1>2, <1>3

\* Induction over the parts of a finite set, taking away what CHOOSE takes.
LEMMA EveryPart ==
  ASSUME NEW S, IsFiniteSet(S), NEW G, {} \in G,
         \A s \in SUBSET S : s # {} /\ s \ {CHOOSE x \in s : TRUE} \in G => s \in G
  PROVE  \A s \in SUBSET S : s \in G
<1> DEFINE N == {n \in Nat : \A s \in SUBSET S : Cardinality(s) <= n => s \in G}
<1>1. \A s \in SUBSET S : IsFiniteSet(s) /\ Cardinality(s) \in Nat
  BY FS_Subset, FS_CardinalityType
<1>2. 0 \in N
  <2>1. ASSUME NEW s \in SUBSET S, Cardinality(s) <= 0 PROVE s \in G
    <3>1. Cardinality(s) = 0
      BY <1>1, <2>1
    <3>2. s = {}
      BY <1>1, <3>1, FS_EmptySet
    <3>3. QED
      BY <3>2
  <2>2. QED
    BY <2>1
<1>3. ASSUME NEW n \in N PROVE n + 1 \in N
  <2>1. ASSUME NEW s \in SUBSET S, Cardinality(s) <= n + 1, s # {} PROVE s \in G
    <3> DEFINE x == CHOOSE x \in s : TRUE
    <3>1. x \in s
      BY <2>1
    <3> HIDE DEF x
    <3>2. Cardinality(s \ {x}) = Cardinality(s) - 1
      BY <1>1, <3>1, FS_RemoveElement
    <3>3. s \ {x} \in SUBSET S /\ Cardinality(s \ {x}) <= n
      BY <1>1, <2>1, <3>2
    <3>4. s \ {x} \in G
      BY <3>3
    <3>5. QED
      BY <2>1, <3>4 DEF x
  <2>2. QED
    BY <2>1
<1>4. N = Nat
  <2> HIDE DEF N
  <2>1. N \in SUBSET Nat
    BY DEF N
  <2>2. QED
    BY <1>2, <1>3, <2>1, EveryNumber
<1>5. QED
  <2>1. ASSUME NEW s \in SUBSET S PROVE s \in G
    <3>1. Cardinality(s) \in N
      <4> HIDE DEF N
      <4>1. QED
        BY <1>1, <1>4
    <3>2. Cardinality(s) <= Cardinality(s)
      BY <1>1
    <3>3. QED
      BY <3>1, <3>2
  <2>2. QED
    BY <2>1

\* The parts have sums, each from that of a smaller one, and these are integers.
LEMMA PartsAreSums ==
  ASSUME NEW S, IsFiniteSet(S), NEW f \in [S -> Int]
  PROVE  Parts(f) = Step(f, Parts(f)) /\ \A s \in SUBSET S : Parts(f)[s] \in Int
<1>0. DOMAIN f = S
  OBVIOUS
<1>1. \A s \in SUBSET S : IsFiniteSet(s) /\ Cardinality(s) \in Nat
  BY FS_Subset, FS_CardinalityType
<1> DEFINE Good(n) == \E h \in [SUBSET S -> Int] :
                        \A s \in SUBSET S : Cardinality(s) <= n => h[s] = Step(f, h)[s]
           N == {n \in Nat : Good(n)}
<1>2. ASSUME NEW h \in [SUBSET S -> Int]
      PROVE  /\ Step(f, h) \in [SUBSET S -> Int]
             /\ Step(f, h)[{}] = 0
             /\ \A s \in SUBSET S : s # {} =>
                  LET x == CHOOSE x \in s : TRUE
                  IN /\ x \in s /\ s \ {x} \in SUBSET S
                     /\ Step(f, h)[s] = f[x] + h[s \ {x}]
  <2>1. {} \in SUBSET S
    OBVIOUS
  <2>2. ASSUME NEW s \in SUBSET S, s # {}
        PROVE  LET x == CHOOSE x \in s : TRUE
               IN /\ x \in s /\ s \ {x} \in SUBSET S /\ f[x] \in Int /\ h[s \ {x}] \in Int
    <3> DEFINE x == CHOOSE x \in s : TRUE
    <3>1. x \in s
      BY <2>2
    <3> HIDE DEF x
    <3>2. x \in S /\ s \ {x} \in SUBSET S
      BY <3>1
    <3>3. f[x] \in Int /\ h[s \ {x}] \in Int
      BY <3>2
    <3>4. QED
      BY <3>1, <3>2, <3>3 DEF x
  <2>3. QED
    BY <1>0, <2>1, <2>2 DEF Step
<1>3. 0 \in N
  <2> DEFINE h == [s \in SUBSET S |-> 0]
  <2>1. h \in [SUBSET S -> Int]
    OBVIOUS
  <2>2. \A s \in SUBSET S : Cardinality(s) <= 0 => s = {}
    BY <1>1, FS_EmptySet
  <2>3. h[{}] = 0
    OBVIOUS
  <2> HIDE DEF h
  <2>4. Step(f, h)[{}] = 0
    BY <1>2, <2>1
  <2>5. \A s \in SUBSET S : Cardinality(s) <= 0 => h[s] = Step(f, h)[s]
    BY <2>2, <2>3, <2>4
  <2>6. QED
    BY <2>1, <2>5
<1>4. ASSUME NEW n \in N PROVE n + 1 \in N
  <2>1. PICK h \in [SUBSET S -> Int] : \A s \in SUBSET S : Cardinality(s) <= n => h[s] = Step(f, h)[s]
    OBVIOUS
  <2> DEFINE k == Step(f, h)
  <2>2. k \in [SUBSET S -> Int] /\ k[{}] = 0
    BY <1>2
  <2>3. ASSUME NEW s \in SUBSET S, Cardinality(s) <= n + 1, s # {}
        PROVE  k[s] = Step(f, k)[s]
    <3> DEFINE x == CHOOSE x \in s : TRUE
    <3>1. x \in s /\ s \ {x} \in SUBSET S /\ k[s] = f[x] + h[s \ {x}]
      BY <1>2, <2>3
    <3> HIDE DEF k
    <3>2. Step(f, k)[s] = f[x] + k[s \ {x}]
      BY <1>2, <2>2, <2>3
    <3> HIDE DEF x
    <3>3. Cardinality(s \ {x}) = Cardinality(s) - 1
      BY <1>1, <3>1, FS_RemoveElement
    <3>4. Cardinality(s \ {x}) <= n
      BY <1>1, <2>3, <3>3
    <3>5. h[s \ {x}] = k[s \ {x}]
      BY <2>1, <3>1, <3>4 DEF k
    <3>6. QED
      BY <3>1, <3>2, <3>5
  <2> HIDE DEF k
  <2>4. Step(f, k)[{}] = 0
    BY <1>2, <2>2
  <2>5. \A s \in SUBSET S : Cardinality(s) <= n + 1 => k[s] = Step(f, k)[s]
    BY <2>2, <2>3, <2>4
  <2>6. Good(n + 1)
    BY <2>2, <2>5
  <2>7. QED
    BY <2>6
<1>5. Good(Cardinality(S))
  <2>1. N \in SUBSET Nat
    OBVIOUS
  <2> HIDE DEF N
  <2>2. N = Nat
    BY <1>3, <1>4, <2>1, EveryNumber
  <2>3. Cardinality(S) \in N
    BY <1>1, <2>2
  <2>4. QED
    BY <2>3 DEF N
<1>6. PICK h \in [SUBSET S -> Int] :
        \A s \in SUBSET S : Cardinality(s) <= Cardinality(S) => h[s] = Step(f, h)[s]
  BY <1>5
<1>7. h = Step(f, h)
  <2>1. \A s \in SUBSET S : Cardinality(s) <= Cardinality(S)
    BY FS_Subset
  <2>2. \A s \in SUBSET S : h[s] = Step(f, h)[s]
    BY <1>6, <2>1
  <2>3. Step(f, h) \in [SUBSET S -> Int]
    BY <1>2
  <2>4. QED
    BY <2>2, <2>3
<1> DEFINE p == Parts(f)
<1>8. p = Step(f, p)
  BY <1>7 DEF Parts
<1> HIDE DEF p
<1> DEFINE G == {s \in SUBSET S : p[s] \in Int}
<1>9. \A s \in SUBSET S : s \in G
  <2>1. p[{}] = 0
    <3>1. Step(f, p)[{}] = 0
      BY <1>0 DEF Step
    <3>2. QED
      BY <1>8, <3>1
  <2>2. ASSUME NEW s \in SUBSET S, s # {}, s \ {CHOOSE x \in s : TRUE} \in G
        PROVE  s \in G
    <3> DEFINE x == CHOOSE x \in s : TRUE
    <3>1. Step(f, p)[s] = f[x] + p[s \ {x}]
      BY <1>0, <2>2 DEF Step
    <3>2. x \in s
      BY <2>2
    <3>3. p[s \ {x}] \in Int
      BY <2>2
    <3> HIDE DEF x
    <3>4. f[x] \in Int
      BY <3>2
    <3>5. p[s] \in Int
      BY <1>8, <3>1, <3>3, <3>4
    <3>6. QED
      BY <3>5
  <2>3. {} \in G
    BY <2>1
  <2> HIDE DEF G
  <2>4. QED
    BY <2>2, <2>3, EveryPart
<1>10. QED
  BY <1>8, <1>9 DEF p

\* A sum of integers is one.
LEMMA SumIsInt ==
  ASSUME NEW S, IsFiniteSet(S), NEW f \in [S -> Int]
  PROVE  SumOf(f) \in Int
BY PartsAreSums, SumOfParts

\* Rounding gives an integer that is as near as half.
LEMMA RoundedIsNear ==
  ASSUME NEW t \in Int, NEW n \in Nat \ {0}
  PROVE  /\ Rounded(t, n) \in Int
         /\ 2 * (n * Rounded(t, n)) <= 2 * t + n
         /\ 2 * t <= 2 * (n * Rounded(t, n)) + n
<1> DEFINE q == t \div n
           over == 2 * (t - n * q)
           up == over > n \/ (over = n /\ q % 2 = 1)
<1>1. q \in Int
  OBVIOUS
<1>2. n * q <= t /\ t < n * (q + 1)
  OBVIOUS
<1>3. Rounded(t, n) = IF up THEN q + 1 ELSE q
  BY DEF Rounded
<1> HIDE DEF q
<1>4. n * (q + 1) = n * q + n /\ n * q \in Int
  BY <1>1
<1>5. CASE up
  <2>1. Rounded(t, n) = q + 1
    BY <1>3, <1>5
  <2>2. over >= n
    BY <1>4, <1>5
  <2> DEFINE m == n * q
  <2>3. m \in Int /\ n * Rounded(t, n) = m + n
    BY <1>4, <2>1
  <2>4. 2 * (t - m) >= n /\ t < m + n
    BY <1>2, <1>4, <2>2
  <2> HIDE DEF m
  <2>5. QED
    BY <1>1, <2>1, <2>3, <2>4
<1>6. CASE ~up
  <2>1. Rounded(t, n) = q
    BY <1>3, <1>6
  <2>2. over <= n
    BY <1>4, <1>6
  <2> DEFINE m == n * q
  <2>3. m \in Int /\ n * Rounded(t, n) = m
    BY <1>4, <2>1
  <2>4. 2 * (t - m) <= n /\ m <= t
    BY <1>2, <2>2
  <2> HIDE DEF m
  <2>5. QED
    BY <1>1, <2>1, <2>3, <2>4
<1>7. QED
  BY <1>5, <1>6

\* Means of integers, in whole units or in fine ones, are integers.
LEMMA MeanIsInt ==
  ASSUME NEW t \in Int, NEW n \in Nat
  PROVE  Mean(t, n) \in Int /\ FineMean(t, n) \in Int
<1>1. CASE n = 0
  BY <1>1 DEF Mean, FineMean
<1>2. CASE n # 0
  <2>1. Rounded(t, n) \in Int
    BY <1>2, RoundedIsNear
  <2>2. Fine * t \in Int
    BY DEF Fine
  <2>3. (Fine * t) \div n \in Int
    BY <1>2, <2>2
  <2>4. QED
    BY <1>2, <2>1, <2>3 DEF Mean, FineMean
<1>3. QED
  BY <1>1, <1>2

\* What is greater everywhere has a sum that is greater by as many.
LEMMA SumMore ==
  ASSUME NEW S, IsFiniteSet(S), NEW f \in [S -> Int], NEW g \in [S -> Int],
         \A x \in S : f[x] > g[x]
  PROVE  SumOf(f) >= SumOf(g) + Cardinality(S)
<1> DEFINE p == Parts(f)
           q == Parts(g)
           G == {s \in SUBSET S : p[s] >= q[s] + Cardinality(s)}
<1>1. /\ p = Step(f, p) /\ q = Step(g, q)
      /\ \A s \in SUBSET S : p[s] \in Int /\ q[s] \in Int
  BY PartsAreSums
<1>2. \A s \in SUBSET S : IsFiniteSet(s) /\ Cardinality(s) \in Nat
  BY FS_Subset, FS_CardinalityType
<1> HIDE DEF p, q
<1>3. {} \in G
  <2>1. Step(f, p)[{}] = 0 /\ Step(g, q)[{}] = 0
    BY DEF Step
  <2>2. p[{}] = 0 /\ q[{}] = 0 /\ Cardinality({}) = 0
    BY <1>1, <2>1, FS_EmptySet
  <2>3. QED
    BY <2>2
<1>4. ASSUME NEW s \in SUBSET S, s # {}, s \ {CHOOSE x \in s : TRUE} \in G
      PROVE  s \in G
  <2> DEFINE x == CHOOSE x \in s : TRUE
  <2>1. Step(f, p)[s] = f[x] + p[s \ {x}] /\ Step(g, q)[s] = g[x] + q[s \ {x}]
    BY <1>4 DEF Step
  <2>2. x \in s
    BY <1>4
  <2>3. p[s \ {x}] >= q[s \ {x}] + Cardinality(s \ {x})
    BY <1>4
  <2> HIDE DEF x
  <2>4. Cardinality(s \ {x}) = Cardinality(s) - 1
    BY <1>2, <2>2, FS_RemoveElement
  <2>5. /\ f[x] \in Int /\ g[x] \in Int /\ f[x] > g[x] /\ s \ {x} \in SUBSET S
    BY <2>2
  <2>6. p[s] = f[x] + p[s \ {x}] /\ q[s] = g[x] + q[s \ {x}]
    BY <1>1, <2>1
  <2>7. p[s \ {x}] \in Int /\ q[s \ {x}] \in Int /\ Cardinality(s) \in Nat
    BY <1>1, <1>2, <2>5
  <2>8. QED
    BY <2>3, <2>4, <2>5, <2>6, <2>7
<1> HIDE DEF G
<1>5. \A s \in SUBSET S : s \in G
  BY <1>3, <1>4, EveryPart
<1>6. p[S] >= q[S] + Cardinality(S)
  BY <1>5 DEF G
<1>7. QED
  BY <1>6, SumOfParts DEF p, q

\* A rounded mean of as many integers that are greater one by one is not less, and
\* where they are greater by two, it is greater.
LEMMA MeanMore ==
  ASSUME NEW S, IsFiniteSet(S), S # {}, NEW f \in [S -> Int], NEW g \in [S -> Int],
         \A x \in S : f[x] > g[x]
  PROVE  /\ Mean(SumOf(f), Cardinality(S)) >= Mean(SumOf(g), Cardinality(S))
         /\ (\A x \in S : f[x] > g[x] + 1) =>
              Mean(SumOf(f), Cardinality(S)) > Mean(SumOf(g), Cardinality(S))
<1> DEFINE a == SumOf(f)
           b == SumOf(g)
           n == Cardinality(S)
           q == Rounded(a, n)
           r == Rounded(b, n)
<1>1. a \in Int /\ b \in Int /\ a >= b + n
  BY SumIsInt, SumMore
<1>2. n \in Nat \ {0}
  BY FS_CardinalityType, FS_EmptySet
<1>3. ASSUME \A x \in S : f[x] > g[x] + 1 PROVE a >= b + 2 * n
  <2> DEFINE h == [x \in S |-> g[x] + 1]
  <2>1. h \in [S -> Int] /\ (\A x \in S : f[x] > h[x]) /\ \A x \in S : h[x] > g[x]
    BY <1>3
  <2> HIDE DEF h
  <2>2. SumOf(h) \in Int /\ SumOf(f) >= SumOf(h) + n /\ SumOf(h) >= SumOf(g) + n
    BY <2>1, SumIsInt, SumMore
  <2>3. QED
    BY <1>1, <1>2, <2>2
<1>4. /\ q \in Int /\ 2 * a <= 2 * (n * q) + n
      /\ r \in Int /\ 2 * (n * r) <= 2 * b + n
  <2> HIDE DEF a, b, n
  <2>1. QED
    BY <1>1, <1>2, RoundedIsNear
<1>5. Mean(a, n) = q /\ Mean(b, n) = r
  BY <1>2 DEF Mean
<1> HIDE DEF a, b, n, q, r
<1>6. n * q \in Int /\ n * r \in Int
  BY <1>2, <1>4
<1>7. ASSUME q < r PROVE FALSE
  <2>1. n * (q + 1) <= n * r
    BY <1>2, <1>4, <1>7
  <2>2. n * (q + 1) = n * q + n
    BY <1>2, <1>4
  <2>3. QED
    BY <1>1, <1>2, <1>4, <1>6, <2>1, <2>2
<1>8. ASSUME a >= b + 2 * n, q <= r PROVE FALSE
  <2>1. n * q <= n * r
    BY <1>2, <1>4, <1>8
  <2>2. QED
    BY <1>1, <1>2, <1>4, <1>6, <1>8, <2>1
<1>9. q >= r /\ (a >= b + 2 * n => q > r)
  BY <1>4, <1>7, <1>8
<1>10. Mean(a, n) >= Mean(b, n) /\ (a >= b + 2 * n => Mean(a, n) > Mean(b, n))
  BY <1>5, <1>9
<1>11. QED
  BY <1>3, <1>10 DEF a, b, n

----------------------------------------------------------------------------
(* The ranking of recipes. *)

\* Sweeps: so many, and of each recipe that was tried the mean it had.
SweepsOK(sweeps) ==
  IsFiniteSet(sweeps) /\ \A s \in sweeps : s.means \in [DOMAIN s.means -> Int]
TriedIn(sweeps, l) == {s.language : s \in {t \in sweeps : l \in DOMAIN t.means}} \ {"und"}

\* The mean of a recipe over the sweeps of a file is an integer.
LEMMA FileMeansAreInts ==
  ASSUME NEW sweeps, SweepsOK(sweeps), NEW own, own \subseteq sweeps,
         NEW l \in DOMAIN FileMeans(own)
  PROVE  FileMeans(own)[l] \in Int
<1> DEFINE tried == {s \in own : l \in DOMAIN s.means}
<1>1. IsFiniteSet(tried) /\ tried \subseteq sweeps
  BY FS_Subset DEF SweepsOK
<1>2. [s \in tried |-> s.means[l]] \in [tried -> Int]
  BY <1>1 DEF SweepsOK
<1>3. FileMeans(own)[l] = FineMean(SumOf([s \in tried |-> s.means[l]]), Cardinality(tried))
  BY DEF FileMeans
<1> HIDE DEF tried
<1>4. SumOf([s \in tried |-> s.means[l]]) \in Int /\ Cardinality(tried) \in Nat
  BY <1>1, <1>2, SumIsInt, FS_CardinalityType
<1>5. QED
  BY <1>3, <1>4, MeanIsInt

\* A language ranks the recipes that were tried in it, each with an integer mean
\* and a number of files that it won.
LEMMA LanguageRanks ==
  ASSUME NEW sweeps, SweepsOK(sweeps), NEW l, NEW g \in TriedIn(sweeps, l)
  PROVE  /\ ByLanguage(sweeps, g)[l].mean \in Int
         /\ ByLanguage(sweeps, g)[l].wins \in Nat
<1> DEFINE own(p) == SweepsOfFile(sweeps, g, p)
           paths == PathsSwept(sweeps, g)
           files == [p \in paths |-> FileRow(own(p), FileMeans(own(p)))]
           tried == {p \in DOMAIN files : l \in DOMAIN files[p].means}
<1>1. IsFiniteSet(paths)
  <2> DEFINE here == {t \in sweeps : t.language = g}
             name == [s \in here |-> s.path]
  <2>1. IsFiniteSet(here)
    BY FS_Subset DEF SweepsOK
  <2>2. name \in Surjection(here, paths)
    BY DEF PathsSwept, Surjection
  <2> HIDE DEF here, name
  <2>3. QED
    BY <2>1, <2>2, FS_Surjection
<1>2. /\ DOMAIN files = paths
      /\ \A p \in paths : files[p].means = FileMeans(own(p))
  BY DEF FileRow
<1>3. \A p \in paths : own(p) \subseteq sweeps
  BY DEF SweepsOfFile
<1>4. PICK t \in sweeps : l \in DOMAIN t.means /\ t.language = g
  BY DEF TriedIn
<1>5. t.path \in paths /\ t \in own(t.path)
  BY <1>4 DEF PathsSwept, SweepsOfFile
<1>6. l \in DOMAIN FileMeans(own(t.path))
  BY <1>4, <1>5 DEF FileMeans
<1>7. ByLanguage(sweeps, g) = LanguageRows(files)
  BY DEF ByLanguage
<1> HIDE DEF own, paths, files
<1>8. IsFiniteSet(tried) /\ tried \subseteq paths
  BY <1>1, <1>2, FS_Subset
<1>9. \A p \in tried : files[p].means[l] \in Int
  BY <1>2, <1>3, <1>8, FileMeansAreInts
<1>10. l \in UNION {DOMAIN files[p].means : p \in DOMAIN files}
  BY <1>2, <1>5, <1>6
<1>11. LanguageRows(files)[l] =
         [files |-> Cardinality(tried), wins |-> Cardinality({p \in tried : files[p].winner = l}),
          mean |-> Mean(SumOf([p \in tried |-> files[p].means[l]]), Fine * Cardinality(tried))]
  BY <1>10 DEF LanguageRows
<1> HIDE DEF tried
<1>12. Cardinality({p \in tried : files[p].winner = l}) \in Nat
  <2>1. IsFiniteSet({p \in tried : files[p].winner = l})
    BY <1>8, FS_Subset
  <2>2. QED
    BY <2>1, FS_CardinalityType
<1>13. Mean(SumOf([p \in tried |-> files[p].means[l]]), Fine * Cardinality(tried)) \in Int
  <2>1. [p \in tried |-> files[p].means[l]] \in [tried -> Int]
    BY <1>9
  <2>2. SumOf([p \in tried |-> files[p].means[l]]) \in Int
    BY <1>8, <2>1, SumIsInt
  <2>3. Fine * Cardinality(tried) \in Nat
    BY <1>8, FS_CardinalityType DEF Fine
  <2>4. QED
    BY <2>2, <2>3, MeanIsInt
<1>14. QED
  BY <1>7, <1>11, <1>12, <1>13

\* A recipe has a row over all its languages, with integers.
LEMMA OverallIsInt ==
  ASSUME NEW sweeps, SweepsOK(sweeps), NEW l, NEW least
  PROVE  LET tried == TriedIn(sweeps, l)
             row == Overall(sweeps, l, least)
         IN /\ IsFiniteSet(tried)
            /\ [g \in tried |-> ByLanguage(sweeps, g)[l].mean] \in [tried -> Int]
            /\ row.mean = Mean(SumOf([g \in tried |-> ByLanguage(sweeps, g)[l].mean]), Cardinality(tried))
            /\ row.mean \in Int /\ row.wins \in Int
            /\ row.eligible = (Cardinality(tried) >= least)
<1> DEFINE tried == TriedIn(sweeps, l)
           of == [g \in tried |-> ByLanguage(sweeps, g)[l]]
           means == [g \in tried |-> ByLanguage(sweeps, g)[l].mean]
           wins == [g \in tried |-> ByLanguage(sweeps, g)[l].wins]
           row == Overall(sweeps, l, least)
<1>1. IsFiniteSet(tried)
  <2> DEFINE here == {t \in sweeps : l \in DOMAIN t.means}
             spoken == {s.language : s \in here}
             of2 == [s \in here |-> s.language]
  <2>1. IsFiniteSet(here)
    BY FS_Subset DEF SweepsOK
  <2>2. of2 \in Surjection(here, spoken)
    BY DEF Surjection
  <2>3. tried \subseteq spoken
    BY DEF TriedIn
  <2> HIDE DEF here, spoken, of2, tried
  <2>4. IsFiniteSet(spoken)
    BY <2>1, <2>2, FS_Surjection
  <2>5. QED
    BY <2>3, <2>4, FS_Subset
<1>2. means \in [tried -> Int] /\ wins \in [tried -> Int]
  BY LanguageRanks
<1>3. row = OverallRow(of, least)
  BY DEF Overall, TriedIn
<1> HIDE DEF tried
<1>4. DOMAIN of = tried /\ [g \in DOMAIN of |-> of[g].mean] = means
      /\ [g \in DOMAIN of |-> of[g].wins] = wins
  OBVIOUS
<1> HIDE DEF of, means, wins
<1>5. /\ OverallRow(of, least).mean = Mean(SumOf(means), Cardinality(tried))
      /\ OverallRow(of, least).wins = SumOf(wins)
      /\ OverallRow(of, least).eligible = (Cardinality(tried) >= least)
  BY <1>4 DEF OverallRow
<1>6. Mean(SumOf(means), Cardinality(tried)) \in Int /\ SumOf(wins) \in Int
  BY <1>1, <1>2, MeanIsInt, SumIsInt, FS_CardinalityType
<1> HIDE DEF row
<1>7. /\ row.mean = Mean(SumOf(means), Cardinality(tried))
      /\ row.mean \in Int /\ row.wins \in Int
      /\ row.eligible = (Cardinality(tried) >= least)
  BY <1>3, <1>5, <1>6
<1>8. QED
  BY <1>1, <1>2, <1>7 DEF tried, means, row

\* aggregate_global_leaderboard: of two recipes that were tried in the same
\* languages, in enough of them, the one whose mean is better in each has no lower
\* overall mean, for any sweeps of any number of files. It is ranked before the
\* other if its overall mean is higher or, where rounding makes them the same, its
\* wins are more; a lead of two hundredths in each language is enough.
THEOREM BetterEverywhereRanksBefore ==
  ASSUME NEW sweeps, SweepsOK(sweeps), NEW labels, IsFiniteSet(labels),
         NEW k \in labels, NEW l \in labels, NEW least \in Nat \ {0},
         TriedIn(sweeps, k) = TriedIn(sweeps, l),
         Cardinality(TriedIn(sweeps, k)) >= least,
         \A g \in TriedIn(sweeps, k) :
           ByLanguage(sweeps, g)[k].mean > ByLanguage(sweeps, g)[l].mean
  PROVE  LET krow == Overall(sweeps, k, least)
             lrow == Overall(sweeps, l, least)
             before == RankOf(sweeps, labels, k, least) < RankOf(sweeps, labels, l, least)
         IN /\ krow.mean >= lrow.mean
            /\ krow.mean > lrow.mean \/ krow.wins > lrow.wins => before
            /\ (\A g \in TriedIn(sweeps, k) :
                  ByLanguage(sweeps, g)[k].mean > ByLanguage(sweeps, g)[l].mean + 1) => before
<1> DEFINE tried == TriedIn(sweeps, k)
           rows == [j \in labels |-> Overall(sweeps, j, least)]
           above(m) == {j \in DOMAIN rows : /\ rows[j].eligible
                                           /\ \/ rows[j].mean > rows[m].mean
                                              \/ rows[j].mean = rows[m].mean /\ rows[j].wins > rows[m].wins}
           kmeans == [g \in tried |-> ByLanguage(sweeps, g)[k].mean]
           lmeans == [g \in tried |-> ByLanguage(sweeps, g)[l].mean]
<1>1. \A j \in labels : rows[j] = Overall(sweeps, j, least)
  OBVIOUS
<1>2. \A j \in labels : rows[j].mean \in Int /\ rows[j].wins \in Int
  BY <1>1, OverallIsInt
<1>3. /\ IsFiniteSet(tried) /\ kmeans \in [tried -> Int]
      /\ rows[k].mean = Mean(SumOf(kmeans), Cardinality(tried)) /\ rows[k].eligible
  BY <1>1, OverallIsInt
<1>4. /\ lmeans \in [tried -> Int]
      /\ rows[l].mean = Mean(SumOf(lmeans), Cardinality(tried)) /\ rows[l].eligible
  BY <1>1, OverallIsInt
<1>5. tried # {}
  <2>1. Cardinality(tried) # 0
    <3>1. Cardinality(tried) >= least
      OBVIOUS
    <3> HIDE DEF tried
    <3>2. QED
      BY <3>1
  <2>2. QED
    BY <2>1, FS_EmptySet
<1>6. \A g \in tried : kmeans[g] > lmeans[g]
  OBVIOUS
<1> DEFINE clear == \A g \in tried : kmeans[g] > lmeans[g] + 1
<1>7. clear = \A g \in TriedIn(sweeps, k) :
                ByLanguage(sweeps, g)[k].mean > ByLanguage(sweeps, g)[l].mean + 1
  BY DEF clear
<1> HIDE DEF tried, rows, kmeans, lmeans
<1>8. rows[k].mean >= rows[l].mean /\ (clear => rows[k].mean > rows[l].mean)
  BY <1>3, <1>4, <1>5, <1>6, MeanMore DEF clear
<1>9. DOMAIN rows = labels
  BY DEF rows
<1>10. ASSUME rows[k].mean > rows[l].mean \/ rows[k].wins > rows[l].wins
       PROVE  RankAmong(rows, k) < RankAmong(rows, l)
  <2>1. above(k) \subseteq above(l) /\ k \in above(l) /\ k \notin above(k)
    BY <1>2, <1>3, <1>8, <1>9, <1>10
  <2>2. IsFiniteSet(above(l))
    BY <1>9, FS_Subset
  <2>3. RankAmong(rows, k) = Cardinality(above(k)) + 1 /\ RankAmong(rows, l) = Cardinality(above(l)) + 1
    BY <1>3, <1>4 DEF RankAmong
  <2> HIDE DEF above
  <2>4. above(k) # above(l)
    BY <2>1
  <2>5. IsFiniteSet(above(k)) /\ Cardinality(above(k)) <= Cardinality(above(l))
        /\ (Cardinality(above(k)) = Cardinality(above(l)) => above(k) = above(l))
    BY <2>1, <2>2, FS_Subset
  <2>6. Cardinality(above(k)) \in Nat /\ Cardinality(above(l)) \in Nat
    BY <2>2, <2>5, FS_CardinalityType
  <2>7. QED
    BY <2>3, <2>4, <2>5, <2>6
<1>11. QED
  BY <1>1, <1>7, <1>8, <1>10 DEF RankOf, rows

----------------------------------------------------------------------------
(* Sequences by their places. *)

\* An order in which any two places follow one another.
InOrder(S, R) ==
  /\ \A i \in S : <<i, i>> \notin R
  /\ \A i, j, k \in S : <<i, j>> \in R /\ <<j, k>> \in R => <<i, k>> \in R
  /\ \A i, j \in S : i # j => <<i, j>> \in R \/ <<j, i>> \in R

\* The places of a finite set, each once and in their order.
InTheirOrder(S, R) ==
  /\ \A k \in 1..Cardinality(S) : Placed(S, R, k) \in S
  /\ \A k, l \in 1..Cardinality(S) : k < l => <<Placed(S, R, k), Placed(S, R, l)>> \in R
  /\ \A k, l \in 1..Cardinality(S) : Placed(S, R, k) = Placed(S, R, l) => k = l
  /\ \A i \in S : \E k \in 1..Cardinality(S) : Placed(S, R, k) = i

\* Places are found by the number of those before them.
LEMMA EachPlaceOnce ==
  ASSUME NEW S, IsFiniteSet(S), NEW R, InOrder(S, R)
  PROVE  Cardinality(S) \in Nat /\ InTheirOrder(S, R)
<1> DEFINE n == Cardinality(S)
           earlier(i) == {j \in S : <<j, i>> \in R}
           rank == [i \in S |-> Cardinality(earlier(i))]
           T == 0..(n - 1)
<1>1. n \in Nat
  BY FS_CardinalityType
<1>2. \A i \in S : IsFiniteSet(earlier(i)) /\ rank[i] \in Nat /\ rank[i] = Cardinality(earlier(i))
  <2>1. \A i \in S : IsFiniteSet(earlier(i))
    BY FS_Subset
  <2>2. QED
    BY <2>1, FS_CardinalityType
<1>3. ASSUME NEW i \in S PROVE rank[i] \in T
  <2>1. earlier(i) \subseteq S /\ i \notin earlier(i)
    BY DEF InOrder
  <2>2. rank[i] <= n /\ (n = rank[i] => S = earlier(i))
    BY <1>2, <2>1, FS_Subset
  <2> HIDE DEF rank, earlier
  <2>3. rank[i] \in Nat /\ rank[i] <= n /\ rank[i] # n
    BY <1>2, <2>1, <2>2
  <2> HIDE DEF n
  <2>4. QED
    BY <1>1, <2>3
<1>4. ASSUME NEW i \in S, NEW j \in S, <<i, j>> \in R
      PROVE  rank[i] < rank[j]
  <2>1. earlier(i) \subseteq earlier(j) /\ i \in earlier(j) /\ i \notin earlier(i)
    BY <1>4 DEF InOrder
  <2>2. rank[i] <= rank[j] /\ (rank[j] = rank[i] => earlier(j) = earlier(i))
    BY <1>2, <2>1, FS_Subset
  <2> HIDE DEF rank, earlier
  <2>3. rank[i] \in Nat /\ rank[j] \in Nat /\ rank[i] # rank[j]
    BY <1>2, <2>1, <2>2
  <2>4. QED
    BY <2>2, <2>3
<1> HIDE DEF n
<1>5. rank \in [S -> T]
  BY <1>3
<1> HIDE DEF rank, T
<1>6. \A i, j \in S : rank[i] = rank[j] => i = j
  <2>1. ASSUME NEW i \in S, NEW j \in S, rank[i] = rank[j], i # j PROVE FALSE
    <3>1. <<i, j>> \in R \/ <<j, i>> \in R
      BY <2>1 DEF InOrder
    <3>2. rank[i] \in Nat /\ rank[j] \in Nat
      BY <1>2
    <3>3. QED
      BY <1>4, <2>1, <3>1, <3>2
  <2>2. QED
    BY <2>1
<1>7. IsFiniteSet(T) /\ Cardinality(T) = n
  BY <1>1, FS_Interval DEF T
<1>8. rank \in Surjection(S, T)
  <2>1. rank \in Injection(S, T)
    BY <1>5, <1>6 DEF Injection, IsInjective
  <2>2. QED
    BY <1>7, <2>1, FS_Injection DEF n
<1>9. \A k \in 1..n : \E i \in S : rank[i] = k - 1
  <2>1. \A k \in 1..n : k - 1 \in T
    BY <1>1 DEF T
  <2>2. QED
    BY <1>8, <2>1 DEF Surjection
<1>10. \A k \in 1..n : Placed(S, R, k) \in S /\ rank[Placed(S, R, k)] = k - 1
  <2>1. ASSUME NEW k \in 1..n PROVE Placed(S, R, k) \in S /\ rank[Placed(S, R, k)] = k - 1
    <3>1. \E i \in S : Cardinality({j \in S : <<j, i>> \in R}) = k - 1
      BY <1>2, <1>9
    <3> DEFINE at == Placed(S, R, k)
    <3>2. at \in S /\ Cardinality({j \in S : <<j, at>> \in R}) = k - 1
      BY <3>1 DEF Placed
    <3> HIDE DEF at
    <3>3. QED
      BY <1>2, <3>2 DEF at
  <2>2. QED
    BY <2>1
<1>11. ASSUME NEW k \in 1..n, NEW l \in 1..n, Placed(S, R, k) = Placed(S, R, l)
       PROVE  k = l
  <2>1. k - 1 = l - 1
    BY <1>10, <1>11
  <2>2. QED
    BY <1>1, <2>1
<1>12. ASSUME NEW k \in 1..n, NEW l \in 1..n, k < l
       PROVE  <<Placed(S, R, k), Placed(S, R, l)>> \in R
  <2> DEFINE a == Placed(S, R, k)
             b == Placed(S, R, l)
  <2>1. a \in S /\ b \in S /\ rank[a] = k - 1 /\ rank[b] = l - 1
    BY <1>10
  <2> HIDE DEF a, b
  <2>2. a # b /\ ~(rank[b] < rank[a])
    BY <1>1, <1>12, <2>1
  <2>3. <<a, b>> \in R
    BY <1>4, <2>1, <2>2 DEF InOrder
  <2>4. QED
    BY <2>3 DEF a, b
<1>13. ASSUME NEW i \in S PROVE \E k \in 1..n : Placed(S, R, k) = i
  <2>1. rank[i] + 1 \in 1..n /\ (rank[i] + 1) - 1 = rank[i]
    <3>1. rank[i] \in T
      BY <1>5
    <3>2. QED
      BY <1>1, <3>1 DEF T
  <2>2. Placed(S, R, rank[i] + 1) \in S /\ rank[Placed(S, R, rank[i] + 1)] = rank[i]
    BY <1>10, <2>1
  <2>3. Placed(S, R, rank[i] + 1) = i
    BY <1>6, <2>2
  <2>4. QED
    BY <2>1, <2>3
<1>14. QED
  BY <1>1, <1>10, <1>11, <1>12, <1>13 DEF InTheirOrder, n

\* Numbers ascend.
LEMMA NumbersAscend ==
  ASSUME NEW S \in SUBSET Int
  PROVE  InOrder(S, Ascending(S))
<1>1. \A i, j \in S : <<i, j>> \in Ascending(S) <=> i < j
  BY DEF Ascending
<1>2. QED
  BY <1>1 DEF InOrder

\* Where a number is among pages of equal size.
LEMMA PagesOf ==
  ASSUME NEW c \in Nat, NEW d \in Nat \ {0}
  PROVE  LET count == (c + d - 1) \div d
         IN /\ count \in Nat
            /\ \A a \in 0..(c - 1) : \E i \in 0..(count - 1) : i * d <= a /\ a < i * d + d
            /\ \A i, j, a \in Nat : i * d <= a /\ a < i * d + d /\ j * d <= a /\ a < j * d + d => i = j
            /\ \A i \in 0..(count - 1) : i * d + d < c <=> i + 1 \in 0..(count - 1)
<1> DEFINE count == (c + d - 1) \div d
<1>1. \A a \in Nat : a \div d \in Nat /\ (a \div d) * d <= a /\ a < (a \div d) * d + d
  OBVIOUS
<1>2. \A x, y \in Nat : x <= y => x * d <= y * d
  OBVIOUS
<1>3. \A x \in Nat : (x + 1) * d = x * d + d /\ x * d \in Nat
  OBVIOUS
<1>4. count \in Nat /\ count * d <= c + d - 1 /\ c + d - 1 < count * d + d
  <2>1. c + d - 1 \in Nat
    OBVIOUS
  <2>2. QED
    BY <1>1, <2>1
<1> HIDE DEF count
<1>5. count * d \in Nat /\ c <= count * d
  BY <1>3, <1>4
<1>6. ASSUME NEW i \in Nat, NEW j \in Nat, i * d < j * d PROVE i < j
  <2>1. ~(j <= i)
    BY <1>2, <1>3, <1>6
  <2>2. QED
    BY <2>1
<1>7. ASSUME NEW a \in 0..(c - 1)
      PROVE  \E i \in 0..(count - 1) : i * d <= a /\ a < i * d + d
  <2> DEFINE i == a \div d
  <2>1. i \in Nat /\ i * d <= a /\ a < i * d + d
    BY <1>1
  <2> HIDE DEF i
  <2>2. i * d < count * d
    BY <1>3, <1>5, <2>1
  <2>3. i < count
    BY <1>4, <1>6, <2>1, <2>2
  <2>4. i \in 0..(count - 1)
    BY <1>4, <2>1, <2>3
  <2>5. QED
    BY <2>1, <2>4
<1>8. ASSUME NEW i \in Nat, NEW j \in Nat, NEW a \in Nat,
             i * d <= a, a < i * d + d, j * d <= a, a < j * d + d
      PROVE  i = j
  <2>1. i * d < (j + 1) * d /\ j * d < (i + 1) * d
    BY <1>3, <1>8
  <2>2. i < j + 1 /\ j < i + 1
    BY <1>6, <2>1
  <2>3. QED
    BY <2>2
<1>9. ASSUME NEW i \in 0..(count - 1)
      PROVE  i * d + d < c <=> i + 1 \in 0..(count - 1)
  <2>0. i \in Nat /\ i + 1 \in Nat /\ i + 2 \in Nat /\ i < count
    BY <1>4
  <2>1. (i + 1) * d = i * d + d /\ (i + 2) * d = i * d + d + d /\ i * d \in Nat
    BY <1>3, <2>0
  <2>2. CASE i * d + d < c
    <3>1. (i + 1) * d < count * d
      BY <1>5, <2>1, <2>2
    <3>2. i + 1 < count
      BY <1>4, <1>6, <2>0, <3>1
    <3>3. QED
      BY <1>4, <2>0, <2>2, <3>2
  <2>3. CASE i + 1 \in 0..(count - 1)
    <3>1. i + 2 <= count
      BY <1>4, <2>0, <2>3
    <3>2. (i + 2) * d <= count * d
      BY <1>2, <1>4, <2>0, <3>1
    <3>3. i * d + d < c
      BY <1>4, <1>5, <2>1, <3>2
    <3>4. QED
      BY <2>3, <3>3
  <2>4. QED
    BY <2>2, <2>3
<1>10. QED
  BY <1>4, <1>7, <1>8, <1>9 DEF count

\* What pages show of a sequence: at each place of a page, one of its rows.
Shown(s, P, U, R) ==
  UNION {{[page |-> p, place |-> k, row |-> Picked(s, U[p], R[p])[k]] :
            k \in DOMAIN Picked(s, U[p], R[p])} : p \in P}

\* What is laid out page by page, each page in an order of its own, is laid out
\* whole.
LEMMA LaidOut ==
  ASSUME NEW n \in Nat, NEW s, NEW P, NEW U \in [P -> SUBSET (1..n)], NEW R,
         \A i \in 1..n : \E p \in P : i \in U[p],
         \A i \in 1..n : \A p, q \in P : i \in U[p] /\ i \in U[q] => p = q,
         \A p \in P : InOrder(U[p], R[p])
  PROVE  /\ {x.row : x \in Shown(s, P, U, R)} = {s[i] : i \in 1..n}
         /\ Cardinality(Shown(s, P, U, R)) = n
         /\ \A x \in Shown(s, P, U, R) : x.page \in P /\ \E i \in U[x.page] : x.row = s[i]
<1> DEFINE at(p, k) == Placed(U[p], R[p], k)
           size(p) == Cardinality(U[p])
           rec(p, k) == [page |-> p, place |-> k, row |-> s[at(p, k)]]
           items(p) == Picked(s, U[p], R[p])
           shown == Shown(s, P, U, R)
<1>1. ASSUME NEW p \in P
      PROVE  /\ size(p) \in Nat
             /\ \A k \in 1..size(p) : at(p, k) \in U[p]
             /\ \A k, l \in 1..size(p) : at(p, k) = at(p, l) => k = l
             /\ \A i \in U[p] : \E k \in 1..size(p) : at(p, k) = i
  <2>1. IsFiniteSet(U[p])
    <3>1. IsFiniteSet(1..n) /\ U[p] \in SUBSET (1..n)
      BY FS_Interval
    <3>2. QED
      BY <3>1, FS_Subset
  <2>2. size(p) \in Nat /\ InTheirOrder(U[p], R[p])
    BY <2>1, EachPlaceOnce
  <2>3. QED
    BY <2>2 DEF InTheirOrder
<1>2. \A p : DOMAIN items(p) = 1..size(p) /\ \A k \in 1..size(p) : items(p)[k] = s[at(p, k)]
  BY DEF Picked
<1> HIDE DEF at, size, items
<1>3. \A x : x \in shown <=> \E p \in P : \E k \in 1..size(p) : x = rec(p, k)
  <2> DEFINE item(p, k) == [page |-> p, place |-> k, row |-> items(p)[k]]
  <2>1. \A x : x \in shown <=> \E p \in P : \E k \in DOMAIN items(p) : x = item(p, k)
    BY DEF Shown, items
  <2>2. \A p \in P : \A k \in 1..size(p) : item(p, k) = rec(p, k)
    BY <1>2
  <2>3. \A p \in P : DOMAIN items(p) = 1..size(p)
    BY <1>2
  <2> HIDE DEF shown, rec, item
  <2>4. ASSUME NEW x \in shown PROVE \E p \in P : \E k \in 1..size(p) : x = rec(p, k)
    <3>1. PICK p \in P : \E k \in DOMAIN items(p) : x = item(p, k)
      BY <2>1
    <3>2. PICK k \in DOMAIN items(p) : x = item(p, k)
      BY <3>1
    <3>3. k \in 1..size(p) /\ x = rec(p, k)
      BY <2>2, <2>3, <3>2
    <3>4. QED
      BY <3>3
  <2>5. ASSUME NEW p \in P, NEW k \in 1..size(p) PROVE rec(p, k) \in shown
    <3>1. k \in DOMAIN items(p) /\ rec(p, k) = item(p, k)
      BY <2>2, <2>3
    <3>2. QED
      BY <2>1, <3>1
  <2>6. QED
    BY <2>4, <2>5
<1> HIDE DEF shown
<1> DEFINE f == [x \in shown |-> at(x.page, x.place)]
<1>4. ASSUME NEW x \in shown
      PROVE  /\ x.page \in P /\ x.place \in 1..size(x.page) /\ x = rec(x.page, x.place)
             /\ f[x] \in U[x.page] /\ f[x] \in 1..n /\ x.row = s[f[x]]
  <2>1. PICK p \in P : \E k \in 1..size(p) : x = rec(p, k)
    BY <1>3
  <2>2. PICK k \in 1..size(p) : x = rec(p, k)
    BY <2>1
  <2>3. x.page = p /\ x.place = k /\ x.row = s[at(p, k)] /\ f[x] = at(p, k)
    BY <2>2
  <2>4. at(p, k) \in U[p] /\ U[p] \subseteq 1..n
    BY <1>1
  <2>5. QED
    BY <2>2, <2>3, <2>4
<1>5. \A x, y \in shown : f[x] = f[y] => x = y
  <2>1. ASSUME NEW x \in shown, NEW y \in shown, f[x] = f[y] PROVE x = y
    <3>1. x.page = y.page
      BY <1>4, <2>1
    <3>2. at(x.page, x.place) = at(x.page, y.place)
      BY <2>1, <3>1
    <3>3. x.place = y.place
      BY <1>1, <1>4, <3>1, <3>2
    <3>4. QED
      BY <1>4, <3>1, <3>3
  <2>2. QED
    BY <2>1
<1>6. \A i \in 1..n : \E x \in shown : f[x] = i
  <2>1. ASSUME NEW i \in 1..n PROVE \E x \in shown : f[x] = i
    <3>1. PICK p \in P : i \in U[p]
      OBVIOUS
    <3>2. PICK k \in 1..size(p) : at(p, k) = i
      BY <1>1, <3>1
    <3>3. rec(p, k) \in shown
      BY <1>3
    <3>4. QED
      BY <3>2, <3>3
  <2>2. QED
    BY <2>1
<1>7. Cardinality(shown) = n
  <2>1. f \in Injection(shown, 1..n) /\ f \in Surjection(shown, 1..n)
    BY <1>4, <1>5, <1>6 DEF Injection, Surjection, IsInjective
  <2>2. IsFiniteSet(1..n) /\ Cardinality(1..n) = n
    BY FS_Interval
  <2> HIDE DEF f
  <2>3. QED
    BY <2>1, <2>2, FS_Injection
<1>8. {x.row : x \in shown} = {s[i] : i \in 1..n}
  <2> HIDE DEF f
  <2>1. QED
    BY <1>4, <1>6
<1>9. \A x \in shown : x.page \in P /\ \E i \in U[x.page] : x.row = s[i]
  BY <1>4
<1>10. QED
  BY <1>7, <1>8, <1>9 DEF shown

\* The groups of the rows share nothing, leave nothing out, and come one after
\* the other: by the first place of each.
LEMMA GroupsInOrder ==
  ASSUME NEW n \in Nat, NEW rows, DOMAIN rows = 1..n
  PROVE  LET G == GroupsOf(rows)
             before(g, h) == \E i \in g : \A j \in h : i < j
             R == {p \in G \X G : before(p[1], p[2])}
         IN /\ IsFiniteSet(G) /\ InOrder(G, R)
            /\ \A g \in G : g \subseteq 1..n
            /\ \A i \in 1..n : \E g \in G : i \in g
            /\ \A g, h \in G : \A i \in g, j \in h : GroupKey(rows[i]) = GroupKey(rows[j]) => g = h
<1> DEFINE G == GroupsOf(rows)
           before(g, h) == \E i \in g : \A j \in h : i < j
           R == {p \in G \X G : before(p[1], p[2])}
           key == [i \in 1..n |-> GroupKey(rows[i])]
           of == [i \in 1..n |-> {j \in 1..n : key[j] = key[i]}]
<1>1. \A g : g \in G <=> \E i \in 1..n : g = of[i]
  <2>1. G = {{j \in 1..n : GroupKey(rows[j]) = GroupKey(rows[i])} : i \in 1..n}
    BY DEF GroupsOf
  <2>2. \A i \in 1..n : {j \in 1..n : GroupKey(rows[j]) = GroupKey(rows[i])} = of[i]
    OBVIOUS
  <2> HIDE DEF G, of
  <2>3. QED
    BY <2>1, <2>2
<1>2. \A i, j \in 1..n : (j \in of[i] <=> key[j] = key[i]) /\ of[i] \subseteq 1..n /\ i \in of[i]
  OBVIOUS
<1>3. \A i, j \in 1..n : key[i] = key[j] => of[i] = of[j]
  OBVIOUS
<1>4. \A i \in 1..n : key[i] = GroupKey(rows[i])
  OBVIOUS
<1> HIDE DEF G, of, key
<1>5. IsFiniteSet(G)
  <2>1. of \in Surjection(1..n, G)
    <3>1. \A i \in 1..n : of[i] \in G
      BY <1>1
    <3>2. of \in [1..n -> G]
      BY <3>1 DEF of
    <3>3. QED
      BY <1>1, <3>2 DEF Surjection
  <2>2. QED
    BY <2>1, FS_Interval, FS_Surjection
<1>6. \A g \in G : g \subseteq 1..n /\ \E i \in 1..n : i \in g
  BY <1>1, <1>2
<1>7. \A g, h \in G : \A i \in g, j \in h : key[i] = key[j] => g = h
  <2>1. ASSUME NEW g \in G, NEW h \in G, NEW i \in g, NEW j \in h, key[i] = key[j] PROVE g = h
    <3>1. PICK k \in 1..n : g = of[k]
      BY <1>1
    <3>2. PICK l \in 1..n : h = of[l]
      BY <1>1
    <3>3. i \in 1..n /\ j \in 1..n /\ key[i] = key[k] /\ key[j] = key[l]
      BY <1>2, <3>1, <3>2
    <3>4. QED
      BY <1>3, <2>1, <3>1, <3>2, <3>3
  <2>2. QED
    BY <2>1
<1> DEFINE first == [g \in G |-> CHOOSE i \in g : \A j \in g : i <= j]
<1>8. ASSUME NEW g \in G
      PROVE  first[g] \in g /\ first[g] \in 1..n /\ \A j \in g : first[g] <= j
  <2>1. g \subseteq 1..n /\ g # {}
    BY <1>6
  <2>2. \E i \in g : \A j \in g : i <= j
    <3>1. g \in SUBSET Nat /\ g # {}
      BY <2>1
    <3>2. QED
      BY <3>1, LeastPlace
  <2>3. QED
    BY <2>1, <2>2
<1> HIDE DEF first
<1>9. \A g, h \in G : before(g, h) <=> first[g] < first[h]
  <2>1. ASSUME NEW g \in G, NEW h \in G PROVE before(g, h) <=> first[g] < first[h]
    <3>1. ASSUME before(g, h) PROVE first[g] < first[h]
      <4>1. PICK i \in g : \A j \in h : i < j
        BY <3>1
      <4>2. i \in 1..n /\ first[g] <= i /\ i < first[h]
        BY <1>6, <1>8, <4>1
      <4>3. QED
        BY <1>8, <4>2
    <3>2. ASSUME first[g] < first[h] PROVE before(g, h)
      <4>1. \A j \in h : j \in 1..n /\ first[h] <= j
        BY <1>6, <1>8
      <4>2. \A j \in h : first[g] < j
        BY <1>8, <3>2, <4>1
      <4>3. QED
        BY <1>8, <4>2
    <3>3. QED
      BY <3>1, <3>2
  <2>2. QED
    BY <2>1
<1>10. \A g, h \in G : <<g, h>> \in R <=> first[g] < first[h]
  <2>1. \A g, h \in G : <<g, h>> \in R <=> before(g, h)
    OBVIOUS
  <2> HIDE DEF R, before
  <2>2. QED
    BY <1>9, <2>1
<1>11. \A g, h \in G : first[g] = first[h] => g = h
  BY <1>7, <1>8
<1> HIDE DEF R, before
<1>12. InOrder(G, R)
  <2>1. \A g, h, k \in G : <<g, h>> \in R /\ <<h, k>> \in R => <<g, k>> \in R
    BY <1>8, <1>10
  <2>2. \A g, h \in G : g # h => <<g, h>> \in R \/ <<h, g>> \in R
    BY <1>8, <1>10, <1>11
  <2>3. \A g \in G : <<g, g>> \notin R
    BY <1>8, <1>10
  <2>4. QED
    BY <2>1, <2>2, <2>3 DEF InOrder
<1>13. \A i \in 1..n : \E g \in G : i \in g
  BY <1>1, <1>2
<1>14. \A g, h \in G : \A i \in g, j \in h : GroupKey(rows[i]) = GroupKey(rows[j]) => g = h
  BY <1>4, <1>6, <1>7
<1>15. QED
  BY <1>5, <1>6, <1>12, <1>13, <1>14 DEF G, R, before

\* The number of an element in an order is below the size of the set.
LEMMA NumberFits ==
  ASSUME NEW S, IsFiniteSet(S), NEW R, InOrder(S, R), NEW i \in S
  PROVE  Cardinality({j \in S : <<j, i>> \in R}) \in 0..(Cardinality(S) - 1)
<1> DEFINE earlier == {j \in S : <<j, i>> \in R}
<1>1. earlier \subseteq S /\ i \notin earlier
  BY DEF InOrder
<1> HIDE DEF earlier
<1>2. Cardinality(S) \in Nat /\ Cardinality(earlier) \in Nat
  BY <1>1, FS_Subset, FS_CardinalityType
<1>3. Cardinality(earlier) <= Cardinality(S) /\ Cardinality(earlier) # Cardinality(S)
  BY <1>1, FS_Subset
<1>4. QED
  BY <1>2, <1>3 DEF earlier

\* The pages of _group_and_page show every row of any list once, end where they
\* say, and keep the rows of a group on one page.
THEOREM ReviewPagesAnyRows ==
  ASSUME NEW n \in Nat, NEW rows, DOMAIN rows = 1..n, NEW limit \in Nat \ {0}
  PROVE  LET page(p) == GroupPage(rows, limit, p * limit)
             pages == 0..(page(0).pages - 1)
             shown == UNION {{[page |-> p, place |-> k, row |-> page(p).items[k]] :
                                k \in DOMAIN page(p).items} : p \in pages}
         IN /\ {x.row : x \in shown} = {rows[i] : i \in 1..n} /\ Cardinality(shown) = n
            /\ \A p \in pages : page(p).more <=> p + 1 \in pages
            /\ \A x, y \in shown : GroupKey(x.row) = GroupKey(y.row) => x.page = y.page
<1> DEFINE G == GroupsOf(rows)
           before(g, h) == \E i \in g : \A j \in h : i < j
           RG == {p \in G \X G : before(p[1], p[2])}
           c == Cardinality(G)
           count == (c + limit - 1) \div limit
           P == 0..(count - 1)
           number(g) == Cardinality({h \in G : before(h, g)})
           sel(p) == {g \in G : p * limit <= number(g) /\ number(g) < p * limit + limit}
           tog(p) == {x \in (UNION sel(p)) \X (UNION sel(p)) : \E g, h \in sel(p) :
                        x[1] \in g /\ x[2] \in h /\ (before(g, h) \/ (g = h /\ x[1] < x[2]))}
           U == [p \in P |-> UNION sel(p)]
           R == [p \in P |-> tog(p)]
           page(p) == GroupPage(rows, limit, p * limit)
<1>1. \A p : /\ page(p).items = Picked(rows, UNION sel(p), tog(p))
             /\ page(p).pages = count
             /\ page(p).more <=> p * limit + limit < c
  BY DEF GroupPage
<1> HIDE DEF page
<1>2. /\ IsFiniteSet(G) /\ InOrder(G, RG)
      /\ \A g \in G : g \subseteq 1..n
      /\ \A i \in 1..n : \E g \in G : i \in g
      /\ \A g, h \in G : \A i \in g, j \in h : GroupKey(rows[i]) = GroupKey(rows[j]) => g = h
  BY GroupsInOrder
<1>3. \A g, h \in G : <<g, h>> \in RG <=> before(g, h)
  OBVIOUS
<1> HIDE DEF RG, G, before
<1>4. \A g \in G : number(g) \in 0..(c - 1)
  <2>1. ASSUME NEW g \in G PROVE number(g) \in 0..(c - 1)
    <3>1. {h \in G : before(h, g)} = {h \in G : <<h, g>> \in RG}
      BY <1>3
    <3>2. QED
      BY <1>2, <3>1, NumberFits
  <2>2. QED
    BY <2>1
<1>5. c \in Nat
  BY <1>2, FS_CardinalityType
<1> HIDE DEF c, number
<1>6. /\ count \in Nat
      /\ \A a \in 0..(c - 1) : \E p \in P : p * limit <= a /\ a < p * limit + limit
      /\ \A p, q, a \in Nat : p * limit <= a /\ a < p * limit + limit
                                /\ q * limit <= a /\ a < q * limit + limit => p = q
      /\ \A p \in P : p * limit + limit < c <=> p + 1 \in P
  BY <1>5, PagesOf
<1> HIDE DEF count
<1>7. \A g \in G : \E p \in P : g \in sel(p)
  BY <1>4, <1>6
<1>8. \A g \in G : \A p, q \in P : g \in sel(p) /\ g \in sel(q) => p = q
  <2>1. \A p \in P : p \in Nat
    BY <1>6
  <2>2. \A g \in G : number(g) \in Nat
    BY <1>4, <1>5
  <2>3. QED
    BY <1>6, <2>1, <2>2
<1>9. \A p : sel(p) \subseteq G
  OBVIOUS
<1> HIDE DEF sel
<1>10. \A g, h \in G : \A i \in g : i \in h => g = h
  BY <1>2
<1>11. \A p \in P : UNION sel(p) \subseteq 1..n
  BY <1>2, <1>9
<1>12. U \in [P -> SUBSET (1..n)]
  BY <1>11
<1>13. \A i \in 1..n : \E p \in P : i \in U[p]
  <2>1. ASSUME NEW i \in 1..n PROVE \E p \in P : i \in U[p]
    <3>1. PICK g \in G : i \in g
      BY <1>2
    <3>2. PICK p \in P : g \in sel(p)
      BY <1>7
    <3>3. QED
      BY <3>1, <3>2
  <2>2. QED
    BY <2>1
<1>14. \A i, j \in 1..n : \A p, q \in P :
         i \in U[p] /\ j \in U[q] /\ GroupKey(rows[i]) = GroupKey(rows[j]) => p = q
  <2>1. ASSUME NEW i \in 1..n, NEW j \in 1..n, NEW p \in P, NEW q \in P,
               i \in U[p], j \in U[q], GroupKey(rows[i]) = GroupKey(rows[j])
        PROVE  p = q
    <3>1. PICK g \in sel(p) : i \in g
      BY <2>1
    <3>2. PICK h \in sel(q) : j \in h
      BY <2>1
    <3>3. g \in G /\ h \in G
      BY <1>9
    <3>4. g = h
      BY <1>2, <2>1, <3>1, <3>2, <3>3
    <3>5. QED
      BY <1>8, <3>3, <3>4
  <2>2. QED
    BY <2>1
<1>15. ASSUME NEW p \in P PROVE InOrder(U[p], R[p])
  <2> DEFINE V == UNION sel(p)
  <2>1. \A i, j \in V : <<i, j>> \in tog(p) <=>
          \E g, h \in sel(p) : i \in g /\ j \in h /\ (before(g, h) \/ (g = h /\ i < j))
    OBVIOUS
  <2>2. \A i, j : <<i, j>> \in tog(p) => i \in V /\ j \in V
    OBVIOUS
  <2> HIDE DEF tog
  <2>3. \A i \in V : i \in Nat /\ \E g \in sel(p) : i \in g
    BY <1>11
  <2>4. \A i, j \in V : \A g, h \in sel(p) : i \in g /\ j \in h =>
          (<<i, j>> \in tog(p) <=> before(g, h) \/ (g = h /\ i < j))
    <3>1. ASSUME NEW i \in V, NEW j \in V, NEW g \in sel(p), NEW h \in sel(p), i \in g, j \in h
          PROVE  <<i, j>> \in tog(p) <=> before(g, h) \/ (g = h /\ i < j)
      <4>1. \A k \in sel(p) : (i \in k <=> k = g) /\ (j \in k <=> k = h)
        BY <1>9, <1>10, <3>1
      <4>2. QED
        BY <2>1, <3>1, <4>1
    <3>2. QED
      BY <3>1
  <2>5. /\ \A g \in sel(p) : ~before(g, g)
        /\ \A g, h, k \in sel(p) : before(g, h) /\ before(h, k) => before(g, k)
        /\ \A g, h \in sel(p) : g # h => before(g, h) \/ before(h, g)
    <3>1. \A g \in G : g \in G /\ <<g, g>> \notin RG
      BY <1>2 DEF InOrder
    <3>2. \A g, h, k \in G : <<g, h>> \in RG /\ <<h, k>> \in RG => <<g, k>> \in RG
      BY <1>2 DEF InOrder
    <3>3. \A g, h \in G : g # h => <<g, h>> \in RG \/ <<h, g>> \in RG
      BY <1>2 DEF InOrder
    <3>4. QED
      BY <1>3, <1>9, <3>1, <3>2, <3>3
  <2> HIDE DEF V
  <2>6. \A i \in V : <<i, i>> \notin tog(p)
    BY <2>3, <2>4, <2>5
  <2>7. ASSUME NEW i \in V, NEW j \in V, NEW k \in V, <<i, j>> \in tog(p), <<j, k>> \in tog(p)
        PROVE  <<i, k>> \in tog(p)
    <3>1. PICK g \in sel(p), h \in sel(p), l \in sel(p) : i \in g /\ j \in h /\ k \in l
      BY <2>3
    <3>2. /\ before(g, h) \/ (g = h /\ i < j)
          /\ before(h, l) \/ (h = l /\ j < k)
      BY <2>4, <2>7, <3>1
    <3>3. before(g, l) \/ (g = l /\ i < k)
      BY <2>3, <2>5, <3>2
    <3>4. QED
      BY <2>4, <3>1, <3>3
  <2>8. ASSUME NEW i \in V, NEW j \in V, i # j
        PROVE  <<i, j>> \in tog(p) \/ <<j, i>> \in tog(p)
    <3>1. PICK g \in sel(p), h \in sel(p) : i \in g /\ j \in h
      BY <2>3
    <3>2. i < j \/ j < i
      BY <2>3, <2>8
    <3>3. QED
      BY <2>4, <2>5, <3>1, <3>2
  <2>9. InOrder(V, tog(p))
    BY <2>6, <2>7, <2>8 DEF InOrder
  <2>10. QED
    BY <2>9 DEF V
<1> DEFINE shown == Shown(rows, P, U, R)
<1>16. \A p \in P : page(p).items = Picked(rows, U[p], R[p])
  BY <1>1
<1> HIDE DEF tog, U, R, P
<1>17. /\ {x.row : x \in shown} = {rows[i] : i \in 1..n}
       /\ Cardinality(shown) = n
       /\ \A x \in shown : x.page \in P /\ \E i \in U[x.page] : x.row = rows[i]
  <2>1. \A i \in 1..n : \A p, q \in P : i \in U[p] /\ i \in U[q] => p = q
    BY <1>14
  <2>2. QED
    BY <1>12, <1>13, <1>15, <2>1, LaidOut
<1>18. shown = UNION {{[page |-> p, place |-> k, row |-> page(p).items[k]] :
                         k \in DOMAIN page(p).items} : p \in P}
  BY <1>16 DEF Shown
<1>19. \A x, y \in shown : GroupKey(x.row) = GroupKey(y.row) => x.page = y.page
  <2> HIDE DEF shown
  <2>1. \A p \in P : U[p] \subseteq 1..n
    BY <1>12
  <2>2. QED
    BY <1>14, <1>17, <2>1
<1>20. \A p \in P : page(p).more <=> p + 1 \in P
  BY <1>1, <1>6
<1>21. 0..(page(0).pages - 1) = P
  BY <1>1 DEF P
<1> HIDE DEF shown
<1>22. QED
  BY <1>17, <1>18, <1>19, <1>20, <1>21 DEF page

\* Rows that are sorted are the same rows.
LEMMA SortedRowsStay ==
  ASSUME NEW n \in Nat, NEW rows, DOMAIN rows = 1..n,
         \A i \in 1..n : rows[i].title \in Int /\ rows[i].order \in Int
  PROVE  /\ DOMAIN SortedRows(rows) = 1..n
         /\ \A k \in 1..n : \E i \in 1..n : SortedRows(rows)[k] = rows[i]
<1> DEFINE S == 1..n
           lane(r) == IF r.media = "movie" THEN 1 ELSE 0
           before(r, s) ==
             \/ lane(r) < lane(s)
             \/ lane(r) = lane(s) /\ r.title < s.title
             \/ lane(r) = lane(s) /\ r.title = s.title /\ r.order < s.order
           R == {p \in S \X S : \/ before(rows[p[1]], rows[p[2]])
                                \/ ~before(rows[p[2]], rows[p[1]]) /\ p[1] < p[2]}
<1>1. SortedRows(rows) = Picked(rows, S, R)
  BY DEF SortedRows
<1>2. IsFiniteSet(S) /\ Cardinality(S) = n
  BY FS_Interval
<1>3. \A i \in S : /\ i \in Int /\ lane(rows[i]) \in Int
                   /\ rows[i].title \in Int /\ rows[i].order \in Int
  OBVIOUS
<1>4. \A i, j \in S : <<i, j>> \in R <=> before(rows[i], rows[j])
                                         \/ (~before(rows[j], rows[i]) /\ i < j)
  OBVIOUS
<1> HIDE DEF S, R, lane
<1>5. \A i, j, k \in S : before(rows[i], rows[j]) /\ before(rows[j], rows[k]) => before(rows[i], rows[k])
  BY <1>3
<1>6. \A i, j, k \in S : before(rows[i], rows[k]) => before(rows[i], rows[j]) \/ before(rows[j], rows[k])
  BY <1>3
<1>7. \A i, j \in S : ~(before(rows[i], rows[j]) /\ before(rows[j], rows[i]))
  BY <1>3
<1> HIDE DEF before
<1>8. InOrder(S, R)
  <2>1. \A i \in S : <<i, i>> \notin R
    BY <1>3, <1>4, <1>7
  <2>2. \A i, j, k \in S : <<i, j>> \in R /\ <<j, k>> \in R => <<i, k>> \in R
    BY <1>3, <1>4, <1>5, <1>6, <1>7
  <2>3. \A i, j \in S : i # j => <<i, j>> \in R \/ <<j, i>> \in R
    BY <1>3, <1>4
  <2>4. QED
    BY <2>1, <2>2, <2>3 DEF InOrder
<1>9. InTheirOrder(S, R)
  BY <1>2, <1>8, EachPlaceOnce
<1>10. \A k \in 1..n : Placed(S, R, k) \in S
  BY <1>2, <1>9 DEF InTheirOrder
<1>11. DOMAIN SortedRows(rows) = 1..n /\ \A k \in 1..n : SortedRows(rows)[k] = rows[Placed(S, R, k)]
  BY <1>1, <1>2 DEF Picked
<1>12. QED
  BY <1>10, <1>11 DEF S

----------------------------------------------------------------------------
(* The history of the queue page. *)

\* A sum to which one element contributes, or none.
LEMMA SumOne ==
  ASSUME NEW S, IsFiniteSet(S), NEW f \in [S -> Int], NEW x,
         \A y \in S : y # x => f[y] = 0
  PROVE  SumOf(f) = IF x \in S THEN f[x] ELSE 0
<1> DEFINE p == Parts(f)
           G == {s \in SUBSET S : p[s] = IF x \in s THEN f[x] ELSE 0}
<1>1. p = Step(f, p) /\ \A s \in SUBSET S : p[s] \in Int
  BY PartsAreSums
<1> HIDE DEF p
<1>2. {} \in G
  <2>1. Step(f, p)[{}] = 0
    BY DEF Step
  <2>2. QED
    BY <1>1, <2>1
<1>3. ASSUME NEW s \in SUBSET S, s # {}, s \ {CHOOSE y \in s : TRUE} \in G
      PROVE  s \in G
  <2> DEFINE y == CHOOSE y \in s : TRUE
  <2>1. Step(f, p)[s] = f[y] + p[s \ {y}]
    BY <1>3 DEF Step
  <2>2. y \in s
    BY <1>3
  <2>3. p[s \ {y}] = IF x \in s \ {y} THEN f[x] ELSE 0
    BY <1>3
  <2> HIDE DEF y
  <2>4. p[s] = f[y] + p[s \ {y}] /\ f[y] \in Int
    BY <1>1, <2>1, <2>2
  <2>5. CASE x = y
    BY <2>2, <2>3, <2>4, <2>5
  <2>6. CASE x # y
    <3>1. f[y] = 0 /\ (x \in s => f[x] \in Int)
      BY <2>2, <2>6
    <3>2. p[s] = IF x \in s THEN f[x] ELSE 0
      BY <2>3, <2>4, <2>6, <3>1
    <3>3. QED
      BY <3>2
  <2>7. QED
    BY <2>5, <2>6
<1> HIDE DEF G
<1>4. \A s \in SUBSET S : s \in G
  BY <1>2, <1>3, EveryPart
<1>5. p[S] = IF x \in S THEN f[x] ELSE 0
  BY <1>4 DEF G
<1>6. QED
  BY <1>5, SumOfParts DEF p

\* Sorting keeps every attempt, and puts the newest first.
LEMMA NewestFirstSorts ==
  ASSUME NEW n \in Nat, NEW attempts, DOMAIN attempts = 1..n,
         \A i \in 1..n : attempts[i].at \in Int
  PROVE  LET order == NewestFirst(attempts)
         IN /\ DOMAIN order = 1..n
            /\ \A k, l \in 1..n : k < l => order[k].at >= order[l].at
            /\ \E f \in Bijection(1..n, 1..n) : \A k \in 1..n : order[k] = attempts[f[k]]
<1> DEFINE S == 1..n
           R == {p \in S \X S :
                   \/ attempts[p[1]].at > attempts[p[2]].at
                   \/ attempts[p[1]].at = attempts[p[2]].at /\ p[1] < p[2]}
           order == NewestFirst(attempts)
           f == [k \in 1..n |-> Placed(S, R, k)]
<1>1. order = Picked(attempts, S, R)
  BY DEF NewestFirst
<1> HIDE DEF order
<1>2. IsFiniteSet(S) /\ Cardinality(S) = n
  BY FS_Interval
<1>3. \A i, j \in S : <<i, j>> \in R <=>
        \/ attempts[i].at > attempts[j].at
        \/ attempts[i].at = attempts[j].at /\ i < j
  OBVIOUS
<1> HIDE DEF R
<1>4. InOrder(S, R)
  <2>1. \A i \in S : i \in Int /\ attempts[i].at \in Int
    OBVIOUS
  <2> HIDE DEF S
  <2>2. \A i, j, k \in S : <<i, j>> \in R /\ <<j, k>> \in R => <<i, k>> \in R
    BY <1>3, <2>1
  <2>3. \A i, j \in S : i # j => <<i, j>> \in R \/ <<j, i>> \in R
    BY <1>3, <2>1
  <2>4. \A i \in S : <<i, i>> \notin R
    BY <1>3, <2>1
  <2>5. QED
    BY <2>2, <2>3, <2>4 DEF InOrder
<1>5. InTheirOrder(S, R)
  BY <1>2, <1>4, EachPlaceOnce
<1>6. DOMAIN order = 1..n /\ \A k \in 1..n : order[k] = attempts[f[k]] /\ f[k] = Placed(S, R, k)
  BY <1>1, <1>2 DEF Picked
<1>7. f \in Bijection(1..n, 1..n)
  <2>1. f \in [1..n -> 1..n]
    BY <1>2, <1>5, <1>6 DEF InTheirOrder
  <2>2. \A k, l \in 1..n : f[k] = f[l] => k = l
    BY <1>2, <1>5, <1>6 DEF InTheirOrder
  <2>3. \A i \in 1..n : \E k \in 1..n : f[k] = i
    BY <1>2, <1>5, <1>6 DEF InTheirOrder
  <2> HIDE DEF f
  <2>4. QED
    BY <2>1, <2>2, <2>3 DEF Bijection, Injection, Surjection, IsInjective
<1>8. ASSUME NEW k \in 1..n, NEW l \in 1..n, k < l PROVE order[k].at >= order[l].at
  <2>1. <<f[k], f[l]>> \in R
    BY <1>2, <1>5, <1>6, <1>8 DEF InTheirOrder
  <2>2. f[k] \in S /\ f[l] \in S
    BY <1>7 DEF Bijection, Injection
  <2> HIDE DEF f
  <2>3. attempts[f[k]].at \in Int /\ attempts[f[l]].at \in Int
    BY <2>2
  <2> HIDE DEF S
  <2>4. attempts[f[k]].at >= attempts[f[l]].at
    BY <1>3, <2>1, <2>2, <2>3
  <2>5. QED
    BY <1>6, <2>4
<1> HIDE DEF f
<1>9. QED
  BY <1>6, <1>7, <1>8 DEF order

\* The places that a sequence of rows has in another one are as many as the rows.
LEMMA AsManyPlaces ==
  ASSUME NEW n \in Nat, NEW f \in Bijection(1..n, 1..n), NEW A \in SUBSET (1..n)
  PROVE  Cardinality({k \in 1..n : f[k] \in A}) = Cardinality(A)
<1> DEFINE B == {k \in 1..n : f[k] \in A}
           g == [k \in B |-> f[k]]
<1>1. /\ f \in [1..n -> 1..n]
      /\ \A k, l \in 1..n : f[k] = f[l] => k = l
      /\ \A i \in 1..n : \E k \in 1..n : f[k] = i
  BY DEF Bijection, Injection, Surjection, IsInjective
<1>2. \A k \in B : k \in 1..n /\ f[k] \in A
  OBVIOUS
<1>3. \A i \in A : \E k \in B : f[k] = i
  BY <1>1
<1> HIDE DEF B
<1>4. g \in [B -> A] /\ \A k \in B : g[k] = f[k]
  BY <1>2
<1> HIDE DEF g
<1>5. g \in Injection(B, A) /\ g \in Surjection(B, A)
  BY <1>1, <1>2, <1>3, <1>4 DEF Injection, Surjection, IsInjective
<1>6. IsFiniteSet(A)
  <2>1. IsFiniteSet(1..n)
    BY FS_Interval
  <2>2. QED
    BY <2>1, FS_Subset
<1>7. Cardinality(B) = Cardinality(A)
  BY <1>5, <1>6, FS_Injection
<1>8. QED
  BY <1>7 DEF B

\* The rows of a file in the view, and the failures they stand for.
RowsFor(view, p) == {m \in DOMAIN view : view[m].attempt.path = p}
CountedFor(view, p) == SumOf([m \in RowsFor(view, p) |-> view[m].retries])

\* A view of attempts that shows no failure of a file that has a newer attempt,
\* and of a file at rest shows or counts every attempt.
IsWhole(view, attempts, live, waiting) ==
  LET all(p) == {i \in DOMAIN attempts : attempts[i].path = p}
  IN /\ \A m \in DOMAIN view : \A i \in all(view[m].attempt.path) :
          view[m].attempt.status \in Superseded => attempts[i].at <= view[m].attempt.at
     /\ \A p : p \notin DOMAIN waiting /\ (\A i \in all(p) : attempts[i].base \notin live)
          => Cardinality(RowsFor(view, p)) + CountedFor(view, p) = Cardinality(all(p))

\* The history shows or counts every attempt of any list, and shows no failure
\* of a file that has a newer attempt.
THEOREM HistoryIsWholeAnyAttempts ==
  ASSUME NEW n \in Nat, NEW attempts, DOMAIN attempts = 1..n,
         \A i \in 1..n : attempts[i].at \in Int,
         NEW live, NEW waiting, NEW completed, NEW noOutput
  PROVE  IsWhole(HistoryView(attempts, live, waiting, completed, noOutput), attempts, live, waiting)
<1> DEFINE order == NewestFirst(attempts)
           shown == {k \in 1..n : IsShown(order, k, live, waiting)}
           row == [k \in 1..n |-> [attempt |-> order[k], chip |-> Chip(order[k], completed, noOutput),
                                   retries |-> Retries(order, k, live, waiting)]]
           at == [m \in 1..Cardinality(shown) |-> Placed(shown, Ascending(shown), m)]
           view == HistoryView(attempts, live, waiting, completed, noOutput)
           rows(p) == {m \in DOMAIN view : view[m].attempt.path = p}
           all(p) == {i \in 1..n : attempts[i].path = p}
           mine(p) == {k \in 1..n : order[k].path = p}
<1>1. /\ DOMAIN order = 1..n
      /\ \A k, l \in 1..n : k < l => order[k].at >= order[l].at
      /\ \E f \in Bijection(1..n, 1..n) : \A k \in 1..n : order[k] = attempts[f[k]]
  BY NewestFirstSorts
<1> HIDE DEF order
<1>2. PICK f \in Bijection(1..n, 1..n) : \A k \in 1..n : order[k] = attempts[f[k]]
  BY <1>1
<1>3. /\ \A k \in 1..n : f[k] \in 1..n
      /\ \A i \in 1..n : \E k \in 1..n : f[k] = i
  BY DEF Bijection, Injection, Surjection
<1>4. \A k \in 1..n : order[k].at \in Int
  BY <1>2, <1>3
<1>5. view = Picked(row, shown, Ascending(shown))
  BY <1>1 DEF HistoryView, order
<1>6. IsFiniteSet(shown) /\ Cardinality(shown) \in Nat
  <2>1. IsFiniteSet(1..n)
    BY FS_Interval
  <2>2. IsFiniteSet(shown)
    BY <2>1, FS_Subset
  <2>3. QED
    BY <2>2, FS_CardinalityType
<1>7. InTheirOrder(shown, Ascending(shown))
  <2>1. shown \in SUBSET Int
    OBVIOUS
  <2> HIDE DEF shown
  <2>2. QED
    BY <1>6, <2>1, NumbersAscend, EachPlaceOnce
<1>8. \A k : k \in shown <=> k \in 1..n /\ IsShown(order, k, live, waiting)
  OBVIOUS
<1> HIDE DEF shown, view
<1>9. /\ DOMAIN view = 1..Cardinality(shown)
      /\ \A m \in DOMAIN view : at[m] \in shown /\ view[m] = row[at[m]]
      /\ \A m, l \in DOMAIN view : at[m] = at[l] => m = l
      /\ \A k \in shown : \E m \in DOMAIN view : at[m] = k
  BY <1>5, <1>7 DEF Picked, InTheirOrder
<1> HIDE DEF at
<1>10. \A m \in DOMAIN view : /\ at[m] \in 1..n /\ view[m].attempt = order[at[m]]
                              /\ view[m].retries = Retries(order, at[m], live, waiting)
  <2>1. \A k \in 1..n : /\ row[k].attempt = order[k]
                         /\ row[k].retries = Retries(order, k, live, waiting)
    OBVIOUS
  <2> HIDE DEF row
  <2>2. QED
    BY <1>8, <1>9, <2>1
<1>11. ASSUME NEW m \in DOMAIN view, NEW i \in all(view[m].attempt.path),
              view[m].attempt.status \in Superseded
       PROVE  attempts[i].at <= view[m].attempt.at
  <2>1. PICK l \in 1..n : f[l] = i
    BY <1>3
  <2>2. order[l] = attempts[i] /\ order[l].path = order[at[m]].path
    BY <1>2, <1>10, <2>1
  <2>3. \A j \in 1..(at[m] - 1) : order[j].path # order[at[m]].path
    <3>1. IsShown(order, at[m], live, waiting) /\ order[at[m]].status \in Superseded
      BY <1>8, <1>9, <1>10, <1>11
    <3>2. QED
      BY <3>1 DEF IsShown
  <2>4. at[m] \in 1..n /\ ~(l < at[m])
    BY <1>10, <2>2, <2>3
  <2>5. order[l].at <= order[at[m]].at
    BY <1>1, <1>4, <2>4
  <2>6. QED
    BY <1>10, <2>2, <2>5
<1>12. ASSUME NEW p, p \notin DOMAIN waiting, \A i \in all(p) : attempts[i].base \notin live
       PROVE  Cardinality(rows(p)) + SumOf([m \in rows(p) |-> view[m].retries])
                = Cardinality(all(p))
  <2> DEFINE M == mine(p)
             seen == {k \in M : k \in shown}
  <2>1. Cardinality(M) = Cardinality(all(p))
    <3>1. M = {k \in 1..n : f[k] \in all(p)}
      BY <1>2, <1>3
    <3>2. all(p) \in SUBSET (1..n)
      OBVIOUS
    <3> HIDE DEF M
    <3>3. QED
      BY <3>1, <3>2, AsManyPlaces
  <2>2. \A k \in M : k \in 1..n /\ order[k].path = p /\ order[k].base \notin live
    <3>1. ASSUME NEW k \in M PROVE k \in 1..n /\ order[k].path = p /\ order[k].base \notin live
      <4>1. k \in 1..n /\ order[k].path = p
        OBVIOUS
      <4>2. order[k] = attempts[f[k]] /\ f[k] \in 1..n
        BY <1>2, <1>3, <4>1
      <4>3. f[k] \in all(p)
        BY <4>1, <4>2
      <4>4. attempts[f[k]].base \notin live
        BY <1>12, <4>3
      <4>5. QED
        BY <4>1, <4>2, <4>4
    <3>2. QED
      BY <3>1
  <2>3. \A k \in 1..n : order[k].path = p => k \in M
    OBVIOUS
  <2> HIDE DEF M
  <2>4. IsFiniteSet(M) /\ Cardinality(M) \in Nat
    <3>1. IsFiniteSet(1..n)
      BY FS_Interval
    <3>2. M \subseteq 1..n
      BY <2>2
    <3>3. QED
      BY <3>1, <3>2, FS_Subset, FS_CardinalityType
  <2>5. IsFiniteSet(seen) /\ Cardinality(seen) \in Nat
    BY <2>4, FS_Subset, FS_CardinalityType
  <2> DEFINE g == [m \in rows(p) |-> at[m]]
  <2>6. \A m \in rows(p) : m \in DOMAIN view /\ at[m] \in seen
    BY <1>9, <1>10, <2>3
  <2>7. \A k \in seen : \E m \in rows(p) : at[m] = k
    BY <1>9, <1>10, <2>2
  <2> HIDE DEF rows, seen
  <2>8. g \in Injection(rows(p), seen) /\ g \in Surjection(rows(p), seen)
    <3>1. g \in [rows(p) -> seen]
      BY <2>6
    <3>2. \A m, l \in rows(p) : g[m] = g[l] => m = l
      BY <1>9, <2>6
    <3>3. \A k \in seen : \E m \in rows(p) : g[m] = k
      BY <2>7
    <3> HIDE DEF g
    <3>4. QED
      BY <3>1, <3>2, <3>3 DEF Injection, Surjection, IsInjective
  <2> HIDE DEF g
  <2>9. IsFiniteSet(rows(p)) /\ Cardinality(rows(p)) = Cardinality(seen)
    BY <2>5, <2>8, FS_Injection
  <2> DEFINE h == [m \in rows(p) |-> view[m].retries]
  <2>10. CASE M = {}
    <3>1. seen = {} /\ rows(p) = {}
      BY <2>6, <2>10 DEF seen
    <3>2. h \in [rows(p) -> Int] /\ (\A y \in rows(p) : y # 0 => h[y] = 0) /\ 0 \notin rows(p)
      BY <3>1
    <3> HIDE DEF h
    <3>3. SumOf(h) = 0
      BY <2>9, <3>2, SumOne
    <3>4. Cardinality(rows(p)) = 0 /\ Cardinality(M) = 0
      BY <2>10, <3>1, FS_EmptySet
    <3>5. QED
      BY <2>1, <3>3, <3>4 DEF h
  <2>11. CASE M # {}
    <3> DEFINE k0 == LeastOf(M)
               old == {j \in M : j > k0 /\ order[j].status \in Superseded}
    <3>1. k0 \in M /\ \A k \in M : k0 <= k
      <4>1. M \in SUBSET Nat
        BY <2>2
      <4>2. QED
        BY <2>11, <4>1, LeastPlace
    <3> HIDE DEF k0
    <3>2. \A k \in M : (\A j \in 1..(k - 1) : order[j].path # order[k].path) <=> k = k0
      <4>1. ASSUME NEW k \in M, k # k0 PROVE k0 \in 1..(k - 1) /\ order[k0].path = order[k].path
        BY <2>2, <3>1, <4>1
      <4>2. ASSUME NEW j \in 1..(k0 - 1) PROVE order[j].path # order[k0].path
        BY <2>2, <2>3, <3>1, <4>2
      <4>3. QED
        BY <4>1, <4>2
    <3>3. \A k \in M : ~RetryWaits(order[k], waiting)
      BY <1>12, <2>2 DEF RetryWaits
    <3>4. \A k \in M : k \in shown <=> (k = k0 \/ order[k].status \notin Superseded)
      BY <1>8, <2>2, <3>2, <3>3 DEF IsShown
    <3>5. seen \cup old = M /\ seen \cap old = {}
      BY <2>2, <3>1, <3>4 DEF seen
    <3>6. Cardinality(M) = Cardinality(seen) + Cardinality(old)
      <4>1. IsFiniteSet(old)
        BY <2>4, FS_Subset
      <4> HIDE DEF old
      <4>2. Cardinality(old) \in Nat /\ Cardinality({}) = 0
        BY <4>1, FS_CardinalityType, FS_EmptySet
      <4>3. Cardinality(seen \cup old) = Cardinality(seen) + Cardinality(old) - Cardinality(seen \cap old)
        BY <2>5, <4>1, FS_Union
      <4>4. Cardinality(M) = Cardinality(seen) + Cardinality(old) - Cardinality({})
        BY <3>5, <4>3, Zenon
      <4>5. QED
        BY <2>5, <4>2, <4>4
    <3>7. PICK m0 \in rows(p) : at[m0] = k0
      <4>1. k0 \in seen
        BY <3>1, <3>4 DEF seen
      <4>2. QED
        BY <2>7, <4>1
    <3>8. \A y \in rows(p) : y # m0 => h[y] = 0
      <4>1. ASSUME NEW y \in rows(p), y # m0 PROVE h[y] = 0
        <5>1. at[y] # k0 /\ at[y] \in M
          BY <1>9, <2>6, <3>7, <4>1 DEF seen
        <5>2. Retries(order, at[y], live, waiting) = 0
          BY <3>2, <5>1 DEF Retries
        <5>3. QED
          BY <1>10, <2>6, <5>2
      <4>2. QED
        BY <4>1
    <3>9. h[m0] = Cardinality(old)
      <4>1. {j \in (k0 + 1)..Len(order) : order[j].path = order[k0].path /\ order[j].status \in Superseded}
              = old
        <5>1. Len(order) = n
          BY <1>1
        <5>2. QED
          BY <2>2, <2>3, <3>1, <5>1
      <4>2. k0 \in shown /\ IsShown(order, k0, live, waiting)
        BY <1>8, <3>1, <3>4
      <4>3. Retries(order, k0, live, waiting) = Cardinality(old)
        BY <3>1, <3>2, <4>1, <4>2 DEF Retries
      <4>4. QED
        BY <1>10, <2>6, <3>7, <4>3
    <3>10. Cardinality(old) \in Nat
      BY <2>4, FS_Subset, FS_CardinalityType
    <3> HIDE DEF old, h
    <3>11. SumOf(h) = Cardinality(old)
      <4>1. DOMAIN h = rows(p) /\ \A y \in rows(p) : h[y] \in Int
        BY <3>8, <3>9, <3>10 DEF h
      <4>2. h \in [rows(p) -> Int]
        BY <4>1 DEF h
      <4>3. QED
        BY <2>9, <3>7, <3>8, <3>9, <4>2, SumOne
    <3>12. QED
      BY <2>1, <2>9, <3>6, <3>11 DEF h
  <2>12. QED
    BY <2>10, <2>11
<1>13. QED
  BY <1>11, <1>12 DEF view, RowsFor, CountedFor, IsWhole

----------------------------------------------------------------------------
(* The cases that are put. *)

\* Sweeps in which both recipes were tried in the same two languages.
RanksOK(sweeps) ==
  SweepsOK(sweeps) /\ \A k \in Recipes : TriedIn(sweeps, k) = {"ja", "fr"}

\* Rows of one library, on pages of some size.
ReviewOK(rows, limit) ==
  /\ limit \in Nat \ {0}
  /\ \E n \in Nat : DOMAIN rows = 1..n /\ \A i \in 1..n : rows[i].library = "l"

\* Attempts at times, each with the name of its file.
AttemptsOK(attempts) ==
  \E n \in Nat : /\ DOMAIN attempts = 1..n
                 /\ \A i \in 1..n : attempts[i].at \in Int /\ attempts[i].base = Base(attempts[i].path)

\* What a case of each kind is made of, as far as the theorems ask.
CaseOK ==
  /\ case.kind = "swap" => TrackList(case.audio)
  /\ case.kind = "task" =>
       /\ case.missing \in {{"en"}, {"ja"}} /\ case.wanted \in {{"en"}, {"en", "ja"}}
  /\ case.kind = "folder" =>
       \E F : case.files \in Seq(F) /\ Len(case.files) = 2
  /\ case.kind = "name" => \E T : case.name \in Seq(T) /\ case.name # <<>>
  /\ case.kind = "covered" => case.wanted \in {{"en"}, {"ja"}}
  /\ case.kind = "label" =>
       /\ case.file.path = "f"
       /\ \A p \in DOMAIN case.verdicts :
            p = "f" /\ case.verdicts[p].lang = "ja"
              /\ (case.verdicts[p].by = "user" => case.verdicts[p].codes = {"ja"})
  /\ case.kind = "blind" => case.wanted \subseteq 1..3
  /\ case.kind = "relink" => case.stale \subseteq case.verified \cup case.probed
  /\ case.kind = "review" => ReviewOK(case.rows, case.limit)
  /\ case.kind = "history" => AttemptsOK(case.attempts)
  /\ case.kind = "ids" =>
       /\ \A e \in case.sonarr.episodes : e.id # NoId
       /\ \A d, e \in case.sonarr.episodes : d.id = e.id => d = e
       /\ \A f, g \in case.sonarr.files : f.id = g.id => f = g
  /\ case.kind = "timing" => InTurn(case.cues)
  /\ case.kind = "ranks" => RanksOK(case.sweeps)

\* The cues of a case, and what they are made from.
CueParts(n, lasts, gap, chars) ==
  /\ n \in 1..3 /\ lasts \in [1..n -> {300, 600, 1200}] /\ gap \in [1..n -> {0, 300}]
  /\ chars \in [1..n -> {8, 20, 35}]
CuesOf(n, lasts, gap, chars) == [i \in 1..n |-> Cue(Begins(lasts, gap)[i], lasts[i], chars[i])]

\* The cues of a case begin one after another.
LEMMA CasesInTurn ==
  ASSUME NEW n, NEW lasts, NEW gap, NEW chars, CueParts(n, lasts, gap, chars)
  PROVE  InTurn(CuesOf(n, lasts, gap, chars))
<1> SUFFICES ASSUME n \in 1..3, lasts \in [1..n -> {300, 600, 1200}], gap \in [1..n -> {0, 300}],
                    chars \in [1..n -> {8, 20, 35}]
             PROVE  InTurn(CuesOf(n, lasts, gap, chars))
  BY DEF CueParts
<1> DEFINE Eqn(f) == f = [i \in DOMAIN lasts |->
                            IF i = 1 THEN 0 ELSE f[i - 1] + lasts[i - 1] + gap[i - 1]]
           second == 0 + lasts[1] + gap[1]
           g == [i \in 1..n |-> IF i = 1 THEN 0 ELSE IF i = 2 THEN second
                                ELSE second + lasts[2] + gap[2]]
           begin == Begins(lasts, gap)
           cues == [i \in 1..n |-> Cue(begin[i], lasts[i], chars[i])]
<1>1. Eqn(g)
  <2>1. \A i \in 1..n : g[i] = IF i = 1 THEN 0 ELSE g[i - 1] + lasts[i - 1] + gap[i - 1]
    <3>1. n = 1 \/ n = 2 \/ n = 3
      OBVIOUS
    <3> HIDE DEF second
    <3>2. CASE n = 1
      BY <3>2
    <3>3. CASE n = 2
      BY <3>3 DEF second
    <3>4. CASE n = 3
      BY <3>4 DEF second
    <3>5. QED
      BY <3>1, <3>2, <3>3, <3>4
  <2>2. DOMAIN lasts = 1..n /\ g = [i \in 1..n |-> g[i]]
    OBVIOUS
  <2> HIDE DEF g
  <2>3. [i \in 1..n |-> g[i]]
          = [i \in 1..n |-> IF i = 1 THEN 0 ELSE g[i - 1] + lasts[i - 1] + gap[i - 1]]
    BY <2>1
  <2>4. QED
    BY <2>2, <2>3
<1>2. begin = CHOOSE f : Eqn(f)
  BY DEF Begins
<1>3. Eqn(begin)
  <2> HIDE DEF Eqn, g, begin
  <2>1. QED
    BY <1>1, <1>2
<1> HIDE DEF g, begin
<1>4. \A i \in 1..n : begin[i] = IF i = 1 THEN 0 ELSE begin[i - 1] + lasts[i - 1] + gap[i - 1]
  BY <1>3
<1>5. \A i \in 1..n : /\ lasts[i] \in {300, 600, 1200} /\ gap[i] \in {0, 300}
                      /\ chars[i] \in {8, 20, 35}
  OBVIOUS
<1>6. \A i \in 1..n : begin[i] \in Int
  <2>1. begin[1] = 0
    BY <1>4
  <2>2. n >= 2 => begin[2] \in Int
    BY <1>4, <1>5, <2>1
  <2>3. n >= 3 => begin[3] \in Int
    BY <1>4, <1>5, <2>2
  <2>4. \A i \in 1..n : i = 1 \/ (i = 2 /\ n >= 2) \/ (i = 3 /\ n >= 3)
    OBVIOUS
  <2>5. QED
    BY <2>1, <2>2, <2>3, <2>4
<1> HIDE DEF Eqn
<1>7. \A i \in 1..n : /\ cues[i] \in Cues
                      /\ cues[i].from = begin[i] /\ cues[i].to = begin[i] + lasts[i]
  BY <1>5, <1>6 DEF Cue, Cues
<1>8. cues \in Seq(Cues) /\ Len(cues) = n
  <2>1. cues \in [1..n -> Cues]
    BY <1>7
  <2>2. QED
    BY <2>1
<1>9. \A i \in 1..(n - 1) : cues[i].to <= cues[i + 1].from
  <2>1. \A i \in 1..(n - 1) : i \in 1..n /\ i + 1 \in 1..n /\ i + 1 # 1 /\ (i + 1) - 1 = i
    OBVIOUS
  <2> HIDE DEF cues, begin
  <2>2. ASSUME NEW i \in 1..(n - 1) PROVE cues[i].to <= cues[i + 1].from
    <3>1. i \in 1..n /\ i + 1 \in 1..n /\ i + 1 # 1 /\ (i + 1) - 1 = i
      BY <2>1
    <3>2. begin[i + 1] = begin[i] + lasts[i] + gap[i]
      BY <1>4, <3>1
    <3>3. cues[i].to = begin[i] + lasts[i] /\ cues[i + 1].from = begin[i + 1]
      BY <1>7, <3>1
    <3>4. begin[i] \in Int
      BY <1>6, <3>1
    <3>5. lasts[i] \in {300, 600, 1200}
      BY <1>5, <3>1
    <3>6. gap[i] \in {0, 300}
      BY <1>5, <3>1
    <3>7. lasts[i] \in Int /\ gap[i] \in Int /\ gap[i] >= 0
      <4> HIDE DEF begin
      <4>1. QED
        BY <3>5, <3>6
    <3>8. QED
      BY <3>2, <3>3, <3>4, <3>7
  <2>3. QED
    BY <2>2
<1>10. InTurn(cues)
  <2> HIDE DEF cues
  <2>1. QED
    BY <1>8, <1>9 DEF InTurn
<1>11. QED
  BY <1>10 DEF CuesOf, cues, begin

\* The sweeps of a case.
LEMMA AskedRanks == AskRanks => case'.kind = "ranks" /\ RanksOK(case'.sweeps)
<1> SUFFICES ASSUME AskRanks PROVE case'.kind = "ranks" /\ RanksOK(case'.sweeps)
  OBVIOUS
<1> DEFINE mean(high, c) == (IF c[1] = "k" THEN 268 ELSE 267) + (IF c[2] = "fr" THEN 1 ELSE 0)
                            + (IF c \in high THEN 6000 ELSE 0)
           sweep(high, x) ==
             [path |-> x, language |-> x[1][2], winner |-> x[1][1], tie |-> FALSE,
              means |-> [l \in {x[1][1], "base"} |-> IF l = "base" THEN 10 ELSE mean(high, x[1])]]
           put(often) == {y \in Tried \X (1..3) : y[2] = 1 \/ y[1] \in often}
<1>1. PICK high, often \in SUBSET Tried :
        case' = [kind |-> "ranks", sweeps |-> {sweep(high, x) : x \in put(often)}]
  BY Zenon DEF AskRanks
<1> DEFINE S == {sweep(high, x) : x \in put(often)}
<1>2. /\ \A x \in put(often) : /\ x = <<<<x[1][1], x[1][2]>>, x[2]>>
                               /\ x[1][1] \in Recipes /\ x[1][2] \in {"ja", "fr"} /\ x[2] \in 1..3
      /\ \A k \in Recipes, g \in {"ja", "fr"} : <<<<k, g>>, 1>> \in put(often)
  BY DEF Tried
<1>3. IsFiniteSet(S)
  <2> DEFINE f == [x \in put(often) |-> sweep(high, x)]
  <2>1. IsFiniteSet(put(often))
    <3>1. IsFiniteSet(Recipes) /\ IsFiniteSet({"ja", "fr"}) /\ IsFiniteSet(1..3)
      <4>1. Recipes = {"k"} \cup {"l"} /\ {"ja", "fr"} = {"ja"} \cup {"fr"}
        BY DEF Recipes
      <4>2. IsFiniteSet({"k"}) /\ IsFiniteSet({"l"}) /\ IsFiniteSet({"ja"}) /\ IsFiniteSet({"fr"})
        BY FS_Singleton
      <4>3. IsFiniteSet({"k"} \cup {"l"}) /\ IsFiniteSet({"ja"} \cup {"fr"})
        BY <4>2, FS_Union
      <4>4. IsFiniteSet(1..3)
        <5>1. \A a, b \in Int : IsFiniteSet(a..b)
          BY FS_Interval
        <5>2. QED
          BY <5>1
      <4>5. QED
        BY <4>1, <4>3, <4>4
    <3>2. IsFiniteSet(Tried)
      BY <3>1, FS_Product DEF Tried
    <3>3. IsFiniteSet(Tried \X (1..3))
      BY <3>1, <3>2, FS_Product
    <3>4. QED
      BY <3>3, FS_Subset
  <2> HIDE DEF put, sweep
  <2>2. f \in Surjection(put(often), S)
    BY DEF Surjection
  <2>3. QED
    BY <2>1, <2>2, FS_Surjection
<1>4. ASSUME NEW x \in put(often)
      PROVE  /\ sweep(high, x).means \in [DOMAIN sweep(high, x).means -> Int]
             /\ DOMAIN sweep(high, x).means = {x[1][1], "base"}
             /\ sweep(high, x).language = x[1][2]
  OBVIOUS
<1> HIDE DEF sweep, put
<1>5. SweepsOK(S)
  BY <1>3, <1>4 DEF SweepsOK
<1>6. ASSUME NEW k \in Recipes PROVE TriedIn(S, k) = {"ja", "fr"}
  <2>1. k # "base"
    BY DEF Recipes
  <2>2. ASSUME NEW g \in {"ja", "fr"} PROVE g \in TriedIn(S, k)
    <3> DEFINE x == <<<<k, g>>, 1>>
    <3>1. x \in put(often) /\ x[1][1] = k /\ x[1][2] = g
      BY <1>2
    <3> HIDE DEF x
    <3>2. sweep(high, x) \in S /\ sweep(high, x).language = g /\ k \in DOMAIN sweep(high, x).means
      BY <1>4, <3>1
    <3>3. g # "und"
      OBVIOUS
    <3> HIDE DEF S
    <3>4. QED
      BY <3>2, <3>3 DEF TriedIn
  <2>3. ASSUME NEW g \in TriedIn(S, k) PROVE g \in {"ja", "fr"}
    BY <1>2, <1>4, <2>3 DEF TriedIn
  <2>4. QED
    BY <2>2, <2>3
<1> HIDE DEF S
<1>7. case'.kind = "ranks" /\ case'.sweeps = S
  BY <1>1 DEF S
<1>8. QED
  BY <1>5, <1>6, <1>7 DEF RanksOK

\* What a case of the review list is made of.
LEMMA AskedReview == AskReview => case'.kind = "review" /\ ReviewOK(case'.rows, case'.limit)
<1> SUFFICES ASSUME AskReview PROVE case'.kind = "review" /\ ReviewOK(case'.rows, case'.limit)
  OBVIOUS
<1>1. PICK n \in 2..4, limit \in 1..2 :
        \E arr \in [1..n -> 0..3], title \in [1..n -> 1..2] :
          case' = [kind |-> "review", limit |-> limit,
                   rows |-> SortedRows([i \in 1..n |-> ReviewRow(i, arr[i], title[i])])]
  BY DEF AskReview
<1>2. PICK arr \in [1..n -> 0..3], title \in [1..n -> 1..2] :
        case' = [kind |-> "review", limit |-> limit,
                 rows |-> SortedRows([i \in 1..n |-> ReviewRow(i, arr[i], title[i])])]
  BY <1>1
<1> DEFINE rows == [i \in 1..n |-> ReviewRow(i, arr[i], title[i])]
           sorted == SortedRows(rows)
<1>3. case'.kind = "review" /\ case'.limit = limit /\ case'.rows = sorted
  BY <1>2
<1>4. n \in Nat /\ limit \in Nat \ {0}
  OBVIOUS
<1>5. /\ DOMAIN rows = 1..n
      /\ \A i \in 1..n : rows[i].title \in Int /\ rows[i].order \in Int /\ rows[i].library = "l"
  BY DEF ReviewRow
<1> HIDE DEF rows
<1>6. DOMAIN sorted = 1..n /\ \A k \in 1..n : \E i \in 1..n : sorted[k] = rows[i]
  BY <1>4, <1>5, SortedRowsStay
<1> HIDE DEF sorted
<1>7. \A k \in 1..n : sorted[k].library = "l"
  BY <1>5, <1>6
<1>8. QED
  BY <1>3, <1>4, <1>6, <1>7 DEF ReviewOK

\* What a case of the history is made of.
LEMMA AskedHistory == AskHistory => case'.kind = "history" /\ AttemptsOK(case'.attempts)
<1> SUFFICES ASSUME AskHistory PROVE case'.kind = "history" /\ AttemptsOK(case'.attempts)
  OBVIOUS
<1> DEFINE made(n, paths, status, at) ==
             [i \in 1..n |-> [path |-> paths[i], base |-> Base(paths[i]), status |-> status[i],
                              at |-> at[i], cancelled |-> FALSE, explained |-> "none",
                              file |-> [inside |-> FALSE]]]
<1>1. PICK n \in 1..3, live \in SUBSET {"b"}, waits \in 0..3 :
        \E paths \in [1..n -> {"p", "q"}], status \in [1..n -> {"ok", "error", "skipped"}] :
        \E at \in {f \in [1..n -> 1..n] : IsInjective(f)} :
          case' = [kind |-> "history", live |-> live,
                   waiting |-> IF waits = 0 THEN <<>> ELSE "p" :> waits,
                   attempts |-> made(n, paths, status, at)]
  BY Zenon DEF AskHistory
<1>2. PICK paths \in [1..n -> {"p", "q"}], status \in [1..n -> {"ok", "error", "skipped"}],
           at \in {f \in [1..n -> 1..n] : IsInjective(f)} :
        case' = [kind |-> "history", live |-> live,
                 waiting |-> IF waits = 0 THEN <<>> ELSE "p" :> waits,
                 attempts |-> made(n, paths, status, at)]
  BY <1>1, Zenon
<1> DEFINE attempts == made(n, paths, status, at)
<1>3. case'.kind = "history" /\ case'.attempts = attempts
  <2> HIDE DEF made
  <2>1. QED
    BY <1>2
<1>4. at \in [1..n -> 1..n]
  OBVIOUS
<1>5. /\ DOMAIN attempts = 1..n
      /\ \A i \in 1..n : /\ attempts[i].at = at[i] /\ attempts[i].path = paths[i]
                         /\ attempts[i].base = Base(paths[i])
  OBVIOUS
<1> HIDE DEF attempts
<1>6. \A i \in 1..n : attempts[i].at \in Int /\ attempts[i].base = Base(attempts[i].path)
  BY <1>4, <1>5
<1>7. n \in Nat
  OBVIOUS
<1>8. QED
  BY <1>3, <1>5, <1>6, <1>7 DEF AttemptsOK

\* What every case that is put is made of.
LEMMA CasesAreMade == CasesSpec => []CaseOK
<1>1. CasesInit => CaseOK
  BY DEF CasesInit, NoCase, None, CaseOK
<1>2. CaseOK /\ [CasesNext]_case => CaseOK'
  <2> SUFFICES ASSUME CaseOK, [CasesNext]_case PROVE CaseOK'
    OBVIOUS
  <2>1. CASE AskSwap
    <3>1. PICK audio \in UNION {[1..n -> Tracks] : n \in 1..3}, original \in {"ja", "fr", "en"} :
            case' = [kind |-> "swap", audio |-> audio, original |-> original]
      BY <2>1 DEF AskSwap
    <3>2. PICK n \in 1..3 : audio \in [1..n -> Tracks]
      OBVIOUS
    <3>3. audio \in [1..n -> [tag : Tags, default : BOOLEAN, title : {None}]]
      BY <3>2 DEF Tracks
    <3>4. TrackList(audio)
      <4>1. n \in Nat
        OBVIOUS
      <4>2. QED
        BY <3>3, <4>1, Zenon DEF TrackList
    <3>5. QED
      BY <3>1, <3>4 DEF CaseOK
  <2>2. CASE AskTask
    <3>1. /\ case'.kind = "task"
          /\ case'.missing \in {{"en"}, {"ja"}} /\ case'.wanted \in {{"en"}, {"en", "ja"}}
      BY <2>2 DEF AskTask
    <3>2. QED
      BY <3>1 DEF CaseOK
  <2>3. CASE AskFolder
    <3>0. PICK one, two \in UNION {[1..n -> Tracks] : n \in 0..1}, override \in {None, "ja"},
               preferred \in {<<>>, <<"fr">>}, wanted \in {{"en"}, {"ja"}, {"en", "ja"}},
               on, probed \in BOOLEAN :
            case' = [kind |-> "folder", wanted |-> wanted, on |-> on, override |-> override,
                     files |-> <<[audio |-> one, probed |-> TRUE], [audio |-> two, probed |-> probed]>>,
                     caps |-> CapsOf(TRUE, {}, preferred, None)]
      BY <2>3, Zenon DEF AskFolder
    <3>1. /\ case'.kind = "folder"
          /\ case'.files = <<[audio |-> one, probed |-> TRUE], [audio |-> two, probed |-> probed]>>
      BY <3>0
    <3> DEFINE a == [audio |-> one, probed |-> TRUE]
               b == [audio |-> two, probed |-> probed]
    <3>2. <<a, b>> \in Seq({a, b}) /\ Len(<<a, b>>) = 2
      OBVIOUS
    <3>3. \E F : case'.files \in Seq(F) /\ Len(case'.files) = 2
      BY <3>1, <3>2
    <3>4. QED
      BY <3>1, <3>3 DEF CaseOK
  <2>4. CASE AskSkipped
    <3>1. case'.kind = "skipped"
      BY <2>4 DEF AskSkipped
    <3>2. QED
      BY <3>1 DEF CaseOK
  <2>5. CASE AskName
    <3>1. PICK marks \in UNION {[1..n -> Marks] : n \in 0..3} :
            case' = [kind |-> "name", name |-> Stem \o marks]
      BY <2>5 DEF AskName
    <3>2. PICK n \in 0..3 : marks \in [1..n -> Marks]
      OBVIOUS
    <3>3. marks \in Seq(Marks \cup {"Film"})
      BY <3>2
    <3>4. Stem \in Seq(Marks \cup {"Film"}) /\ Len(Stem) = 1
      BY DEF Stem
    <3>5. Stem \o marks \in Seq(Marks \cup {"Film"}) /\ Len(Stem \o marks) > 0
      BY <3>3, <3>4
    <3>6. Stem \o marks # <<>>
      BY <3>5
    <3>7. QED
      BY <3>1, <3>5, <3>6 DEF CaseOK
  <2>6. CASE AskRename
    <3>1. case'.kind = "rename"
      BY <2>6 DEF AskRename
    <3>2. QED
      BY <3>1 DEF CaseOK
  <2>7. CASE AskCovered
    <3>0. PICK names \in SUBSET Names, place \in {"episode", "movie", "blind episode", "blind movie"},
               wanted \in {{"en"}, {"ja"}}, answered \in BOOLEAN :
            case' = [kind |-> "covered", place |-> place, wanted |-> wanted, answered |-> answered,
                     sidecars |-> {Sidecar(n) : n \in names}]
      BY <2>7, Zenon DEF AskCovered
    <3>1. case'.kind = "covered" /\ case'.wanted \in {{"en"}, {"ja"}}
      BY <3>0
    <3>2. QED
      BY <3>1 DEF CaseOK
  <2>8. CASE AskLabel
    <3> DEFINE verdict(own) ==
                 [by |-> IF own = "user" THEN "user" ELSE "machine", lang |-> "ja",
                  codes |-> IF own = "machine multi" THEN {"ja", "en"} ELSE {"ja"}]
    <3>0. PICK audio \in AudioOfFile, own \in {"none", "user", "machine", "machine multi"},
               intents \in SUBSET {"d", "s"}, playing, plex \in {None, "en"} :
            case' = [kind |-> "label", file |-> FileWith(audio), playing |-> playing, plex |-> plex,
                     intents |-> {[series |-> i, lang |-> IF i = "d" THEN "fr" ELSE "de"] : i \in intents},
                     verdicts |-> [p \in IF own = "none" THEN {} ELSE {"f"} |-> verdict(own)]]
      BY <2>8, Zenon DEF AskLabel
    <3> HIDE DEF verdict
    <3>1. /\ case'.kind = "label" /\ case'.file = FileWith(audio)
          /\ case'.verdicts = [p \in IF own = "none" THEN {} ELSE {"f"} |-> verdict(own)]
      BY <3>0
    <3>2. case'.file.path = "f"
      <4>1. FileWith(audio).path = "f"
        BY DEF FileWith
      <4>2. QED
        BY <3>1, <4>1
    <3>3. verdict(own).lang = "ja" /\ (verdict(own).by = "user" => verdict(own).codes = {"ja"})
      BY DEF verdict
    <3>4. QED
      BY <3>1, <3>2, <3>3 DEF CaseOK
  <2>9. CASE AskRouting
    <3>0. PICK one, two \in [bazarr : {"", "b"}, arr : {"", "a", "gone"}], n \in 1..2 :
            case' = [kind |-> "routing", libraries |-> SubSeq(<<one, two>>, 1, n)]
      BY <2>9, Zenon DEF AskRouting
    <3>1. case'.kind = "routing"
      BY <3>0
    <3>2. QED
      BY <3>1 DEF CaseOK
  <2>10. CASE AskBlind
    <3>1. case'.kind = "blind" /\ case'.wanted \subseteq 1..3
      BY <2>10 DEF AskBlind
    <3>2. QED
      BY <3>1 DEF CaseOK
  <2>11. CASE AskReview
    <3>1. case'.kind = "review" /\ ReviewOK(case'.rows, case'.limit)
      BY <2>11, AskedReview
    <3>2. QED
      BY <3>1 DEF CaseOK
  <2>12. CASE AskRelink
    <3>1. case'.kind = "relink" /\ case'.stale \subseteq case'.verified \cup case'.probed
      BY <2>12 DEF AskRelink
    <3>2. QED
      BY <3>1 DEF CaseOK
  <2>13. CASE AskHistory
    <3>1. case'.kind = "history" /\ AttemptsOK(case'.attempts)
      BY <2>13, AskedHistory
    <3>2. QED
      BY <3>1 DEF CaseOK
  <2>14. CASE AskIds
    <3> DEFINE episode(serie, file, number, i) ==
                 [id |-> i, series |-> serie[i], fileId |-> file[i], number |-> number[i]]
               files == {[id |-> 1, path |-> FileOne], [id |-> 2, path |-> FileTwo]}
               series == {[id |-> 1, path |-> <<"tv", "S">>], [id |-> 2, path |-> <<"tv", "S", "X">>]}
    <3>0. PICK serie, file \in [1..3 -> 0..2], number \in [1..3 -> 1..2], path \in {FileOne, FileTwo} :
            case' = [kind |-> "ids", path |-> path,
                     sonarr |-> [configured |-> TRUE, up |-> TRUE, series |-> series, files |-> files,
                                 episodes |-> {episode(serie, file, number, i) : i \in 1..3}]]
      BY <2>14, Zenon DEF AskIds
    <3> DEFINE of(i) == episode(serie, file, number, i)
               episodes == {of(i) : i \in 1..3}
    <3>1. \A i \in 1..3 : of(i).id = i
      OBVIOUS
    <3> HIDE DEF of
    <3>2. /\ \A e \in episodes : e.id # NoId
          /\ \A d, e \in episodes : d.id = e.id => d = e
      BY <3>1 DEF NoId
    <3>3. \A f, g \in files : f.id = g.id => f = g
      OBVIOUS
    <3> HIDE DEF episodes, files, series
    <3>4. case'.kind = "ids" /\ case'.sonarr.episodes = episodes /\ case'.sonarr.files = files
      BY <3>0 DEF episodes, of
    <3>5. QED
      BY <3>2, <3>3, <3>4 DEF CaseOK
  <2>15. CASE AskTiming
    <3>1. PICK n \in 1..3 :
            \E lasts \in [1..n -> {300, 600, 1200}], gap \in [1..n -> {0, 300}],
               chars \in [1..n -> {8, 20, 35}] :
              case' = [kind |-> "timing",
                       cues |-> [i \in 1..n |-> Cue(Begins(lasts, gap)[i], lasts[i], chars[i])]]
      BY <2>15 DEF AskTiming
    <3>2. PICK lasts \in [1..n -> {300, 600, 1200}], gap \in [1..n -> {0, 300}],
               chars \in [1..n -> {8, 20, 35}] :
            case' = [kind |-> "timing",
                     cues |-> [i \in 1..n |-> Cue(Begins(lasts, gap)[i], lasts[i], chars[i])]]
      BY <3>1
    <3>3. InTurn(CuesOf(n, lasts, gap, chars))
      <4>1. CueParts(n, lasts, gap, chars)
        BY DEF CueParts
      <4>2. QED
        BY <4>1, CasesInTurn
    <3>4. case'.kind = "timing" /\ InTurn(case'.cues)
      BY <3>2, <3>3 DEF CuesOf
    <3>5. QED
      BY <3>4 DEF CaseOK
  <2>16. CASE AskRanks
    <3>1. case'.kind = "ranks" /\ RanksOK(case'.sweeps)
      BY <2>16, AskedRanks
    <3>2. QED
      BY <3>1 DEF CaseOK
  <2>17. CASE Answered
    <3>1. case'.kind = "none"
      BY <2>17 DEF Answered, NoCase, None
    <3>2. QED
      BY <3>1 DEF CaseOK
  <2>18. CASE UNCHANGED case
    BY <2>18 DEF CaseOK
  <2>19. QED
    BY <2>1, <2>2, <2>3, <2>4, <2>5, <2>6, <2>7, <2>8, <2>9, <2>10, <2>11, <2>12, <2>13, <2>14,
       <2>15, <2>16, <2>17, <2>18 DEF CasesNext
<1>3. QED
  BY <1>1, <1>2, PTL DEF CasesSpec

----------------------------------------------------------------------------
(* The cases that are checked are cases of the theorems. *)

\* The cases of tracks.
LEMMA SwapCase == CaseOK => SwapCures
BY SwapCuresAnyFile DEF CaseOK, SwapCures

\* The cases of gates.
LEMMA TaskCase == CaseOK => GateMatchesDispatch
<1> DEFINE this == [audio |-> case.audio, probed |-> TRUE]
           there == [inside |-> TRUE, sidecars |-> {}]
<1> SUFFICES ASSUME CaseOK, case.kind = "task" PROVE GateMatchesDispatch
  BY DEF GateMatchesDispatch
<1>1. Awaited(case.wanted, case.missing)
  BY DEF CaseOK, Awaited, Spoken, None
<1>2. 500 \in Nat \ {0} /\ this.probed = TRUE
  OBVIOUS
<1> HIDE DEF this, there
<1>3. GateFits(this, case.verdict, there, case.caps, TRUE, case.wanted, case.missing, 500)
  <2>1. \A enabled : \A cap \in Nat \ {0} :
          GateFits(this, case.verdict, there, case.caps, enabled, case.wanted, case.missing, cap)
    BY <1>1, <1>2, GateMatchesDispatchAnyFile
  <2>2. QED
    BY <1>2, <2>1, Zenon
<1>4. this.audio = case.audio
  BY DEF this
<1>5. QED
  BY <1>3, <1>4 DEF GateMatchesDispatch, GateFits, this, there

\* The cases of folders.
LEMMA FolderCase == CaseOK => FolderTasksFit
<1> DEFINE decision == [override |-> case.override, bypass |-> FALSE]
<1> SUFFICES ASSUME CaseOK, case.kind = "folder" PROVE FolderTasksFit
  BY DEF FolderTasksFit
<1>1. (\E F : case.files \in Seq(F)) /\ Len(case.files) = 2
  BY DEF CaseOK
<1>2. Len(case.files) <= 500 /\ 500 \in Nat \ {0} /\ 1 \in DOMAIN case.files
  BY <1>1
<1> HIDE DEF decision
<1>3. FolderFits(decision, case.files, 500, case.caps, case.on, case.wanted)
  <2>1. \A cap \in Nat \ {0} : Len(case.files) <= cap
          => FolderFits(decision, case.files, cap, case.caps, case.on, case.wanted)
    BY <1>1, FolderTasksFitAnyFolder
  <2>2. QED
    BY <1>2, <2>1, Zenon
<1> DEFINE job == [task |-> None]
           sent == Dispatch(job, decision, case.files, 500, case.caps, case.on, case.wanted)
           alone(f) == Dispatch(job, decision, <<case.files[f]>>, 500, case.caps, case.on, case.wanted)
<1>4. \A f \in DOMAIN case.files :
        /\ sent.task[f] = alone(f).task[1]
        /\ \A g \in DOMAIN case.files : sent.whole => sent.task[f] = sent.task[g]
  BY <1>3, Zenon DEF FolderFits
<1> HIDE DEF sent, alone
<1>5. \A f \in DOMAIN case.files :
        /\ sent.task[f] = alone(f).task[1]
        /\ sent.whole => sent.task[f] = sent.task[1]
  BY <1>2, <1>4
<1>6. QED
  BY <1>5, Zenon DEF FolderTasksFit, sent, alone, decision

\* In every case that is put, what is done to a file fits it: its gate, the task
\* of its folder and the swap of its tracks.
THEOREM CasesRemediesFit == CasesSpec => []RemediesFit
<1>1. CaseOK => RemediesFit
  BY SwapCase, TaskCase, FolderCase DEF RemediesFit
<1>2. QED
  BY <1>1, CasesAreMade, PTL

\* The cases of names.
LEMMA NameCase == CaseOK => CaptionsKeepLanguage
<1> SUFFICES ASSUME CaseOK, case.kind = "name" PROVE CaptionsKeepLanguage
  BY DEF CaptionsKeepLanguage
<1>1. PICK T : case.name \in Seq(T) /\ case.name # <<>>
  BY DEF CaseOK
<1>2. \A c \in CaptionSuffixes : NameLanguage(Append(case.name, c)) = NameLanguage(case.name)
  BY <1>1, CaptionIsNoLanguage
<1>3. Last(case.name) \in LanguageTokens \ {"hi"}
        => NameLanguage(Append(case.name, "hi")) = Last(case.name)
  BY <1>1, HiIsAMark
<1>4. QED
  BY <1>2, <1>3 DEF CaptionsKeepLanguage

\* The cases of covered episodes.
LEMMA CoveredCase == CaseOK => CoveredByWanted
<1> DEFINE ep == [known |-> TRUE, file |-> "f", number |-> 1, wanted |-> case.wanted]
<1> SUFFICES ASSUME CaseOK, case.kind = "covered", case.place = "episode", case.answered, HeldBack(case)
             PROVE  \E s \in case.sidecars : ~Contains(s.name, "forced")
                                             /\ NameLanguage(s.name) \in case.wanted
  BY DEF CoveredByWanted
<1>1. EpisodeCovered(ep, case.answered, case.sidecars, Stem).hit
  BY DEF HeldBack
<1>2. ep.known = TRUE /\ ep.file # None /\ ep.wanted = case.wanted /\ ep.wanted # {}
  BY DEF CaseOK, None
<1>3. Stem # <<>>
  BY DEF Stem
<1> HIDE DEF ep
<1>4. QED
  BY <1>1, <1>2, <1>3, CoveredByWantedAnyEpisode

\* The cases of labels.
LEMMA LabelCase == CaseOK => UserVerdictWins
<1> SUFFICES ASSUME CaseOK, case.kind = "label", DOMAIN case.verdicts # {},
                    case.verdicts["f"].by = "user"
             PROVE  /\ LabelOfCase.langs = {"ja"}
                    /\ LabelOfCase.source = "user"
                    /\ ~LabelOfCase.suspect /\ ~LabelOfCase.unknown
  BY DEF UserVerdictWins
<1>1. /\ case.file.path = "f" /\ "f" \in DOMAIN case.verdicts
      /\ case.verdicts["f"].lang = "ja" /\ case.verdicts["f"].codes = {"ja"}
  BY DEF CaseOK
<1>2. Cardinality(case.verdicts["f"].codes) = 1 /\ case.verdicts["f"].lang # None
  BY <1>1, FS_Singleton DEF None
<1>3. QED
  BY <1>1, <1>2, UserVerdictWinsAnyFile DEF LabelOfCase

\* The cases of episodes that Bazarr does not see.
LEMMA BlindCase == CaseOK => BlindRowsAreNew
<1> DEFINE episode(i) == [id |-> i, hasFile |-> TRUE, file |-> case.files[i], stem |-> Stem]
           episodes == {episode(i) : i \in 1..3}
           rows == {episode(i) : i \in case.wanted}
           foreign == [i \in 1..3 |-> FALSE]
<1>1. (\A e \in episodes : e.id \in Int) /\ \A d, e \in episodes : d.id = e.id => d = e
  <2>1. \A i \in 1..3 : episode(i).id = i
    OBVIOUS
  <2> HIDE DEF episode
  <2>2. QED
    BY <2>1
<1> HIDE DEF episodes, rows, foreign
<1>2. LET blind == BlindEpisodes(episodes, rows, {}, case.suspect, foreign)
      IN /\ \A b \in blind, r \in rows : b.file # r.file
         /\ \A b, c \in blind : b.file = c.file => b = c
  BY <1>1, BlindRowsAreNewAnySeries
<1>3. QED
  BY <1>2 DEF BlindRowsAreNew, episodes, rows, foreign

\* The cases of libraries.
LEMMA RoutingCase == WantedOnce
<1> SUFFICES ASSUME case.kind = "routing", NEW w \in [bazarr : {"", "b", "other"}]
             PROVE  Cardinality({i \in Instances : w \in Routed({w}, Routing(case.libraries), Instances, i)}) = 1
  BY DEF WantedOnce
<1>1. PICK i \in Instances : \A j \in Instances :
        w \in Routed({w}, Routing(case.libraries), Instances, j) <=> j = i
  BY WantedOnceAnyLibraries DEF Instances
<1>2. {j \in Instances : w \in Routed({w}, Routing(case.libraries), Instances, j)} = {i}
  BY <1>1
<1>3. QED
  BY <1>2, FS_Singleton

\* In every case that is put, what the report says of a file fits what is known
\* of it: coverage, verified language, one row and one instance each.
THEOREM CasesRowsFit == CasesSpec => []RowsFit
<1>1. CaseOK => RowsFit
  BY NameCase, CoveredCase, LabelCase, BlindCase, RoutingCase DEF RowsFit
<1>2. QED
  BY <1>1, CasesAreMade, PTL

\* The cases of moved files.
LEMMA RelinkCase == CaseOK => RelinkOneToOne
BY RelinkOneToOneAnyFiles DEF CaseOK, RelinkOneToOne

\* The cases of ids.
LEMMA IdsCase == CaseOK => IdsNameTheirFile
<1> DEFINE off == [configured |-> FALSE, up |-> FALSE]
           arrs == [main |-> case.sonarr]
<1> SUFFICES ASSUME CaseOK, case.kind = "ids", NEW id \in ResolvedIds(case.path, case.sonarr, off)
             PROVE  EpisodeTarget(arrs, "main", NoOne, id.id) = [path |-> case.path, series |-> id.series]
  BY DEF IdsNameTheirFile
<1>1. id.kind = "episode"
  BY DEF ResolvedIds
<1>2. "main" = (IF NoOne # NoOne THEN NoOne ELSE "main") /\ arrs["main"] = case.sonarr
  OBVIOUS
<1>3. /\ \A e \in case.sonarr.episodes : e.id # NoId
      /\ \A d, e \in case.sonarr.episodes : d.id = e.id => d = e
      /\ \A f, g \in case.sonarr.files : f.id = g.id => f = g
  BY DEF CaseOK
<1> HIDE DEF off, arrs
<1>4. QED
  BY <1>1, <1>2, <1>3, IdsNameTheirFileAnyLibrary

\* In every case that is put, files are told apart: by the relink and by id.
THEOREM CasesFilesAreMatched == CasesSpec => []FilesAreMatched
<1>1. CaseOK => FilesAreMatched
  BY RelinkCase, IdsCase DEF FilesAreMatched
<1>2. QED
  BY <1>1, CasesAreMade, PTL

\* The cases of the review list.
LEMMA ReviewCase == CaseOK => ReviewPagesShowAll
<1> SUFFICES ASSUME CaseOK, case.kind = "review" PROVE ReviewPagesShowAll
  BY DEF ReviewPagesShowAll
<1>0. ReviewOK(case.rows, case.limit)
  BY DEF CaseOK
<1>1. case.limit \in Nat \ {0}
  BY <1>0 DEF ReviewOK
<1>2. PICK n \in Nat : DOMAIN case.rows = 1..n /\ \A i \in 1..n : case.rows[i].library = "l"
  BY <1>0 DEF ReviewOK
<1> DEFINE page(i) == GroupPage(case.rows, case.limit, i * case.limit)
           pages == 0..(page(0).pages - 1)
           shown == UNION {{[page |-> i, place |-> k, row |-> page(i).items[k]] :
                              k \in DOMAIN page(i).items} : i \in pages}
<1>3. /\ {x.row : x \in shown} = {case.rows[i] : i \in 1..n} /\ Cardinality(shown) = n
      /\ \A i \in pages : page(i).more <=> i + 1 \in pages
      /\ \A x, y \in shown : GroupKey(x.row) = GroupKey(y.row) => x.page = y.page
  BY <1>1, <1>2, ReviewPagesAnyRows
<1>4. ToSet(case.rows) = {case.rows[i] : i \in 1..n} /\ Len(case.rows) = n
  BY <1>2 DEF ToSet
<1> HIDE DEF shown, page
<1>5. ASSUME NEW x \in shown, NEW y \in shown, x.page # y.page,
             x.row.folder = "d" /\ y.row.folder = "d" /\ x.row.arr = y.row.arr /\ x.row.arr # NoArr,
             x.row.media = y.row.media
      PROVE  FALSE
  <2>1. \A z \in shown : \E i \in 1..n : z.row = case.rows[i]
    BY <1>3
  <2>2. x.row.library = "l" /\ y.row.library = "l"
    BY <1>2, <2>1
  <2>3. GroupKey(x.row) = GroupKey(y.row)
    BY <1>5, <2>2 DEF GroupKey
  <2>4. QED
    BY <1>3, <1>5, <2>3
<1>6. QED
  BY <1>3, <1>4, <1>5 DEF ReviewPagesShowAll, shown, page

\* The cases of the history.
LEMMA HistoryCase == CaseOK => HistoryIsWhole
<1> SUFFICES ASSUME CaseOK, case.kind = "history" PROVE HistoryIsWhole
  BY DEF HistoryIsWhole
<1>0. AttemptsOK(case.attempts)
  BY DEF CaseOK
<1>1. PICK n \in Nat : /\ DOMAIN case.attempts = 1..n
                       /\ \A i \in 1..n : /\ case.attempts[i].at \in Int
                                          /\ case.attempts[i].base = Base(case.attempts[i].path)
  BY <1>0 DEF AttemptsOK
<1> DEFINE view == HistoryView(case.attempts, case.live, case.waiting, {}, {})
           all(p) == {i \in 1..n : case.attempts[i].path = p}
<1>2. IsWhole(view, case.attempts, case.live, case.waiting)
  BY <1>1, HistoryIsWholeAnyAttempts
<1> HIDE DEF view
<1>3. \A p : Base(p) \notin case.live => \A i \in all(p) : case.attempts[i].base \notin case.live
  BY <1>1
<1>4. QED
  BY <1>1, <1>2, <1>3 DEF HistoryIsWhole, IsWhole, RowsFor, CountedFor, view

\* In every case that is put, the pages account for everything there is: those
\* of the review list for every row, the history for every attempt.
THEOREM CasesPagesShowAll == CasesSpec => []PagesShowAll
<1>1. CaseOK => PagesShowAll
  BY ReviewCase, HistoryCase DEF PagesShowAll
<1>2. QED
  BY <1>1, CasesAreMade, PTL

\* In every case that is put, retiming makes no cue unreadable to help another.
THEOREM CasesRetimeKeepsCues == CasesSpec => []RetimeKeepsCues
<1>1. CaseOK => RetimeKeepsCues
  BY RetimeKeepsCuesAnySubtitle DEF CaseOK, RetimeKeepsCues
<1>2. QED
  BY <1>1, CasesAreMade, PTL

\* The cases of recipes.
LEMMA RanksCase == CaseOK => RanksFollowLanguages
<1> DEFINE labels == Recipes \cup {"base"}
           before(k, l) == RankOf(case.sweeps, labels, k, 2) < RankOf(case.sweeps, labels, l, 2)
           row(l) == Overall(case.sweeps, l, 2)
           Follows(k, l) ==
             /\ AheadBy(1, case.sweeps, k, l) =>
                  before(k, l) \/ (row(k).mean = row(l).mean /\ row(k).wins <= row(l).wins)
             /\ AheadBy(2, case.sweeps, k, l) => before(k, l)
<1> SUFFICES ASSUME CaseOK, case.kind = "ranks", NEW k \in Recipes, NEW l \in Recipes
             PROVE  Follows(k, l)
  BY Zenon DEF RanksFollowLanguages
<1>1. SweepsOK(case.sweeps) /\ \A j \in Recipes : TriedIn(case.sweeps, j) = {"ja", "fr"}
  BY DEF CaseOK, RanksOK
<1>2. Cardinality({"ja", "fr"}) = 2
  <2> DEFINE ja == {"ja"}
  <2>1. {"ja", "fr"} = ja \cup {"fr"} /\ "fr" \notin ja
    OBVIOUS
  <2>2. IsFiniteSet(ja) /\ Cardinality(ja) = 1
    BY FS_Singleton
  <2> HIDE DEF ja
  <2>3. \A x : x \notin ja => Cardinality(ja \cup {x}) = 1 + 1
    BY <2>2, FS_AddElement
  <2>4. Cardinality(ja \cup {"fr"}) = 1 + 1
    BY <2>1, <2>3, Zenon
  <2>5. QED
    BY <2>1, <2>4
<1>3. IsFiniteSet(labels) /\ k \in labels /\ l \in labels
  <2>1. labels = ({"k"} \cup {"l"}) \cup {"base"}
    BY DEF Recipes
  <2>2. IsFiniteSet({"k"}) /\ IsFiniteSet({"l"}) /\ IsFiniteSet({"base"})
    BY FS_Singleton
  <2>3. QED
    BY <2>1, <2>2, FS_Union
<1> HIDE DEF labels
<1>4. \A g \in {"ja", "fr"} : /\ ByLanguage(case.sweeps, g)[k].mean \in Int
                             /\ ByLanguage(case.sweeps, g)[l].mean \in Int
  BY <1>1, LanguageRanks
<1>5. AheadBy(2, case.sweeps, k, l) => AheadBy(1, case.sweeps, k, l)
  BY <1>4 DEF AheadBy
<1>6. /\ row(k).mean \in Int /\ row(k).wins \in Int
      /\ row(l).mean \in Int /\ row(l).wins \in Int
  BY <1>1, OverallIsInt
<1>7. ASSUME AheadBy(1, case.sweeps, k, l)
      PROVE  /\ row(k).mean >= row(l).mean
             /\ row(k).mean > row(l).mean \/ row(k).wins > row(l).wins => before(k, l)
             /\ AheadBy(2, case.sweeps, k, l) => before(k, l)
  <2>1. \A g \in TriedIn(case.sweeps, k) :
          ByLanguage(case.sweeps, g)[k].mean > ByLanguage(case.sweeps, g)[l].mean
    BY <1>1, <1>4, <1>7 DEF AheadBy
  <2>2. AheadBy(2, case.sweeps, k, l) =>
          \A g \in TriedIn(case.sweeps, k) :
            ByLanguage(case.sweeps, g)[k].mean > ByLanguage(case.sweeps, g)[l].mean + 1
    BY <1>1, <1>4 DEF AheadBy
  <2>3. 2 \in Nat \ {0} /\ Cardinality(TriedIn(case.sweeps, k)) >= 2
        /\ TriedIn(case.sweeps, k) = TriedIn(case.sweeps, l)
    BY <1>1, <1>2
  <2>4. QED
    BY <1>1, <1>3, <2>1, <2>2, <2>3, BetterEverywhereRanksBefore
<1> HIDE DEF before, row
<1>8. QED
  BY <1>5, <1>6, <1>7

\* In every case that is put, a recipe that is better in every language is
\* ranked before the other.
THEOREM CasesRanksFollowLanguages == CasesSpec => []RanksFollowLanguages
BY RanksCase, CasesAreMade, PTL
=============================================================================
