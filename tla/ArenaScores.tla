---------------------------- MODULE ArenaScores ----------------------------
(* What a sweep of the tuning lab concludes: the scores of the recipes on a  *)
(* clip (tournament.py), of a sweep over its clips (arena.py), of all sweeps *)
(* by language and over all languages (arena_store.py), and the language of  *)
(* a sweep (arena_service.py). Scores (0..100) are in hundredths of a point,  *)
(* the last digit the program keeps, and shares in hundredths of a percent;  *)
(* Nothing stands for nothing said.                                          *)
EXTENDS Integers, Sequences, FiniteSets, SequencesExt

Nothing == "none"

\* round(total / n, 2), the nearest hundredth. Of two that are as near binary
\* floating point takes either; here it is the even one.
Rounded(total, n) ==
  LET q == total \div n
      over == 2 * (total - n * q)
  IN IF over > n \/ (over = n /\ q % 2 = 1) THEN q + 1 ELSE q
Mean(total, n) == IF n = 0 THEN 0 ELSE Rounded(total, n)

\* a mean that is not rounded, in parts of a hundredth
Fine == 1000
FineMean(total, n) == IF n = 0 THEN 0 ELSE (Fine * total) \div n

SumOf(f) == FoldFunction(+, 0, f)
Capped(x, cap) == IF x > cap THEN cap ELSE x
NotBelow0(x) == IF x < 0 THEN 0 ELSE x

----------------------------------------------------------------------------
(* One clip. *)
\* score_entrant: e has the signals of a recipe's subtitle; a clip without
\* speech is right when it has none
Scored(e) ==
  LET signs == (IF e.nonSpeech THEN 10000 ELSE e.silence) + e.repeated
               + 4000 * Capped(e.canned, 3)
      twice == NotBelow0(2 * (10000 - signs - Capped(e.load, 2000)) - e.uncovered)
      blended == IF e.adequacy = Nothing THEN Rounded(twice, 2)
                 ELSE Rounded(140 * e.adequacy + 30 * twice, 200)
  IN CASE e.cues = 0 /\ e.nonSpeech -> [disqualified |-> FALSE, composite |-> 10000]
       [] e.cues = 0 -> [disqualified |-> TRUE, composite |-> 0]
       [] OTHER -> [disqualified |-> FALSE, composite |-> blended]

\* consensus_scores: words[l] are the words of recipe l; those of more than half
\* are agreed on. The F1 of precision and recall is 2|agreed and own| over the
\* sum of both sizes.
Agreed(words) ==
  LET all == UNION {words[l] : l \in DOMAIN words}
  IN {w \in all : 2 * Cardinality({l \in DOMAIN words : w \in words[l]}) > Cardinality(DOMAIN words)}
F1(words, l) ==
  LET own == Cardinality(words[l] \cap Agreed(words))
      sizes == Cardinality(words[l]) + Cardinality(Agreed(words))
  IN IF own = 0 THEN 0 ELSE Rounded(20000 * own, sizes)
\* the mean overlap of two recipes
Agreement(words) ==
  LET pairs == {p \in SUBSET DOMAIN words : Cardinality(p) = 2}
      overlap(p) == LET a == CHOOSE x \in p : TRUE  b == CHOOSE y \in p : y # a
                        both == Cardinality(words[a] \cup words[b])
                    IN FineMean(10000 * Cardinality(words[a] \cap words[b]), both)
  IN IF pairs = {} THEN Nothing
     ELSE Mean(SumOf([p \in pairs |-> overlap(p)]), Fine * Cardinality(pairs))

\* run_tournament: the cards of a clip, what strays from the others pays for it
Cards(entrants, words) ==
  LET own(l) == Scored(entrants[l])
      scorable == {l \in DOMAIN entrants : ~own(l).disqualified}
      heard == [l \in scorable |-> words[l]]
  IN [l \in DOMAIN entrants |->
        IF l \in scorable /\ Cardinality(scorable) >= 2
        THEN [own(l) EXCEPT !.composite = Rounded(NotBelow0(5 * @ - 2 * (10000 - F1(heard, l))), 5)]
        ELSE own(l)]
\* the best; among equals any
ClipWinners(cards) ==
  LET left == {l \in DOMAIN cards : ~cards[l].disqualified}
  IN {l \in left : \A k \in left : cards[k].composite <= cards[l].composite}

----------------------------------------------------------------------------
(* One sweep. clips is a sequence of [cards, winner, agreement]. *)
\* _aggregate: a recipe with no card on a clip scores 0 there
SweepRow(clips, l) ==
  LET has == {i \in DOMAIN clips : l \in DOMAIN clips[i].cards}
  IN [mean |-> Mean(SumOf([i \in has |-> clips[i].cards[l].composite]), Len(clips)),
      won |-> Cardinality({i \in DOMAIN clips : clips[i].winner = l}),
      scored |-> Cardinality({i \in has : ~clips[i].cards[l].disqualified})]

\* _confidence: the winner must hold on the clips (in percent) and the recipes
\* must agree
Confidence(consistency, agreement, clips) ==
  LET agr == IF agreement = Nothing THEN 0 ELSE agreement
  IN CASE clips < 2 \/ consistency = Nothing -> "low"
       [] consistency >= 67 /\ agr >= 7000 -> "high"
       [] consistency >= 50 /\ agr >= 6000 -> "moderate"
       [] OTHER -> "low"

\* order: the recipes as they are ranked
SweepResult(clips, labels) ==
  LET row(l) == SweepRow(clips, l)
      order == SetToSortSeq(labels, LAMBDA a, b : row(a).mean > row(b).mean)
      usable == SelectSeq(order, LAMBDA l : row(l).scored > 0)
      winner == IF row(order[1]).mean > 0 THEN order[1] ELSE Nothing
      decided == {i \in DOMAIN clips : clips[i].winner # Nothing}
      held == 100 * Cardinality({i \in decided : clips[i].winner = winner})
      unknown == winner = Nothing \/ decided = {}
      agreeing == {i \in DOMAIN clips : clips[i].agreement # Nothing}
      agreement == IF agreeing = {} THEN Nothing
                   ELSE 10 * Mean(SumOf([i \in agreeing |-> clips[i].agreement]),
                                  10 * Cardinality(agreeing))
  IN [winner |-> winner,
      consistency |-> IF unknown THEN Nothing ELSE Rounded(held, Cardinality(decided)),
      tie |-> Len(usable) >= 2 /\ row(usable[1]).mean - row(usable[2]).mean < 200,
      confidence |-> Confidence(IF unknown THEN Nothing ELSE held \div Cardinality(decided),
                                agreement, Len(clips)),
      means |-> [l \in labels |-> row(l).mean]]

\* run_arena: what each clip gave; a recipe that fails on a clip has no card, and
\* an unsupported subgen fails the sweep before it has begun
ClipOf(outputs, words, agreement) ==
  LET made == {l \in DOMAIN outputs : ~outputs[l].failed}
      cards == Cards([l \in made |-> outputs[l].signals], [l \in made |-> words[l]])
  IN [cards |-> cards, agreement |-> agreement,
      winner |-> IF ClipWinners(cards) = {} THEN Nothing ELSE CHOOSE l \in ClipWinners(cards) : TRUE]

----------------------------------------------------------------------------
(* The language of a sweep. *)
\* parse_robust_detect: chunks is the sequence of languages heard
Detected(answer) ==
  IF answer.total = 0 THEN Nothing
  ELSE [language |-> IF answer.language = "und" THEN Nothing ELSE answer.language,
        agreeing |-> answer.agreeing, unanimous |-> answer.total >= 2 /\ answer.agreeing = answer.total,
        heard |-> ToSet(answer.chunks) \ {Nothing, "und"}]

\* resolve_source_language
SourceOf(det, tag, submit, tracks) ==
  LET mixed == ~det.unanimous /\ det.agreeing >= 2 /\ Cardinality(det.heard) >= 2
      is(lang, source, m, wrong) == [lang |-> lang, source |-> source, mixed |-> m, mislabel |-> wrong]
  IN CASE submit # Nothing -> is(submit, "user", FALSE, FALSE)
       [] det.unanimous /\ det.language # Nothing ->
            is(det.language, "whisper", FALSE,
               tag \notin {Nothing, det.language} /\ Cardinality(tracks) < 2)
       [] tag # Nothing -> is(tag, "tagged", mixed, FALSE)
       [] det.language # Nothing /\ det.agreeing >= 2 -> is(det.language, "whisper-weak", mixed, FALSE)
       [] OTHER -> is(Nothing, Nothing, mixed, FALSE)

\* _arena_fallback_lang: a user's word, a track's tag, what coverage knows
LanguageKnown(verified, trackTags, covered) ==
  LET first(s) == IF \E i \in DOMAIN s : s[i] \notin {Nothing, "und"}
                  THEN SelectSeq(s, LAMBDA c : c \notin {Nothing, "und"})[1] ELSE Nothing
  IN first(<<verified>> \o trackTags \o covered)

\* create_arena_run: refused, one sweep, or one per audio track
Refusal(req) ==
  CASE req.path = Nothing -> 400
    [] ~req.file -> 404
    [] Cardinality(ToSet(req.labels)) # Len(req.labels) -> 400
    [] req.cpsMax <= 0 \/ req.cpsMax >= req.cpsCritical -> 400
    [] ~req.supported -> 503
    [] OTHER -> 0
SweepsOf(req, tracks) ==
  IF req.language = Nothing /\ Cardinality(ToSet(tracks) \ {Nothing}) >= 2
  THEN [i \in DOMAIN tracks |-> [track |-> i - 1, language |-> tracks[i]]]
  ELSE <<[track |-> 0, language |-> req.language]>>

\* arena_audio_issues: the newest sweep of each unverified file that is at issue
AudioIssues(sweeps, verified) ==
  LET open == {i \in DOMAIN sweeps : /\ sweeps[i].done /\ (sweeps[i].mislabel \/ sweeps[i].mixed)
                                     /\ sweeps[i].path \notin verified}
  IN {i \in open : \A j \in open : sweeps[j].path = sweeps[i].path => j <= i}

----------------------------------------------------------------------------
(* All sweeps: a set of [path, language, winner, tie, means]. *)
PathsSwept(sweeps, lang) == {s.path : s \in {t \in sweeps : t.language = lang}}
SweepsOfFile(sweeps, lang, path) == {s \in sweeps : s.language = lang /\ s.path = path}

\* these are not rounded
FileMeans(own) ==
  [l \in UNION {DOMAIN s.means : s \in own} |->
     LET tried == {s \in own : l \in DOMAIN s.means}
     IN FineMean(SumOf([s \in tried |-> s.means[l]]), Cardinality(tried))]

\* a file votes for the recipe that won most of its sweeps, or, when all were
\* ties, for the one with the best mean; among equals any
FileWinners(own, means) ==
  LET clear == {s \in own : ~s.tie /\ s.winner # Nothing}
      votes == [l \in {s.winner : s \in clear} |-> Cardinality({s \in clear : s.winner = l})]
      score == IF clear # {} THEN votes ELSE means
  IN {l \in DOMAIN score : \A k \in DOMAIN score : score[k] <= score[l]}

\* one file, and those sweeps of one language that are its own
FileRow(own, means) ==
  [means |-> means,
   winner |-> IF FileWinners(own, means) = {} THEN Nothing ELSE CHOOSE l \in FileWinners(own, means) : TRUE]

\* one language: a recipe counts the files it was tried on and those it won
LanguageRows(files) ==
  [l \in UNION {DOMAIN files[p].means : p \in DOMAIN files} |->
     LET tried == {p \in DOMAIN files : l \in DOMAIN files[p].means}
     IN [files |-> Cardinality(tried),
         wins |-> Cardinality({p \in tried : files[p].winner = l}),
         mean |-> Mean(SumOf([p \in tried |-> files[p].means[l]]), Fine * Cardinality(tried))]]

\* aggregate_runs_by_language
ByLanguage(sweeps, lang) ==
  LET own(p) == SweepsOfFile(sweeps, lang, p)
  IN LanguageRows([p \in PathsSwept(sweeps, lang) |-> FileRow(own(p), FileMeans(own(p)))])

\* Mutant: the files of all languages are put together.
OverallPooled(sweeps, l, minLanguages) ==
  LET own == {s \in sweeps : s.language # "und" /\ l \in DOMAIN s.means}
      n == Cardinality({s.language : s \in own})
  IN [mean |-> Mean(SumOf([s \in own |-> s.means[l]]), Cardinality(own)),
      languages |-> n, files |-> Cardinality(own), eligible |-> n >= minLanguages,
      wins |-> Cardinality({s \in own : s.winner = l}), confidence |-> "low"]

\* aggregate_global_leaderboard: the mean, rounded again, of the languages' rounded
\* means; "und" is not a language, and a recipe of too few has no rank
OverallRow(of, minLanguages) ==
  LET n == Cardinality(DOMAIN of)
      files == SumOf([g \in DOMAIN of |-> of[g].files])
  IN [mean |-> Mean(SumOf([g \in DOMAIN of |-> of[g].mean]), n),
      languages |-> n, files |-> files, eligible |-> n >= minLanguages,
      wins |-> SumOf([g \in DOMAIN of |-> of[g].wins]),
      confidence |-> CASE n >= 3 /\ files >= 10 -> "high"
                       [] n >= 2 \/ files >= 5 -> "moderate" [] OTHER -> "low"]
Overall(sweeps, l, minLanguages) ==
  LET tried == {s.language : s \in {t \in sweeps : l \in DOMAIN t.means}} \ {"und"}
  IN OverallRow([g \in tried |-> ByLanguage(sweeps, g)[l]], minLanguages)

\* the ranks of the eligible ones
RankAmong(rows, l) ==
  LET above == {k \in DOMAIN rows : /\ rows[k].eligible
                                   /\ \/ rows[k].mean > rows[l].mean
                                      \/ rows[k].mean = rows[l].mean /\ rows[k].wins > rows[l].wins}
  IN IF rows[l].eligible THEN Cardinality(above) + 1 ELSE Nothing
RankOf(sweeps, labels, l, minLanguages) ==
  RankAmong([k \in labels |-> Overall(sweeps, k, minLanguages)], l)
=============================================================================
