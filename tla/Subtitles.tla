----------------------------- MODULE Subtitles -----------------------------
(* What is said about a subtitle file and done to it: how readable it is,    *)
(* what in it was never said, how it is timed anew, which file beside a      *)
(* video is the one that was written (subtitle_readability.py,               *)
(* transcript_signals.py, vad.py, subtitle_retime.py, completion_watcher.py).*)
(* A cue is [from, to, chars, lines, width, text]: times in milliseconds,    *)
(* the characters, lines and longest line of its text, and its words.        *)
EXTENDS Integers, Sequences, FiniteSets, SequencesExt

Atleast(a, b) == IF a >= b THEN a ELSE b
Atmost(a, b) == IF a <= b THEN a ELSE b
Lasting(c) == Atleast(0, c.to - c.from)

----------------------------------------------------------------------------
(* Readability. *)
MaxCps == 20
CriticalCps == 25
MaxCpl == 42
MaxLines == 2
MinDuration == 833
MaxDuration == 7000

\* the cue is read faster than cps characters a second; without a duration it is
Faster(c, cps) == IF Lasting(c) = 0 THEN TRUE ELSE c.chars * 1000 > cps * Lasting(c)

\* analyze_cues: the complaints about the i-th cue
Complaints(cues, i, cpsMax, cpsCritical) ==
  LET c == cues[i]
      kinds == {k \in {"lines", "cpl", "critical cps", "cps", "too_short", "too_long", "overlap"} :
        CASE k = "lines" -> c.lines > MaxLines
          [] k = "cpl" -> c.width > MaxCpl
          [] k = "critical cps" -> Lasting(c) > 0 /\ Faster(c, cpsCritical)
          [] k = "cps" -> Lasting(c) > 0 /\ Faster(c, cpsMax) /\ ~Faster(c, cpsCritical)
          [] k = "too_short" -> 0 < Lasting(c) /\ Lasting(c) < MinDuration
          [] k = "too_long" -> Lasting(c) > MaxDuration
          [] k = "overlap" -> i < Len(cues) /\ c.to > cues[i + 1].from}
  IN {[kind |-> k, severe |-> k \in {"critical cps", "overlap"}] : k \in kinds}

\* parse_srt: blocks without a time are not cues
ParsedCues(blocks) == SelectSeq(blocks, LAMBDA b : b.timed)

----------------------------------------------------------------------------
(* Signs of invention. Shares are in percent. *)
Total(spans) == FoldSet(LAMBDA s, sum : sum + Lasting(s), 0, spans)
Shared(a, b) == Lasting([from |-> Atleast(a.from, b.from), to |-> Atmost(a.to, b.to)])
SharedAll(a, spans) == FoldSet(LAMBDA s, sum : sum + Shared(a, s), 0, spans)

\* silence_text_ratio
SilenceShare(cues, speech) ==
  LET timed == {i \in DOMAIN cues : Lasting(cues[i]) > 0}
      total == FoldSet(LAMBDA i, sum : sum + Lasting(cues[i]), 0, timed)
      outside == FoldSet(LAMBDA i, sum :
                   sum + Atleast(0, Lasting(cues[i]) - SharedAll(cues[i], speech)), 0, timed)
  IN IF speech = {} \/ total = 0 THEN 0 ELSE (100 * outside) \div total

\* uncovered_speech_ratio
UncoveredShare(cues, speech) ==
  LET total == Total(speech)
      covered == FoldSet(LAMBDA s, sum : sum + SharedAll(s, ToSet(cues)), 0, speech)
  IN IF total = 0 THEN 0 ELSE (100 * (total - Atmost(covered, total))) \div total

\* repeated_line_ratio
RepeatShare(cues) ==
  LET texts == SelectSeq([i \in DOMAIN cues |-> cues[i].text], LAMBDA t : t # {})
  IN IF Len(texts) <= 1 THEN 0
     ELSE (100 * (Len(texts) - Cardinality(ToSet(texts)))) \div Len(texts)

\* canned_phrase_hits, ad_boilerplate_hits: the latter among the first and last
CannedHits(cues, canned) == Cardinality({i \in DOMAIN cues : cues[i].text \cap canned # {}})
AdHits(cues, ads, edge) ==
  Cardinality({i \in DOMAIN cues : (i <= edge \/ i > Len(cues) - edge) /\ cues[i].text \cap ads # {}})

----------------------------------------------------------------------------
(* Speech found in the audio. *)
\* _probs_to_ranges: runs of windows that are speech, with their numbers
SpeechRuns(loud) ==
  {[from |-> a - 1, to |-> b] : a, b \in DOMAIN loud} \cap
  {r \in [from : 0..Len(loud), to : 0..Len(loud)] :
     /\ r.from < r.to
     /\ \A i \in (r.from + 1)..r.to : loud[i]
     /\ r.from > 0 => ~loud[r.from]
     /\ r.to < Len(loud) => ~loud[r.to + 1]}

\* normalize_speech_ranges: what is close is one, what is short is dropped
Normalized(spans, gap, least) ==
  LET starts == {s.from : s \in {x \in spans :
                   \A y \in spans : y.from >= x.from \/ y.to + gap < x.from}}
      endOf(a) == LET tos == {s.to : s \in {x \in spans : x.from >= a /\
                                \A b \in starts : b > a => x.from < b}}
                  IN CHOOSE e \in tos : \A x \in tos : x <= e
  IN {[from |-> a, to |-> endOf(a)] : a \in {b \in starts : endOf(b) - b >= least}}

Longest(spans) == CHOOSE s \in spans : \A t \in spans : Lasting(t) <= Lasting(s)
Clamped(start, duration, len) == Atleast(0, Atmost(start, Atleast(0, duration - len)))

\* select_speech_window: in the middle of the longest speech
SpeechWindow(spans, duration, len) ==
  Clamped((Longest(spans).from + Longest(spans).to) \div 2 - len \div 2, duration, len)

\* select_windows: speech, the end of speech, and the longest silence, none of
\* them too close to an earlier one
StrataWindows(spans, duration, win) ==
  LET gaps == {[from |-> a, to |-> b] : a \in {0} \cup {s.to : s \in spans},
                                        b \in {duration} \cup {s.from : s \in spans}}
      quiet == {g \in gaps : g.from < g.to /\ \A s \in spans : s.to <= g.from \/ s.from >= g.to}
      wanted == <<[start |-> SpeechWindow(spans, duration, win), kind |-> "speech"],
                  [start |-> Clamped(Longest(spans).to - (win - 8), duration, win), kind |-> "boundary"]>>
                \o IF quiet = {} \/ Lasting(Longest(quiet)) < 6 THEN <<>>
                   ELSE <<[start |-> Clamped((Longest(quiet).from + Longest(quiet).to - win) \div 2,
                                             duration, win), kind |-> "silence"]>>
      far(w, picks) == \A i \in DOMAIN picks :
        2 * (w.start - picks[i].start) >= win \/ 2 * (picks[i].start - w.start) >= win
  IN IF spans = {} THEN <<[start |-> 0, kind |-> "fallback"]>>
     ELSE FoldLeft(LAMBDA picks, w : IF far(w, picks) THEN Append(picks, w) ELSE picks, <<>>, wanted)

----------------------------------------------------------------------------
(* Timing. *)
TargetCps == 17
MinCue == 1000
MinGap == 100
MaxCue == 7000
MaxBorrow == 500
\* the time chars take at cps, rounded
TimeFor(chars, cps) == (2000 * chars + cps) \div (2 * cps)

\* retime_cues: the end of the i-th cue
ExtendedEnd(cues, i) ==
  LET c == cues[i]
      cap == c.from + MaxCue
      bound == IF i < Len(cues) THEN Atmost(cues[i + 1].from - MinGap, cap) ELSE cap
      padded == Atleast(c.to, c.from + MinCue)
      desired == IF Faster(c, TargetCps) THEN Atleast(padded, c.from + TimeFor(c.chars, TargetCps))
                 ELSE padded
  IN IF bound <= c.to THEN c.to ELSE Atleast(c.to, Atmost(desired, bound))
Extended(cues) == [i \in DOMAIN cues |-> [cues[i] EXCEPT !.to = ExtendedEnd(cues, i)]]

\* Mutant: the next cue gives whatever it lasts.
LoanOfAll(a, b) ==
  LET want == Atmost(a.from + TimeFor(a.chars, CriticalCps), a.from + MaxCue) - a.to
      slack == b.to - b.from
      give == Atleast(0, Atmost(want, Atmost(slack, MaxBorrow)))
  IN IF Lasting(a) > 0 /\ Faster(a, CriticalCps) /\ want > 0 /\ give = want THEN give ELSE 0

\* _borrow_from_next: what b lends a, all that a lacks or nothing
Loan(a, b) ==
  LET want == Atmost(a.from + TimeFor(a.chars, CriticalCps), a.from + MaxCue) - a.to
      slack == b.to - b.from - TimeFor(b.chars, CriticalCps)
      give == Atleast(0, Atmost(want, Atmost(slack, MaxBorrow)))
  IN IF Lasting(a) > 0 /\ Faster(a, CriticalCps) /\ want > 0 /\ give = want THEN give ELSE 0

Delayed(c, time) == [c EXCEPT !.from = c.from + time]
Prolonged(c, time) == [c EXCEPT !.to = c.to + time]

\* what each cue is lent by the next, from the first pair to the last: a cue
\* that lent begins later
Lent(cues) ==
  LET lent[i \in 0..(Len(cues) - 1)] ==
        IF i = 0 THEN 0 ELSE Loan(Delayed(cues[i], lent[i - 1]), cues[i + 1])
  IN lent
Borrowed(cues) ==
  LET lent == Lent(cues)
      gain(i) == IF i < Len(cues) THEN lent[i] ELSE 0
  IN [i \in DOMAIN cues |-> Prolonged(Delayed(cues[i], lent[i - 1]), gain(i))]

Retimed(cues) == IF Len(cues) < 2 THEN Extended(cues) ELSE Borrowed(Extended(cues))

----------------------------------------------------------------------------
(* The file that was written. A name is the sequence of its parts after the *)
(* video's name, without "srt".                                             *)
\* Mutant: what was there before the job counts too.
CandidatesOfAll(names, fresh) == names

\* only what was written since the job was queued, when there is such a file
SidecarCandidates(names, fresh) == IF names \cap fresh # {} THEN names \cap fresh ELSE names

Rank(name) ==
  LET parts == ToSet(name)
  IN CASE name = <<"en">> -> 0
       [] "forced" \in parts -> 4
       [] "subgen" \in parts /\ parts \cap {"en", "eng"} # {} -> 1
       [] "subgen" \in parts -> 2
       [] OTHER -> 3
\* choose_srt_sidecar: the best ranks, of which the first name is taken
WrittenSidecars(names, fresh) ==
  LET all == SidecarCandidates(names, fresh)
  IN {n \in all : \A m \in all : Rank(n) <= Rank(m)}

\* _upload_language: the last language in the name; "hi" after another is not one
UploadLanguage(name, languages) ==
  LET langs == SelectSeq(name, LAMBDA t : t \in languages)
  IN CASE langs = <<>> -> "en"
       [] Last(langs) = "hi" /\ Len(langs) > 1 -> langs[Len(langs) - 1]
       [] OTHER -> Last(langs)

\* _run_retime: a file from before the job is left alone
Retimeable(mtime, queuedAt, slack) == queuedAt = 0 \/ mtime >= queuedAt - slack
=============================================================================
