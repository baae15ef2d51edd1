------------------------------- MODULE Review -------------------------------
(* The list of files whose language a user is asked to confirm, and its     *)
(* pages (routers/audio_lang.py); the renames that are proposed for rows    *)
(* whose files have moved (relink.py). Both are answered from a snapshot    *)
(* and from the store as it is now.                                         *)
EXTENDS Integers, Sequences, FiniteSets, SequencesExt, Places

----------------------------------------------------------------------------
(* pending_review. A row has its file, its folder, its title, what the      *)
(* *arr knows it as, and the doubts of the coverage build.                  *)

NoFile == "no file"
NoArr == 0
Flags == {"track_mismatch", "multilingual", "suspect", "unknown"}
NoFlag == "none"

\* the flag of a row: a wrong default track goes first, unless the user
\* dismissed it since the build; several languages the machine heard wait for
\* the user; what is verified is not asked again
FlagOf(row, sources, dismissed) ==
  LET word(p) == IF p \in DOMAIN sources THEN sources[p] ELSE NoFlag
      words == {word(row.file), word(row.folder)}
  IN CASE row.mismatch -> IF row.file \in dismissed THEN NoFlag ELSE "track_mismatch"
       [] ~row.mismatch /\ "auto-high-conf-multi" \in words -> "multilingual"
       [] ~row.mismatch /\ "auto-high-conf-multi" \notin words /\ words # {NoFlag} -> NoFlag
       [] OTHER -> IF row.suspect THEN "suspect" ELSE IF row.unknown THEN "unknown" ELSE NoFlag

\* the counts are taken after the search and before the filter
CountsByFlag(rows) == [f \in Flags |-> Cardinality({i \in DOMAIN rows : rows[i].flag = f})]

FilteredBy(rows, flag) == IF flag = "all" THEN rows ELSE SelectSeq(rows, LAMBDA r : r.flag = flag)

\* _sort_pending_review_rows: films last, then titles, then files. Titles and
\* files are numbered in their order.
SortedRows(rows) ==
  LET lane(r) == IF r.media = "movie" THEN 1 ELSE 0
      before(r, s) ==
        \/ lane(r) < lane(s)
        \/ lane(r) = lane(s) /\ r.title < s.title
        \/ lane(r) = lane(s) /\ r.title = s.title /\ r.order < s.order
      places == DOMAIN rows
  IN Picked(rows, places, {p \in places \X places :
                             \/ before(rows[p[1]], rows[p[2]])
                             \/ ~before(rows[p[2]], rows[p[1]]) /\ p[1] < p[2]})

\* _pending_group_key, with _row_library_slug
GroupKey(row) ==
  LET lane == IF row.media = "movie" THEN "movie" ELSE "series"
  IN CASE row.arr # NoArr -> <<row.library, lane, "arr", row.arr>>
       [] row.arr = NoArr /\ row.folder # NoFile -> <<row.library, lane, "root", row.folder>>
       [] OTHER -> <<row.library, lane, "file", row.file>>

\* the groups of the rows, each as the set of the places of its rows
GroupsOf(rows) ==
  {{j \in DOMAIN rows : GroupKey(rows[j]) = GroupKey(rows[i])} : i \in DOMAIN rows}

\* Mutant: the rows are cut into pages before they are grouped.
GroupPageOfRows(rows, limit, offset) ==
  [items |-> SubSeq(rows, offset + 1, IF offset + limit < Len(rows) THEN offset + limit ELSE Len(rows)),
   pages |-> (Cardinality(GroupsOf(rows)) + limit - 1) \div limit,
   more |-> offset + limit < Cardinality(GroupsOf(rows))]

\* _group_and_page: whole groups, in the order of their first rows, with
\* every row they have
GroupPage(rows, limit, offset) ==
  LET groups == GroupsOf(rows)
      before(g, h) == \E i \in g : \A j \in h : i < j
      number(g) == Cardinality({h \in groups : before(h, g)})
      selected == {g \in groups : offset <= number(g) /\ number(g) < offset + limit}
      places == UNION selected
      together == {p \in places \X places : \E g, h \in selected :
                     p[1] \in g /\ p[2] \in h /\ (before(g, h) \/ (g = h /\ p[1] < p[2]))}
  IN [items |-> Picked(rows, places, together),
      pages |-> (Cardinality(groups) + limit - 1) \div limit,
      more |-> offset + limit < Cardinality(groups)]

\* list_series_intents and list_series_suggestions enrich what the store has
\* with the rows of the snapshot under the prefix
CoveredBy(prefix, rows) == Cardinality({i \in DOMAIN rows : IsPrefix(prefix, rows[i].path)})

\* whisper_detect: what ends the request before subgen is asked
DetectRefused(path, caps, file) ==
  CASE path = <<>> -> 400
    [] path # <<>> /\ ~caps.robust -> 503
    [] path # <<>> /\ caps.robust /\ ~file.inside -> 400
    [] path # <<>> /\ caps.robust /\ file.inside /\ ~file.exists -> 404
    [] OTHER -> 0

\* verification_contradicts_probe: the file is worth a fresh probe
ContradictsProbe(probe, lang) ==
  lang # NoFlag /\ (~probe.known \/ probe.langs \ {"und"} = {} \/ lang \notin probe.langs)

----------------------------------------------------------------------------
(* relink.py. A path is its library and the segments below it.              *)

MinVerified == 3       \* RULE_MIN_VERIFIED
MinTail == 3           \* MIN_TAIL
MinTailSized == 2      \* MIN_TAIL_SIZED
NoSize == 0

\* _shared_tail
SharedTail(a, b) ==
  LET equal(n) == n <= Len(a) /\ n <= Len(b) /\ \A i \in 0..(n - 1) : a[Len(a) - i] = b[Len(b) - i]
  IN CHOOSE n \in 0..Len(a) : equal(n) /\ ~equal(n + 1)

\* walk_inventory: a library that cannot be read in full offers nothing
Inventory(files, failed) == {f \in files : f.path.library \notin failed}

\* the files that may be the stale row: the tail of their paths is the same,
\* and so is the size, where one is known
Candidates(stale, size, inventory) ==
  LET tail(f) == SharedTail(stale.segs, f.path.segs)
      near == {f \in inventory : f.path # stale /\ tail(f) >= MinTailSized}
  IN IF size # NoSize THEN {f \in near : f.size = size}
     ELSE {f \in near : tail(f) >= MinTail}

\* _unique_best: the longest tail, unless two share it
Best(stale, found) ==
  LET longest == {f \in found : \A g \in found : SharedTail(stale.segs, g.path.segs)
                                                   <= SharedTail(stale.segs, f.path.segs)}
  IN IF Cardinality(longest) = 1 THEN longest ELSE {}

\* the rule a pair belongs to: what the head of the path was and is
HeadsOf(old, new) ==
  LET n == SharedTail(old.segs, new.segs)
      head(p) == <<p.library, SubSeq(p.segs, 1, Len(p.segs) - n)>>
  IN <<head(old), head(new)>>

\* Mutant: two rows may claim a file.
MutualUnchecked(matches) == matches

\* the pairs, of the paths for which one file is the best, and no other path
\* claims that file
Mutual(matches) == {m \in matches : \A k \in matches : k.new = m.new => k = m}

\* the files each stale row may be
Matches(stale, sizes, inventory, failed) ==
  LET found(s) == Best(s, Candidates(s, sizes[s], Inventory(inventory, failed)))
  IN UNION {{[old |-> s, new |-> f.path, how |-> IF sizes[s] # NoSize THEN "size" ELSE "path_only"] :
               f \in found(s)} :
            s \in {p \in stale : p.library \notin failed /\ Len(p.segs) >= MinTailSized}}

\* the rules under which a file was found at the place of a row, with another size
Mismatched(stale, sizes, inventory, failed) ==
  LET files == Inventory(inventory, failed)
      changed == {p \in stale : /\ p.library \notin failed /\ sizes[p] # NoSize
                                /\ Candidates(p, sizes[p], files) = {}}
  IN UNION {{HeadsOf(s, f.path) : f \in Best(s, Candidates(s, NoSize, files))} : s \in changed}

\* analyse: rules with their pairs. A pair whose target has a row is left
\* out; pairs by path alone are withheld from a rule no size supports, or one
\* a size contradicts; a rule is offered when it moves enough verdicts.
Rules(stale, sizes, verified, probed, inventory, failed) ==
  LET matches == Mutual(Matches(stale, sizes, inventory, failed))
      free == {m \in matches : IF m.old \in verified THEN m.new \notin verified ELSE m.new \notin probed}
      doubted == Mismatched(stale, sizes, inventory, failed)
      pairs(h) == {m \in free : HeadsOf(m.old, m.new) = h}
      sized(h) == {m \in pairs(h) : m.how = "size"}
      included(h) == IF sized(h) = {} \/ h \in doubted THEN sized(h) ELSE pairs(h)
  IN {r \in {[heads |-> HeadsOf(m.old, m.new), pairs |-> included(HeadsOf(m.old, m.new))] : m \in free} :
        Cardinality({m \in r.pairs : m.old \in verified}) >= MinVerified}

\* get_inventory, cached_no_rules, remember_no_rules: a walk is used again
\* within its time, and "no rules" within a longer one and for the same
\* question, when every library could be read
UsableWalk(walk, key, age, limit) == walk.key = key /\ age < limit
RememberNoRules(walk, rules) == rules = {} /\ walk.failed = {}
=============================================================================
