----------------------------- MODULE MemoryRows -----------------------------
(***************************************************************************)
(* The rules of the project memory: what a finalizer's candidate becomes,   *)
(* what the cleanup pass makes of a row, and what a node's packet shows.    *)
(* A candidate is the data of one item of the supervisor's delta; a row is  *)
(* one line of a tier file.  Times are ticks, evidence is the set of its    *)
(* types, and an identity is what the code hashes, not the hash.            *)
(***************************************************************************)
EXTENDS Integers, FiniteSets, Sequences, SequencesExt

CONSTANTS
  Paths,          \* repository files a record may name
  basename,       \* [Paths -> file names]
  MinTasks,       \* promote_min_tasks
  Window,         \* promote_window_days, in ticks
  Ttl,            \* short_term_ttl_days, in ticks
  MaxScanned, MaxEdits,                   \* the idle pass's budget
  MaxLongTerm, MaxEntity, MaxLines        \* the packet's caps

ASSUME MemoryAssumption ==
  {MinTasks, Window, Ttl, MaxScanned, MaxEdits, MaxLongTerm, MaxEntity, MaxLines} \subseteq Nat

LongTermKinds == <<"semantic", "procedural", "reviewer", "failure">>
KindSet == ToSet(LongTermKinds)
MemoryTier == {"short", "long", "entity", "quarantine"}
TierFiles == {"short", "entity", "quarantine"} \cup KindSet
FilesOf(tier) == IF tier = "long" THEN KindSet ELSE {tier}

External == {"web", "mcp", "url", "external", "api"}
Operator == {"operator", "human", "hitl"}
Review == {"review", "fixing"}
Repo == {"repo", "repo_doc", "code", "config", "doc", "file"}
Artifact == {"artifact", "check", "diff", "test", "plan", "commit"}
DURABLE_TRUST_LEVELS == {"repo-observed", "human-curated", "review-verified", "artifact-backed"}
AutoPromote == {"repo-observed", "human-curated", "review-verified"}

\* The mutated order: a repository citation outranks an external one.
assign_trust_RepoFirst(evidence) ==
  IF evidence \cap Repo # {} THEN "repo-observed"
  ELSE IF evidence \cap External # {} THEN "external-untrusted"
  ELSE IF evidence \cap Artifact # {} THEN "artifact-backed" ELSE "agent-inferred"
\* One type of a class is enough, whatever else the item cites: the external class comes
\* first, for the least trusted of them, and of the others the best grounded.
assign_trust(evidence) ==
  CASE evidence \cap External # {} -> "external-untrusted"
    [] evidence \cap External = {} /\ evidence \cap Operator # {} -> "human-curated"
    [] evidence \cap (External \cup Operator) = {} /\ evidence \cap Review # {} -> "review-verified"
    [] evidence \cap (External \cup Operator \cup Review) = {} /\ evidence \cap Repo # {}
         -> "repo-observed"
    [] evidence \cap (External \cup Operator \cup Review \cup Repo) = {} /\ evidence \cap Artifact # {}
         -> "artifact-backed"
    [] OTHER -> "agent-inferred"

assign_entity_trust(paths, tree) ==
  IF paths # <<>> /\ ToSet(paths) \subseteq tree THEN "repo-observed" ELSE "agent-inferred"

should_promote(trust, evidence, recurrence, explained) ==
  /\ trust \in DURABLE_TRUST_LEVELS /\ evidence # {}
  /\ recurrence >= MinTasks \/ trust \in AutoPromote \/ explained

derive_long_term_id(kind, subject, paths) ==
  <<kind, paths, IF paths = {} THEN subject ELSE "">>

-----------------------------------------------------------------------------
(* A delta as the provider answered it, and the candidates read from it.    *)

RawItem == [list : {"lessons", "failures", "entities"}, kind : KindSet, subject : STRING,
            paths : Seq(Paths), nodes : SUBSET STRING, evidence : SUBSET STRING,
            remedy : BOOLEAN, complete : BOOLEAN]

\* A lesson may not be of the failure kind: those come by their own list.
_parse_lesson(item) == item.complete /\ item.kind \in KindSet \ {"failure"}
_parse_failure(item) == item.complete
_parse_entity(item) == item.complete

CandidateLesson(item) ==
  [kind |-> item.kind, subject |-> item.subject, paths |-> ToSet(item.paths),
   nodes |-> item.nodes, evidence |-> item.evidence, remedy |-> FALSE]
CandidateFailure(item) ==
  [kind |-> "failure", subject |-> item.subject, paths |-> ToSet(item.paths),
   nodes |-> {}, evidence |-> item.evidence, remedy |-> item.remedy]
CandidateEntity(item) == [kind |-> "entity", subject |-> item.subject, paths |-> item.paths]

\* What s holds at the places of a set, in the order of s.
Within(s, places) ==
  LET chosen[i \in 0..Len(s)] ==
        IF i = 0 THEN <<>>
        ELSE IF i \in places THEN Append(chosen[i - 1], s[i]) ELSE chosen[i - 1]
  IN  chosen[Len(s)]
OfList(raw, list) == {i \in DOMAIN raw : raw[i].list = list}
Mapped(items, Convert(_)) == [i \in DOMAIN items |-> Convert(items[i])]

\* Items that do not parse are dropped one by one; lessons, then failures, then entities.
parse_delta(raw) ==
  LET lessons == {i \in OfList(raw, "lessons") : _parse_lesson(raw[i])}
      failures == {i \in OfList(raw, "failures") : _parse_failure(raw[i])}
      entities == {i \in OfList(raw, "entities") : _parse_entity(raw[i])}
  IN  Mapped(Within(raw, lessons), CandidateLesson)
        \o Mapped(Within(raw, failures), CandidateFailure)
        \o Mapped(Within(raw, entities), CandidateEntity)

-----------------------------------------------------------------------------
(* Writing: a change to the store is a list of file writes, each followed   *)
(* by its audit row.                                                        *)

_append_row(file, row) == [op |-> "append", file |-> file, rows |-> <<row>>]
_replace_rows(file, rows) == [op |-> "replace", file |-> file, rows |-> rows]
\* Read the quarantine when its turn comes, then replace it with these rows added.
ExtendQuarantine(rows) == [op |-> "extend", file |-> "quarantine", rows |-> rows]

_index_by(rows, key, value) ==
  LET hits == {i \in DOMAIN rows : key \in DOMAIN rows[i] /\ rows[i][key] = value}
  IN  IF hits = {} THEN 0 ELSE CHOOSE i \in hits : \A j \in hits : i <= j
_drop_pending(pending, id) == Within(pending, {i \in DOMAIN pending : pending[i].id # id})
_put_pending(pending, row) == Append(_drop_pending(pending, row.id), row)
_within_window(first, now) == now - first <= Window

LongTermRecord(c, status, seen, first, now) ==
  [id |-> derive_long_term_id(c.kind, c.subject, c.paths), kind |-> c.kind,
   subject |-> c.subject, paths |-> c.paths, nodes |-> c.nodes, evidence |-> c.evidence,
   remedy |-> c.remedy, trust |-> assign_trust(c.evidence), status |-> status,
   seen |-> seen, first |-> first, at |-> now]
EpisodeRecord(task, now) == [id |-> task, at |-> now]
EntityRecord(c, tree, task) ==
  [id |-> <<"entity", c.subject>>, kind |-> "entity",
   name |-> IF c.paths # <<>> THEN c.paths[1] ELSE c.subject, paths |-> c.paths,
   trust |-> assign_entity_trust(c.paths, tree), status |-> "active", seen |-> {task}]

\* An id's recurrence counts the distinct tasks that proposed it, inside the window.
Recurrence(prior, task, now) ==
  LET seen == {task} \cup UNION {r.seen : r \in prior}
  IN  IF \A r \in prior : _within_window(r.first, now) THEN Cardinality(seen) ELSE 1

_merge_long_term(row, c, now, task) ==
  [row EXCEPT !.evidence = @ \cup c.evidence, !.seen = @ \cup {task}, !.at = now,
              !.status = "active"]

\* The writes one lesson or failure asks for, from the pending and active rows as read.
_ingest_long_term(c, failed, pending, active, now, task) ==
  LET id == derive_long_term_id(c.kind, c.subject, c.paths)
      at == _index_by(pending, "id", id)
      prior == IF at = 0 THEN {} ELSE {pending[at]}
      seen == {task} \cup UNION {r.seen : r \in prior}
      first == IF at = 0 THEN now ELSE pending[at].first
      trust == assign_trust(c.evidence)
      held == <<_replace_rows("quarantine",
                 _put_pending(pending, LongTermRecord(c, "quarantined", seen, first, now)))>>
      match == _index_by(active, "id", id)
  IN  IF failed \/ c.evidence = {} \/ trust \notin DURABLE_TRUST_LEVELS THEN held
      ELSE IF match # 0
      THEN <<_replace_rows(c.kind, [active EXCEPT ![match] = _merge_long_term(@, c, now, task)])>>
      ELSE IF should_promote(trust, c.evidence, Recurrence(prior, task, now), c.remedy)
      THEN <<_append_row(c.kind, LongTermRecord(c, "active", seen, first, now))>>
             \o (IF at = 0 THEN <<>>
                 ELSE <<_replace_rows("quarantine", _drop_pending(pending, id))>>)
      ELSE held

_ingest_entity(c, failed, pending, entities, tree, task) ==
  LET row == EntityRecord(c, tree, task)
      at == _index_by(entities, "name", row.name)
  IN  IF failed \/ row.trust \notin DURABLE_TRUST_LEVELS
      THEN <<_replace_rows("quarantine", _put_pending(pending, [row EXCEPT !.status = "quarantined"]))>>
      ELSE IF at # 0
      THEN <<_replace_rows("entity",
              [entities EXCEPT ![at] = [row EXCEPT !.seen = @ \cup entities[at].seen]])>>
      ELSE <<_append_row("entity", row)>>

-----------------------------------------------------------------------------
(* Cleanup.                                                                 *)

_episode_expired(row, now) == row.at < now - Ttl
_record_active(row) == row.status = "active"
find_by_basename(path, tree) == {p \in tree : p # path /\ basename[p] = basename[path]}

allow_edits(budget, wanted) ==
  IF budget.full \/ wanted <= MaxEdits - budget.edits THEN wanted
  ELSE IF budget.edits < MaxEdits THEN MaxEdits - budget.edits ELSE 0
can_scan(budget) == budget.full \/ (~budget.late /\ budget.scanned < MaxScanned)
can_edit(budget) == budget.full \/ (~budget.late /\ budget.edits < MaxEdits)

\* The oldest expired episodes the budget allows go, with every other row of the same task.
_expire_episodes(rows, budget, now) ==
  LET expired == SetToSortSeq({r \in ToSet(rows) : _episode_expired(r, now)},
                              LAMBDA a, b : a.at < b.at)
      take == allow_edits(budget, Len(expired))
      drop == {expired[i].id : i \in 1..take}
  IN  [plan |-> IF take = 0 THEN <<>>
                ELSE <<_replace_rows("short", Within(rows, {i \in DOMAIN rows : rows[i].id \notin drop}))>>,
       budget |-> [budget EXCEPT !.scanned = @ + Len(rows), !.edits = @ + take]]

Missing(paths, tree) == {p \in paths : p \notin tree}
Unresolved(paths, tree) ==
  \E p \in Missing(paths, tree) : Cardinality(find_by_basename(p, tree)) # 1
Moved(path, tree) ==
  IF path \in tree THEN path ELSE CHOOSE q \in find_by_basename(path, tree) : TRUE

\* "fresh", "quarantine", or the row at its file's new place.
_classify_entity(row, tree) ==
  LET paths == ToSet(row.paths)
      now == [i \in DOMAIN row.paths |-> Moved(row.paths[i], tree)]
  IN  IF Missing(paths, tree) = {} THEN [verdict |-> "fresh", row |-> row]
      ELSE IF Unresolved(paths, tree)
      THEN [verdict |-> "quarantine", row |-> [row EXCEPT !.status = "quarantined"]]
      ELSE [verdict |-> "remap", row |-> [row EXCEPT !.paths = now, !.name = now[1]]]
_classify_lesson(row, tree) ==
  LET now == {Moved(p, tree) : p \in row.paths}
  IN  IF Missing(row.paths, tree) = {} THEN [verdict |-> "fresh", row |-> row]
      ELSE IF Unresolved(row.paths, tree)
      THEN [verdict |-> "quarantine", row |-> [row EXCEPT !.status = "quarantined"]]
      ELSE [verdict |-> "remap",
            row |-> [row EXCEPT !.paths = now, !.id = derive_long_term_id(row.kind, row.subject, now)]]

\* The mutated report takes any file of that name for a move.
_cmd_memory_validate_Any(row, tree) ==
  LET missing == Missing(ToSet(row.paths), tree)
  IN  IF missing = {} THEN "fresh"
      ELSE IF \A p \in missing : find_by_basename(p, tree) # {} THEN "remap" ELSE "quarantine"
\* The report of `worc memory validate` on an active card.
_cmd_memory_validate(row, tree) ==
  LET missing == Missing(ToSet(row.paths), tree)
  IN  IF missing = {} THEN "fresh"
      ELSE IF \A p \in missing : Cardinality(find_by_basename(p, tree)) = 1 THEN "remap"
      ELSE "quarantine"

\* The rows that agree with the i-th on a field, and the first of them for each value.
Alike(rows, field, i) == {j \in DOMAIN rows : rows[j][field] = rows[i][field]}
Firsts(rows, field) == {i \in DOMAIN rows : \A j \in Alike(rows, field, i) : i <= j}

_absorb(keeper, others) ==
  [keeper EXCEPT !.evidence = UNION {r.evidence : r \in others},
                 !.seen = UNION {r.seen : r \in others}]

\* The first row of each value, with every later one of that value absorbed.
CollapseBy(rows, field) ==
  Within([i \in DOMAIN rows |-> _absorb(rows[i], {rows[j] : j \in Alike(rows, field, i)})],
         Firsts(rows, field))
_collapse_duplicates(rows) == CollapseBy(rows, "subject")
\* The mutated remap leaves two rows with the id of the new place.
_collapse_by_memory_id_Not(rows) == rows
_collapse_by_memory_id(rows) == CollapseBy(rows, "id")
\* The latest card of a name, in the first one's place, with the tasks of all of them.
_collapse_entities(rows) ==
  LET Latest(i) == CHOOSE j \in Alike(rows, "name", i) : \A k \in Alike(rows, "name", i) : k <= j
      Card(i) == [rows[Latest(i)] EXCEPT !.seen = UNION {rows[j].seen : j \in Alike(rows, "name", i)}]
  IN  Within([i \in DOMAIN rows |-> Card(i)], Firsts(rows, "name"))

\* Row by row, as classified, until the budget or, at row `cut`, the clock runs out.
Reconcile(rows, found, budget, cut) ==
  LET Clock(b, i) == [b EXCEPT !.late = @ \/ (~b.full /\ i > cut)]
      Looks(b, i) == can_scan(Clock(b, i)) /\ can_edit(Clock(b, i)) /\ _record_active(rows[i])
      spent[i \in 0..Len(rows)] ==
        IF i = 0 THEN budget
        ELSE IF ~Looks(spent[i - 1], i) THEN Clock(spent[i - 1], i)
        ELSE [Clock(spent[i - 1], i) EXCEPT
                !.scanned = @ + 1, !.edits = IF found[i].verdict = "fresh" THEN @ ELSE @ + 1]
      looked == {i \in DOMAIN rows : Looks(spent[i - 1], i)}
      out == {i \in looked : found[i].verdict = "quarantine"}
      now == [i \in DOMAIN rows |-> IF i \in looked THEN found[i].row ELSE rows[i]]
  IN  [kept |-> Within(now, DOMAIN rows \ out), gone |-> Within(now, out),
       changed |-> \E i \in looked : found[i].verdict # "fresh", budget |-> spent[Len(rows)]]

\* The mutated pass forgets to append what it took out of the tier.
Quarantined_Dropped(gone) == <<>>
Quarantined(gone) == IF gone = <<>> THEN <<>> ELSE <<ExtendQuarantine(gone)>>

_reconcile_entities(rows, tree, budget, cut) ==
  LET found == [i \in DOMAIN rows |-> _classify_entity(rows[i], tree)]
      r == Reconcile(rows, found, budget, cut)
  IN  [budget |-> r.budget,
       plan |-> IF ~r.changed THEN <<>>
                ELSE <<_replace_rows("entity", _collapse_entities(r.kept))>> \o Quarantined(r.gone)]
_reconcile_lessons(kind, rows, tree, budget, cut) ==
  LET found == [i \in DOMAIN rows |-> _classify_lesson(rows[i], tree)]
      r == Reconcile(rows, found, budget, cut)
  IN  [budget |-> r.budget,
       plan |-> IF ~r.changed THEN <<>>
                ELSE <<_replace_rows(kind, _collapse_by_memory_id(r.kept))>> \o Quarantined(r.gone)]

\* A file's duplicates are collapsed together or, if the budget is too small, not at all.
_merge_long_term_duplicates(kind, rows, budget) ==
  LET merges == Len(rows) - Len(_collapse_duplicates(rows))
      b == [budget EXCEPT !.scanned = @ + Len(rows)]
      done == merges > 0 /\ allow_edits(b, merges) = merges
  IN  IF ~can_scan(budget) \/ ~can_edit(budget) THEN [plan |-> <<>>, budget |-> budget]
      ELSE [plan |-> IF done THEN <<_replace_rows(kind, _collapse_duplicates(rows))>> ELSE <<>>,
            budget |-> IF done THEN [b EXCEPT !.edits = @ + merges] ELSE b]

-----------------------------------------------------------------------------
(* The packet of one node, from the tiers as they are.                      *)

TrustRank == [t \in DURABLE_TRUST_LEVELS \cup {"agent-inferred", "external-untrusted"} |->
  CASE t = "human-curated" -> 5 [] t = "review-verified" -> 4 [] t = "repo-observed" -> 3
    [] t = "artifact-backed" -> 2 [] t = "agent-inferred" -> 1 [] OTHER -> 0]

_node_ok(row, node) == row.nodes = {} \/ node \in row.nodes
_reviewer_pref(row, node) == node \in {"review", "fixing"} /\ row.kind = "reviewer"
_path_overlap(paths, touched) == Cardinality(paths \cap touched)
\* The mutated packet reads the whole quarantine.
_durable_quarantine_All(pending) == {r \in ToSet(pending) : r.kind \in KindSet}
\* A lesson held back only until it recurs is shown; one held for its trust is not.
_durable_quarantine(pending) ==
  {r \in ToSet(pending) : r.kind \in KindSet /\ r.trust \in DURABLE_TRUST_LEVELS}

LessonBefore(a, b, node, touched) ==
  LET key(r) == <<TrustRank[r.trust], _path_overlap(r.paths, touched),
                  IF _reviewer_pref(r, node) THEN 1 ELSE 0, r.at>>
      first == CHOOSE i \in 1..4 : /\ key(a)[i] # key(b)[i] \/ i = 4
                                   /\ \A j \in 1..(i - 1) : key(a)[j] = key(b)[j]
  IN  key(a)[first] > key(b)[first]
EntityBefore(a, b, touched) ==
  LET overlap(r) == _path_overlap(ToSet(r.paths), touched)
  IN  \/ overlap(a) > overlap(b)
      \/ overlap(a) = overlap(b) /\ TrustRank[a.trust] > TrustRank[b.trust]
_select_long_term(tiers, node) ==
  LET active == {r \in UNION {ToSet(tiers[k]) : k \in KindSet} : _record_active(r)}
  IN  {r \in active \cup _durable_quarantine(tiers["quarantine"]) : _node_ok(r, node)}
_select_entities(tiers) == {r \in ToSet(tiers["entity"]) : _record_active(r)}

_caps(node) ==
  [long |-> MaxLongTerm, entity |-> MaxEntity + (IF node = "implementation" THEN 2 ELSE 0)]
Capped(rows, cap) == IF cap < Cardinality(rows) THEN cap ELSE Cardinality(rows)

Heading(n) == IF n = 0 THEN 0 ELSE 2 + n
_render_lines(lessons, entities) == 1 + Heading(lessons) + Heading(entities)
\* How many of each stay within MaxLines: entities go first, from the last; a packet may vanish.
_fit(lessons, entities) ==
  LET legal == {n \in (0..lessons) \X (0..entities) : n[2] = 0 \/ n[1] = lessons}
      fits == {n \in legal : n = <<0, 0>> \/ _render_lines(n[1], n[2]) <= MaxLines}
  IN  CHOOSE n \in fits : \A m \in fits : m[1] + m[2] <= n[1] + n[2]

\* The packets a node may get: the best rows of each kind, as many as fit.  Ties are broken by
\* the ids' hashes, so any of the tied may be in.
write_packet(tiers, node, touched) ==
  LET lessons == _select_long_term(tiers, node)
      entities == _select_entities(tiers)
      size == _fit(Capped(lessons, _caps(node).long), Capped(entities, _caps(node).entity))
  IN  {p \in [lessons : SUBSET lessons, entities : SUBSET entities] :
         /\ Cardinality(p.lessons) = size[1] /\ Cardinality(p.entities) = size[2]
         /\ \A a \in p.lessons, b \in lessons \ p.lessons : ~LessonBefore(b, a, node, touched)
         /\ \A a \in p.entities, b \in entities \ p.entities : ~EntityBefore(b, a, touched)}

=============================================================================
