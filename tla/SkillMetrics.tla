-------------------------- MODULE SkillMetrics --------------------------
(* The statistics of the skill component: coverage analyses over the pages of *)
(* the Java side and the snapshot of a period; effect metrics of a period,    *)
(* their comparison and the detection of a regression; and the counted        *)
(* dispatch patterns with their retrieval.  Fetching is page by page and      *)
(* fails or is repeated on the way; a snapshot is written when all is read.   *)
EXTENDS Integers, Sequences, FiniteSets, SequencesExt, FiniteSetsExt

CONSTANTS Kinds,       \* the analyses of a summary, in their order
          Pages,       \* what the Java side holds: the pages of every kind, by filter
          Filters,     \* the filters of an analysis: factory, area and category
          Periods,
          Effects,     \* what the effect endpoint may show for a period: pages of records
          Asked,       \* the kinds a request may name
          Metrics,     \* EFFECT_METRIC_KEYS
          Keys,        \* category, area and decision of a dispatch pattern
          Queries,     \* of a retrieval, "any" for a part that is left out
          Counts,      \* the cases a recording may stand for
          Reasons,
          TopK,        \* _TOP_K_FREQUENCY and _TOP_K_GAP
          Threshold,   \* of a recurrence
          Injected,    \* the effect and dispatcher clients got a transport of their own: the
                       \* shared HTTP client refuses the option, so without it every fetch fails
          ReasonsMax,  \* SAMPLE_REASONS_MAX
          ListLimit,   \* detect_regression's limit
          MaxRetries,  \* of a fetch
          MaxClock     \* bound: writes and answers followed

VARIABLES dialect,   \* of the data source: postgresql, or sqlite
          analysis,  \* the analysis in flight
          stored,    \* memory_metric_snapshot's coverage row of each period
          metrics,   \* its effect rows, in the order they were inserted
          patterns,  \* of each key the rows of dispatch_pattern, the upserts that have
                     \* looked for one, and (history) the cases recorded
          answer,    \* the last answer of a reading request
          clock

vars == <<dialect, analysis, stored, metrics, patterns, answer, clock>>

None == [at |-> 0]
Idle == [kinds |-> <<>>, page |-> 0, tries |-> 0, filter |-> "none", period |-> "none", got |-> <<>>]

Init == /\ dialect \in {"postgresql", "sqlite"}
        /\ analysis = Idle
        /\ stored = [p \in Periods |-> None]
        /\ metrics = <<>>
        /\ patterns = [k \in Keys |-> [rows |-> <<>>, looked |-> <<>>, recorded |-> 0]]
        /\ answer = None
        /\ clock = 0

-----------------------------------------------------------------------------
(* The summary of the fetched records.                                        *)

SumOf(items, Field(_)) == FoldSeq(LAMBDA i, n : n + Field(i), 0, items)
GroupsOf(items) == {items[i].group : i \in DOMAIN items}
Largest(rows, n, Weight(_)) ==
  LET order == SetToSortSeq(rows, LAMBDA a, b : Weight(a) > Weight(b))
  IN SubSeq(order, 1, IF Len(order) < n THEN Len(order) ELSE n)

(* frequency: the counts of a group are summed, the largest groups remain.    *)
analyze_frequency(items) ==
  LET Of(g) == SelectSeq(items, LAMBDA i : i.group = g)
      rows == {[group |-> g,
                issues |-> SumOf(Of(g), LAMBDA i : i.issues),
                closed |-> SumOf(Of(g), LAMBDA i : i.closed)] : g \in GroupsOf(items)}
  IN Largest(rows, TopK, LAMBDA r : r.issues)

(* gaps: a room type keeps its worst severity, the worst types remain.        *)
analyze_gaps(items) ==
  LET rows == {[group |-> g,
                severity |-> Max({items[i].issues : i \in {j \in DOMAIN items : items[j].group = g}})]
                : g \in GroupsOf(items)}
  IN Largest(rows, TopK, LAMBDA r : r.severity)

(* recurrence: records below the threshold are dropped, the largest remain.   *)
analyze_recurrence(items) ==
  LET order == SortSeq(SelectSeq(items, LAMBDA i : i.issues >= Threshold), LAMBDA a, b : a.issues > b.issues)
  IN SubSeq(order, 1, IF Len(order) < TopK THEN Len(order) ELSE TopK)

(* region_supervisor: nothing is summed, the most overdue remain.             *)
analyze_region_supervisor_load(items) ==
  LET order == SortSeq(items, LAMBDA a, b : a.issues > b.issues)
  IN SubSeq(order, 1, IF Len(order) < TopK THEN Len(order) ELSE TopK)

summary(got) ==
  LET Of(kind) == IF kind \in DOMAIN got THEN got[kind] ELSE <<>>
      freq == analyze_frequency(Of("frequency"))
      loads == analyze_region_supervisor_load(Of("region"))
      gaps == analyze_gaps(Of("gaps"))
      recs == analyze_recurrence(Of("recurrence"))
  IN [issues     |-> SumOf(freq, LAMBDA t : t.issues),
      closed     |-> SumOf(freq, LAMBDA t : t.closed),
      recurrence |-> IF recs = <<>> THEN 0 ELSE recs[Len(recs) - (Len(recs) \div 2)].issues,
      severity   |-> IF gaps = <<>> THEN 0 ELSE gaps[1].severity,
      overdue    |-> IF loads = <<>> THEN 0 ELSE loads[1].issues,
      top        |-> IF freq = <<>> THEN "none" ELSE freq[1].group]

-----------------------------------------------------------------------------
(* One analysis: kind after kind, page after page.  For the snapshot of a     *)
(* period it is of all kinds, for an answer of the kinds that are asked for.  *)

Request(p, f, asked) ==
  /\ analysis = Idle /\ clock < MaxClock
  /\ analysis' = [kinds |-> SelectSeq(Kinds, LAMBDA k : k \in asked), page |-> 1, tries |-> 0,
                  filter |-> f, period |-> p, got |-> [k \in asked |-> <<>>]]
  /\ UNCHANGED <<dialect, stored, metrics, patterns, answer, clock>>

(* Mutant: the loop of the pages ends one page early.                         *)
last_page_early(page, total) == page + 1 >= total

last_page(page, total) == page + 1 > total \/ total <= 0

(* A page arrives; _collect_all_pages asks for the next one, and the summary  *)
(* for the next kind.                                                         *)
Page ==
  LET k == Head(analysis.kinds)
      pages == Pages[analysis.filter][k]
      items == IF analysis.page \in DOMAIN pages THEN pages[analysis.page] ELSE <<>>
      last == last_page(analysis.page, Len(pages))
  IN /\ analysis # Idle /\ analysis.kinds # <<>>
     /\ analysis' = [analysis EXCEPT !.got[k] = @ \o items,
                                     !.tries = 0,
                                     !.page = IF last THEN 1 ELSE @ + 1,
                                     !.kinds = IF last THEN Tail(@) ELSE @]
     /\ UNCHANGED <<dialect, stored, metrics, patterns, answer, clock>>

(* _fetch repeats a failed GET; when the retries are used up the request      *)
(* fails and nothing is stored.                                               *)
Fails ==
  /\ analysis # Idle /\ analysis.kinds # <<>>
  /\ analysis' = IF analysis.tries < MaxRetries THEN [analysis EXCEPT !.tries = @ + 1] ELSE Idle
  /\ UNCHANGED <<dialect, stored, metrics, patterns, answer, clock>>

Analysed == analysis # Idle /\ analysis.kinds = <<>>

(* The row of the period is replaced whatever its filter was, and carries the *)
(* group of the largest trend in place of the filter.                         *)
record_snapshot ==
  /\ Analysed /\ analysis.period # "none"
  /\ LET s == summary(analysis.got)
     IN stored' = [stored EXCEPT ![analysis.period] =
          [at |-> clock + 1, filter |-> analysis.filter, issues |-> s.issues, closed |-> s.closed,
           severity |-> s.severity, recurrence |-> s.recurrence, group |-> s.top]]
  /\ analysis' = Idle
  /\ clock' = clock + 1
  /\ UNCHANGED <<dialect, metrics, patterns, answer>>

analyze ==
  /\ Analysed /\ analysis.period = "none"
  /\ answer' = [at |-> clock + 1, filter |-> analysis.filter,
              kinds |-> DOMAIN analysis.got, told |-> summary(analysis.got)]
  /\ analysis' = Idle
  /\ clock' = clock + 1
  /\ UNCHANGED <<dialect, stored, metrics, patterns>>

-----------------------------------------------------------------------------
(* Effect metrics.                                                            *)

(* The clients of the effect and dispatcher endpoints read to the last page.  *)
iter_all_pages(pages) == FlattenSeq(pages)

Mean(items) == [m \in Metrics |-> SumOf(items, LAMBDA i : i[m]) \div Len(items)]

(* The upsert of a period: a row that exists keeps its place, for the column  *)
(* the list is ordered by is set at the insertion only.                       *)
record_current_snapshot(p, pages) ==
  /\ Injected /\ clock < MaxClock /\ iter_all_pages(pages) # <<>>
  /\ LET row == [period |-> p, value |-> Mean(iter_all_pages(pages)), at |-> clock + 1]
         old == {i \in DOMAIN metrics : metrics[i].period = p}
     IN metrics' = IF old = {} THEN Append(metrics, row)
                   ELSE [metrics EXCEPT ![CHOOSE i \in old : TRUE] = row]
  /\ clock' = clock + 1
  /\ UNCHANGED <<dialect, analysis, stored, patterns, answer>>

RowOf(p) == metrics[CHOOSE i \in DOMAIN metrics : metrics[i].period = p]
Recorded(p) == \E i \in DOMAIN metrics : metrics[i].period = p

Magnitude(n) == IF n < 0 THEN 0 - n ELSE n
(* The percentage itself is not kept, so that no rate is rounded.             *)
Rises(b, c, percent) == IF b = 0 THEN c # 0 ELSE (c - b) * 100 >= percent * Magnitude(b)
Falls(b, c, percent) == b # 0 /\ (b - c) * 100 >= percent * Magnitude(b)

significance_for(m, b, c) ==
  LET worse == CASE m = "ai_pass_rate" -> Falls(b, c, 5)
                 [] m = "recurrence_rate_30d" -> Rises(b, c, 20)
                 [] OTHER -> Rises(b, c, 10)
      better == IF m = "ai_pass_rate" THEN Rises(b, c, 5) ELSE Falls(b, c, 5)
  IN IF worse THEN "regression" ELSE IF better THEN "improvement" ELSE "stable"

Diff(b, c) == [m \in Metrics |-> significance_for(m, b.value[m], c.value[m])]

(* A request that only reads.                                                 *)
Answers(a) ==
  /\ clock < MaxClock
  /\ answer' = a
  /\ clock' = clock + 1
  /\ UNCHANGED <<dialect, analysis, stored, metrics, patterns>>

compare_periods(b, c) ==
  /\ Recorded(b) /\ Recorded(c)
  /\ Answers([at |-> clock + 1, baseline |-> b, current |-> c, told |-> Diff(RowOf(b), RowOf(c))])

(* The baseline is the newest inserted row of another period that was         *)
(* recorded before the current one; baseline_days is not looked at.           *)
detect_regression(p) ==
  LET listed == SubSeq(Reverse(metrics), 1, IF Len(metrics) < ListLimit THEN Len(metrics) ELSE ListLimit)
      earlier == {i \in DOMAIN listed : listed[i].at < RowOf(p).at /\ listed[i].period # p}
  IN /\ Recorded(p)
     /\ IF earlier = {}
        THEN Answers([at |-> clock + 1, baseline |-> "none", current |-> p, flagged |-> {}])
        ELSE LET base == listed[Min(earlier)]
             IN Answers([at |-> clock + 1, baseline |-> base.period, current |-> p,
                         flagged |-> {m \in Metrics : Diff(base, RowOf(p))[m] = "regression"}])

-----------------------------------------------------------------------------
(* Dispatch patterns.                                                         *)

Distinct(reasons) ==
  LET first == {i \in DOMAIN reasons : \A j \in 1..(i - 1) : reasons[j] # reasons[i]}
  IN [n \in 1..Cardinality(first) |->
        reasons[CHOOSE i \in first : Cardinality({j \in first : j <= i}) = n]]
Trimmed(reasons) == SubSeq(reasons, 1, IF Len(reasons) < ReasonsMax THEN Len(reasons) ELSE ReasonsMax)
merge_reasons(old, new) == Trimmed(Distinct(new \o old))

Row(n, reasons) == [count |-> n, reasons |-> Trimmed(reasons)]

(* On PostgreSQL one statement, whose ON CONFLICT replaces the payload.  (The *)
(* key it relies on is the documented one; the ORM's table declares none.)    *)
upsert_pattern(k, n, reasons) ==
  /\ dialect = "postgresql" /\ clock < MaxClock
  /\ patterns' = [patterns EXCEPT ![k].rows = <<Row(n, reasons)>>, ![k].recorded = @ + n]
  /\ clock' = clock + 1
  /\ UNCHANGED <<dialect, analysis, stored, metrics, answer>>

(* On sqlite a request looks for the row, outside the transaction of its      *)
(* write, and more than one fails it.                                         *)
Look(k, n, reasons) ==
  /\ dialect = "sqlite" /\ clock < MaxClock
  /\ Len(patterns[k].rows) < 2
  /\ patterns' = [patterns EXCEPT ![k].looked = Append(@, [seen |-> patterns[k].rows, n |-> n,
                                                          reasons |-> reasons])]
  /\ clock' = clock + 1
  /\ UNCHANGED <<dialect, analysis, stored, metrics, answer>>

(* It adds to what it saw, or inserts a row.                                  *)
Write(k, i) ==
  LET u == patterns[k].looked[i]
      row == IF u.seen = <<>> THEN Row(u.n, u.reasons)
             ELSE Row(u.seen[1].count + u.n, merge_reasons(u.seen[1].reasons, u.reasons))
  IN /\ patterns' = [patterns EXCEPT ![k] =
          [rows |-> IF u.seen = <<>> THEN Append(@.rows, row) ELSE [@.rows EXCEPT ![1] = row],
           looked |-> RemoveAt(@.looked, i),
           recorded |-> @.recorded + u.n]]
     /\ UNCHANGED <<dialect, analysis, stored, metrics, answer, clock>>

(* reset_pattern: its one row is replaced; more than one, and it fails.       *)
reset_pattern(k, row) ==
  IF Len(patterns[k].rows) > 1 THEN UNCHANGED patterns
  ELSE patterns' = [patterns EXCEPT ![k].rows = <<row>>]

(* consolidate_patterns: several rows of a key, as two requests that saw none *)
(* insert them, are to become one of their sum.                               *)
consolidate_patterns(k) ==
  LET rows == patterns[k].rows
      reasons == FlattenSeq([i \in DOMAIN rows |-> rows[i].reasons])
  IN /\ clock < MaxClock /\ Len(rows) > 1
     /\ reset_pattern(k, Row(SumOf(rows, LAMBDA r : r.count), Distinct(reasons)))
     /\ clock' = clock + 1
     /\ UNCHANGED <<dialect, analysis, stored, metrics, answer>>

(* Three weighted parts; a part the query leaves out does not count.          *)
Weight == [category |-> 34, area |-> 33, decision |-> 33]
score(query, k) ==
  LET asked == {part \in DOMAIN Weight : query[part] # "any"}
      hit == {part \in asked : query[part] = k[part]}
      Total(parts) == MapThenSumSet(LAMBDA part : Weight[part], parts)
  IN IF asked = {} THEN 0 ELSE (100 * Total(hit)) \div Total(asked)

retrieve_dispatch_patterns(query, listed) ==
  /\ Injected
  /\ Answers([at |-> clock + 1, baseline |-> "none", current |-> "none",
              hints |-> SubSeq(SetToSortSeq(listed, LAMBDA a, b : score(query, a) > score(query, b)),
                               1, IF Cardinality(listed) < TopK THEN Cardinality(listed) ELSE TopK)])

Next ==
  \/ \E f \in Filters : \/ \E p \in Periods : Request(p, f, Range(Kinds))
                         \/ \E asked \in Asked : Request("none", f, asked)
  \/ Page
  \/ Fails
  \/ record_snapshot
  \/ analyze
  \/ \E p \in Periods, pages \in Effects : record_current_snapshot(p, pages)
  \/ \E b, c \in Periods : compare_periods(b, c)
  \/ \E p \in Periods : detect_regression(p)
  \/ \E k \in Keys : \/ \E n \in Counts, r \in Reasons : upsert_pattern(k, n, r) \/ Look(k, n, r)
                      \/ \E i \in DOMAIN patterns[k].looked : Write(k, i)
                      \/ consolidate_patterns(k)
  \/ \E q \in Queries : retrieve_dispatch_patterns(q, Keys)

Spec == Init /\ [][Next]_vars

-----------------------------------------------------------------------------
(* Statistics add up: the snapshot of a period and the answer to an analysis  *)
(* count every record of every page of their filter exactly once, as long as  *)
(* no group falls out of the largest ones, however often a page had to be     *)
(* asked for; and the rows of a pattern never count a case twice, however     *)
(* recordings overlap and consolidations repeat, and keep the reasons within  *)
(* their limit.                                                               *)
AllItems(f, k) == FlattenSeq(Pages[f][k])

AddsUp(f, kinds, s) ==
  LET freq == IF "frequency" \in kinds THEN AllItems(f, "frequency") ELSE <<>>
      gaps == IF "gaps" \in kinds THEN AllItems(f, "gaps") ELSE <<>>
  IN /\ Cardinality(GroupsOf(freq)) <= TopK =>
          /\ s.issues = SumOf(freq, LAMBDA i : i.issues)
          /\ s.closed = SumOf(freq, LAMBDA i : i.closed)
     /\ \A i \in DOMAIN gaps : gaps[i].issues <= s.severity

PatternsAddUp ==
  \A k \in Keys :
    /\ SumOf(patterns[k].rows, LAMBDA r : r.count) <= patterns[k].recorded
    /\ \A r \in ToSet(patterns[k].rows) : Len(r.reasons) <= ReasonsMax

StatisticsAddUp ==
  /\ \A p \in Periods : stored[p] # None => AddsUp(stored[p].filter, Range(Kinds), stored[p])
  /\ "kinds" \in DOMAIN answer => AddsUp(answer.filter, answer.kinds, answer.told)
  /\ PatternsAddUp
=============================================================================
