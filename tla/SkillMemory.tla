--------------------------- MODULE SkillMemory ---------------------------
(* The episode memory of the skill component: entries ingested one by one or  *)
(* by backfill from the Java side, the clustering of adjudications into       *)
(* patterns, the retirement of entries and what retrieval may hint.  Reading  *)
(* a record upstream, embedding its text and storing it are separate steps,   *)
(* so records of different age overtake each other; the clustering reads and  *)
(* writes in one transaction that locks nothing.                              *)
EXTENDS Integers, Sequences, FiniteSets

CONSTANTS Callers,        \* requests in flight: one ingestion or one backfill each
          Upstream,       \* the records of the Java side, in the order of its pages
          Table,          \* the kind of each: ADJUDICATION, EVENT or ISSUE
          Groups,         \* category and area
          Limit,          \* cluster_pending's limit
          TopK,           \* how many hints an issue is given
          MaxCount        \* bound: example_count is not followed beyond it

VARIABLES dto,      \* what the Java side says of a source now: its group and tags
          entry,    \* memory_entry, by (source_table, source_id)
          pattern,  \* example_count by skill_code, 0 while there is no row
          call,     \* each request: its record, and the pages left of a backfill
          cluster   \* the transaction of cluster_pending: the records it has read

vars == <<dto, entry, pattern, call, cluster>>

Sources == {Upstream[i] : i \in DOMAIN Upstream}
Tables == {"ADJUDICATION", "EVENT", "ISSUE"}
Adjudications == {s \in Sources : Table[s] = "ADJUDICATION"}
Dtos == [group : Groups, tags : SUBSET {"stale"}]
NoEntry == [group |-> "none", tags |-> {}, active |-> FALSE, embedded |-> FALSE, exists |-> FALSE]
Idle == [at |-> "idle", source |-> Upstream[1], dto |-> [group |-> "none", tags |-> {}], page |-> 0]

NoCluster == [at |-> "idle", read |-> [s \in {} |-> NoEntry], seen |-> [g \in Groups |-> 0]]

Init == /\ dto \in [Sources -> [group : Groups, tags : {{}}]]
        /\ entry = [s \in Sources |-> NoEntry]
        /\ pattern = [g \in Groups |-> 0]
        /\ call = [c \in Callers |-> Idle]
        /\ cluster = NoCluster

(* A record changes on the Java side, or is tagged as outdated there.         *)
Edit(s, d) ==
  /\ dto[s] # d
  /\ dto' = [dto EXCEPT ![s] = d]
  /\ UNCHANGED <<entry, pattern, call, cluster>>

Embedding(c, s, page) ==
  call' = [call EXCEPT ![c] = [at |-> "embedding", source |-> s, dto |-> dto[s], page |-> page]]

(* An ingestion request carries one record.                                   *)
Ingest(c, s) ==
  /\ call[c].at = "idle"
  /\ Embedding(c, s, 0)
  /\ UNCHANGED <<dto, entry, pattern, cluster>>

Backfill(c) ==
  /\ call[c].at = "idle"
  /\ call' = [call EXCEPT ![c].at = "fetching", ![c].page = 1]
  /\ UNCHANGED <<dto, entry, pattern, cluster>>

(* iter_all_pages: the next page (here: of one record) is read when the items *)
(* of the one before are stored.  A page that _fetch cannot get, after its    *)
(* retries, ends the kind: the pages behind it are not asked for.             *)
FetchPage(c) ==
  /\ call[c].at = "fetching"
  /\ \/ Embedding(c, Upstream[call[c].page], call[c].page)
     \/ call' = [call EXCEPT ![c] = Idle]
  /\ UNCHANGED <<dto, entry, pattern, cluster>>

(* Mutant: the update takes every column of the record, is_active too.        *)
Upserted_revived(old, d, embedded) ==
  [group |-> d.group, tags |-> d.tags, active |-> TRUE, embedded |-> embedded, exists |-> TRUE]

(* on_conflict_do_update: group, tags and embedding are the record's, even    *)
(* when the embedding failed; is_active and superseded_by are left.           *)
Upserted(old, d, embedded) ==
  [group |-> d.group, tags |-> d.tags, active |-> ~old.exists \/ old.active,
   embedded |-> embedded, exists |-> TRUE]

(* An item that cannot be stored is noted and the backfill goes on.           *)
NextItem(c) ==
  call' = [call EXCEPT ![c] = IF @.page \in 1 .. Len(Upstream) - 1
                              THEN [@ EXCEPT !.at = "fetching", !.page = @ + 1]
                              ELSE Idle]

Upsert(c) ==
  /\ call[c].at = "embedding"
  /\ \/ \E embedded \in BOOLEAN :
          entry' = [entry EXCEPT ![call[c].source] = Upserted(@, call[c].dto, embedded)]
     \/ UNCHANGED entry
  /\ NextItem(c)
  /\ UNCHANGED <<dto, pattern, cluster>>

(* supersede: one conditional update.                                         *)
supersede(old) ==
  /\ entry[old].active
  /\ entry' = [entry EXCEPT ![old].active = FALSE]
  /\ UNCHANGED <<dto, pattern, call, cluster>>

Stale == {s \in Sources : entry[s].active /\ "stale" \in entry[s].tags}

supersede_stale_patterns ==
  /\ Stale # {}
  /\ entry' = [s \in Sources |-> IF s \in Stale THEN [entry[s] EXCEPT !.active = FALSE] ELSE entry[s]]
  /\ UNCHANGED <<dto, pattern, call, cluster>>

(* cluster_pending reads: the limit cuts the active adjudications in the      *)
(* order the database returns them (any), and only then are the clustered     *)
(* ones dropped.                                                              *)
ClusterReads ==
  /\ cluster.at = "idle"
  /\ LET rows == {s \in Adjudications : entry[s].active}
         Pending(R) == {s \in R : "clustered" \notin entry[s].tags}
     IN \E R \in SUBSET rows :
          /\ Cardinality(R) = IF Cardinality(rows) < Limit THEN Cardinality(rows) ELSE Limit
          /\ Pending(R) # {}
          /\ cluster' = [at |-> "grouped", read |-> [s \in Pending(R) |-> entry[s]], seen |-> pattern]
  /\ UNCHANGED <<dto, entry, pattern, call>>

(* It writes the sums it computed and the tags it read plus "clustered",      *)
(* whatever was stored since.                                                 *)
ClusterWrites ==
  LET InGroup(g) == {s \in DOMAIN cluster.read : cluster.read[s].group = g}
  IN /\ cluster.at = "grouped"
     /\ \A g \in Groups : cluster.seen[g] + Cardinality(InGroup(g)) <= MaxCount
     /\ pattern' = [g \in Groups |-> IF InGroup(g) = {} THEN pattern[g]
                                     ELSE cluster.seen[g] + Cardinality(InGroup(g))]
     /\ entry' = [s \in Sources |-> IF s \in DOMAIN cluster.read
                                    THEN [entry[s] EXCEPT !.tags = cluster.read[s].tags \cup {"clustered"}]
                                    ELSE entry[s]]
     /\ cluster' = NoCluster
     /\ UNCHANGED <<dto, call>>

(* A pattern is stored from outside: its count is taken, not added.           *)
upsert_pattern(g, count) ==
  /\ pattern' = [pattern EXCEPT ![g] = count]
  /\ UNCHANGED <<dto, entry, call, cluster>>

(* The transaction rolls back.                                                *)
ClusterFails ==
  /\ cluster.at = "grouped"
  /\ cluster' = NoCluster
  /\ UNCHANGED <<dto, entry, pattern, call>>

Next == \/ \E s \in Sources, d \in Dtos : Edit(s, d)
        \/ \E c \in Callers : \/ \E s \in Sources : Ingest(c, s)
                              \/ Backfill(c) \/ FetchPage(c) \/ Upsert(c)
        \/ \E s \in Sources : supersede(s)
        \/ supersede_stale_patterns
        \/ ClusterReads \/ ClusterWrites \/ ClusterFails
        \/ \E g \in Groups, count \in 1 .. MaxCount : upsert_pattern(g, count)

Spec == Init /\ [][Next]_vars

-----------------------------------------------------------------------------
(* The entries of a group (of an issue, its area and category) that are       *)
(* listed, and those that an embedding is compared with.                      *)
list_by_issue(group, table, include_inactive) ==
  {s \in Sources : /\ entry[s].exists /\ entry[s].group = group /\ Table[s] \in table
                   /\ include_inactive \/ entry[s].active}
Comparable(group, table) == {s \in list_by_issue(group, table, FALSE) : entry[s].embedded}

(* The nearest of them: which, the embeddings decide.                         *)
Nearest(rows) == {R \in SUBSET rows : Cardinality(R) = IF Cardinality(rows) < TopK
                                                       THEN Cardinality(rows) ELSE TopK}
search_by_embedding(group, table) == Nearest(Comparable(group, table))

(* The hints an issue may be given: of the kinds that were named or of all,   *)
(* none where its text cannot be embedded or a search fails.  Each kind is    *)
(* searched and cut for itself, and what they give is ranked and cut again:   *)
(* the nearest of the nearest.                                                *)
retrieve_context_for_issue(group, kinds) ==
  {{}} \cup search_by_embedding(group, IF kinds = {} THEN Tables ELSE kinds)

HintsNoRetired ==
  \A s \in Sources : entry[s].exists /\ ~entry[s].active
    => \A g \in Groups, kinds \in {{}, {"ADJUDICATION"}, {"ADJUDICATION", "EVENT"}} :
         \A hints \in retrieve_context_for_issue(g, kinds)' : s \notin hints

(* A memory that was retired, superseded or tagged as outdated and swept, is  *)
(* never hinted again, whatever is ingested, backfilled or clustered later    *)
(* and however old the records are that those requests still carry.           *)
RetiredIsNotHinted == [][HintsNoRetired]_vars
=============================================================================
