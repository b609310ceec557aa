----------------------------- MODULE DocReview -----------------------------
(* The review of a construction file: which documents are read, what facts    *)
(* the agents and the vision model give of each, and the rule engine that     *)
(* decides.  A fact is "yes", "no" or "unknown", an optional value is a set   *)
(* of at most one element, and a name is the set of its characters.           *)
EXTENDS Integers, Sequences, FiniteSets, FiniteSetsExt, SequencesExt

CONSTANTS WorkTypes,   \* WORK_TYPES
          Hot,         \* hot work, one of them
          Required     \* PROGRAMME_HEADINGS: the subheadings of each heading

Kinds == {"programme", "tech", "hot"}

(* The catalogue.                                                             *)
ProgrammeRules == {"P0-TYPO", "P0-C1", "P0-C2", "P0-H1", "P0-H2", "P0-H3", "P0-H4", "P0-H5",
                   "P0-F1", "P0-F2", "P0-F3", "P0-F4", "P0-F5", "P0-P1", "P0-P2", "P0-S1",
                   "P0-E1", "P0-E2", "P0-E3", "P0-E4"}
TechRules == {"P1-TYPO", "P1-R1", "P1-R2", "P1-PP", "P1-EM", "P1-CK", "P1-S1", "P1-S2", "P1-S3"}
HotRules == {"P2-TYPO", "P2-R1", "P2-PP", "P2-S1", "P2-S2", "P2-S3"}
RULES == ProgrammeRules \cup TechRules \cup HotRules
Suggestions == {"P0-C2", "P0-H1", "P0-P2", "P1-S3", "P2-S3"}
Rejecting == RULES \ (Suggestions \cup {"P0-TYPO", "P1-TYPO", "P2-TYPO"})

Result(rule, status) == [rule |-> rule, status |-> status]
All(rules, status) == FoldSet(LAMBDA rule, seq : Append(seq, Result(rule, status)), <<>>, rules)
Judged(rule, fails, unknown) ==
  <<Result(rule, IF fails THEN "FAIL" ELSE IF unknown THEN "UNVERIFIABLE" ELSE "PASS")>>

-----------------------------------------------------------------------------
(* The documents: one per type and identity, neither deleted nor without an   *)
(* address.                                                                   *)
resolve_documents(attachments) ==
  FoldLeft(LAMBDA docs, a :
      IF a.deleted \/ a.urls = <<>>
         \/ \E d \in ToSet(docs) : d.kind = a.kind /\ d.key = a.key
      THEN docs ELSE Append(docs, a), <<>>, attachments)

(* Each is downloaded, from its second address if the first fails, and read.  *)
(* What could not be is left out with a warning, and the review goes on with  *)
(* the documents of the type that could.                                      *)
grouped(in, kind) ==
  \E d \in ToSet(resolve_documents(in.attachments)) :
    d.kind = kind /\ "loads" \in ToSet(d.urls) /\ d.ocr = "text"

(* An agent that fails, or runs into its timeout, gives no facts.             *)
Facts(in, kind) == grouped(in, kind) /\ in.extracted[kind]
Seal(in) == IF grouped(in, "programme") /\ in.looked["programme"] THEN in.seal
            ELSE [in.seal EXCEPT !.available = FALSE, !.confident = FALSE]
Signs(in, kind) == IF grouped(in, kind) /\ in.looked[kind] THEN in.signs[kind] ELSE <<>>

TypoRule(rule, typos) == Judged(rule, typos = "found", typos = "unchecked")

-----------------------------------------------------------------------------
(* Marks as they were extracted, several names of a type possible: the last   *)
(* one of a type is its state, and one that is checked makes it checked.      *)
work_type_states(marks) ==
  [type \in {m.type : m \in ToSet(marks)} |->
     LET of == SelectSeq(marks, LAMBDA m : m.type = type) IN of[Len(of)].state]
State(marks, type) == IF type \in DOMAIN work_type_states(marks)
                      THEN work_type_states(marks)[type] ELSE "UNKNOWN"
checked_types(marks) == {m.type : m \in {n \in ToSet(marks) : n.state = "CHECKED"}}
unknown_types(marks) == {type \in WorkTypes : State(marks, type) = "UNKNOWN"}

(* The visual evidence of a signature: of its role, not used before, by name  *)
(* where one is alike; 0 if there is none.                                    *)
visual_for(items, role, name, used) ==
  LET of == {i \in DOMAIN items \ used : items[i].role = role}
      alike == {i \in of : items[i].name \cap name # {}}
      exact == {i \in of : items[i].name = name}
      best == IF name # {} /\ exact # {} THEN exact
              ELSE IF name # {} /\ alike # {} THEN alike ELSE of
  IN IF best = {} THEN 0 ELSE CHOOSE i \in best : \A j \in best : i <= j

-----------------------------------------------------------------------------
(* The rules of the programme.                                                *)
Chapters(p) ==
  LET there == DOMAIN p.sections
      Renamed(same) == \E h \in there : p.sections[h].renamed /\ p.sections[h].same = same
  IN Judged("P0-C1",
            \/ there # DOMAIN Required \/ Renamed("no")
            \/ \E h \in there : p.sections[h].content = "no" \/ ~(Required[h] \subseteq p.sections[h].subs),
            Renamed("unknown") \/ \E h \in there : p.sections[h].content = "unknown")
     \o Judged("P0-C2", Renamed("yes"), Renamed("unknown"))
     \o Judged("P0-E1", ~("emergency" \in there /\ Required["emergency"] \subseteq p.sections["emergency"].subs),
               FALSE)

Tables(p) ==
  LET Bad(rule) == IF rule \in DOMAIN p.tables THEN p.tables[rule].missing # {} ELSE TRUE
      tools == IF "P0-H1" \in DOMAIN p.tables THEN p.tables["P0-H1"].rows ELSE <<>>
  IN Judged("P0-H1", Bad("P0-H1") \/ tools = <<>> \/ \E row \in ToSet(tools) : row # "counted", FALSE)
     \o Judged("P0-H2", Bad("P0-H2"), FALSE) \o Judged("P0-H3", Bad("P0-H3"), FALSE)
     \o Judged("P0-H4", Bad("P0-H4"), FALSE)
     \o CASE p.chemicals = "no" -> <<Result("P0-H5", "NOT_APPLICABLE")>>
          [] p.chemicals = "unknown" -> <<Result("P0-H5", "UNVERIFIABLE")>>
          [] OTHER -> Judged("P0-H5", Bad("P0-H5"), FALSE)

(* Mutant: a role without usable evidence is passed over.                     *)
CoverSignatures_skips(items) ==
  LET Usable(i) == i # 0 /\ items[i].confident
      seen == {i \in {visual_for(items, role, {}, {}) : role \in {"engineer", "manager"}} : Usable(i)}
  IN Judged("P0-F3",
            \E i \in seen : items[i].hand = "no" \/ items[i].handDate = "no" \/ ~items[i].monthDay,
            \E i \in seen : "unknown" \in {items[i].hand, items[i].handDate})

CoverSignatures(items) ==
  LET Usable(i) == i # 0 /\ items[i].confident
      both == {visual_for(items, role, {}, {}) : role \in {"engineer", "manager"}}
      seen == {i \in both : Usable(i)}
  IN Judged("P0-F3",
            \E i \in seen : items[i].hand = "no" \/ items[i].handDate = "no" \/ ~items[i].monthDay,
            both # seen \/ \E i \in seen : "unknown" \in {items[i].hand, items[i].handDate})

Cover(in, p) ==
  LET items == Signs(in, "programme")
      seal == Seal(in)
      supplier == IF in.vendor # {} THEN in.vendor ELSE p.supplier
      text == IF seal.text # {} THEN seal.text ELSE p.sealText
      NameOf(fact, role) == LET i == visual_for(items, role, {}, {})
                            IN IF fact = {} /\ i # 0 THEN items[i].name ELSE fact
      first == NameOf(p.proofreader, "proofreader")
      second == NameOf(p.approver, "approver")
      usable == seal.available /\ seal.confident
      open == {} \in {supplier, text}
  IN Judged("P0-F1", {} \notin {first, second} /\ first = second, {} \in {first, second})
     \o Judged("P0-F2", usable /\ ("no" \in {seal.red, seal.bottom} \/ (~open /\ supplier # text)),
               ~usable \/ "unknown" \in {seal.red, seal.bottom} \/ open)
     \o CoverSignatures(items)

Marks(in, p) ==
  LET hotHere == \E d \in ToSet(resolve_documents(in.attachments)) : d.kind = "hot"
  IN Judged("P0-F4", \/ \E type \in WorkTypes : State(p.marks, type) = "BLANK"
                     \/ in.types # {} /\ checked_types(p.marks) # in.types,
            unknown_types(p.marks) # {})
     \o CASE State(p.marks, Hot) = "UNCHECKED" -> <<Result("P0-F5", "NOT_APPLICABLE")>>
          [] State(p.marks, Hot) = "CHECKED" -> Judged("P0-F5", ~hotHere, FALSE)
          [] OTHER -> <<Result("P0-F5", "UNVERIFIABLE")>>

Personnel(p) ==
  LET people == ToSet(p.personnel)
      Known(q) == q.age # {} /\ q.certified # "unknown"
  IN Judged("P0-P1", \E q \in people : Known(q) /\ \E age \in q.age :
                                         age > IF q.certified = "yes" THEN 55 ELSE 60,
            people = {} \/ \E q \in people : ~Known(q))
     \o Judged("P0-P2", \E q \in people : \/ q.certified = "no" /\ q.status # "not needed"
                                          \/ q.certified = "yes" /\ q.status # "allowed",
               people = {} \/ \E q \in people : q.certified = "unknown")

(* A record per day of the period, each inside it, and no day twice.          *)
DailyRecords(in, p) ==
  LET dates == UNION {r.date : r \in ToSet(p.daily)}
      given == p.start # {} /\ p.end # {} /\ in.workDay # {}
      Wrong == \/ Len(p.daily) \notin in.workDay
               \/ Cardinality(dates) # Len(p.daily)
               \/ \E d \in dates, s \in p.start, e \in p.end : d < s \/ d > e
               \/ \E r \in ToSet(p.daily) : ~r.filled
  IN Judged("P0-S1", given /\ Wrong, ~given)

Emergency(p) ==
  LET roles == ToSet(p.emergency)
      people == {q.name : q \in ToSet(p.personnel)} \ {{}}
  IN Judged("P0-E2", p.format = "TABLE" \/ ~({"leader", "safety", "member"} \subseteq {r.role : r \in roles}),
            p.format # "LINES")
     \o Judged("P0-E3", \E r \in roles : r.name = {} \/ (people # {} /\ r.name \notin people),
               roles = {} \/ people = {})
     \o Judged("P0-E4", \E r \in roles : ~r.phoneOk, roles = {})

ProgrammeResults(in) ==
  IF ~Facts(in, "programme") THEN All(ProgrammeRules, "UNVERIFIABLE")
  ELSE LET p == in.programme
       IN TypoRule("P0-TYPO", in.typos["programme"]) \o Chapters(p) \o Tables(p) \o Cover(in, p)
          \o Marks(in, p) \o Personnel(p) \o DailyRecords(in, p) \o Emergency(p)

-----------------------------------------------------------------------------
(* The signatures of a disclosure against the people of the programme, each   *)
(* with the next visual evidence that fits it.                                *)
SignatureRules(name, date, range, facts, items, p, initiated) ==
  LET people == {q.name : q \in ToSet(p.personnel)} \ {{}}
      signatures == facts.signatures
      evidence == FoldLeft(LAMBDA seq, s : Append(seq, visual_for(items, s.role, s.name, ToSet(seq))),
                           <<>>, signatures)
      complete == facts.complete = "yes"
      missing == ~({"giver", "taker"} \subseteq {s.role : s \in ToSet(signatures)})
      Named(i) == IF signatures[i].name # {} THEN signatures[i].name
                  ELSE IF evidence[i] # 0 THEN items[evidence[i]].name ELSE {}
      Dated(i) == IF signatures[i].date # {} THEN signatures[i].date
                  ELSE IF evidence[i] # 0 THEN items[evidence[i]].date ELSE {}
      Known(i) == evidence[i] # 0
      On(P(_)) == \E i \in DOMAIN signatures : P(i)
  IN IF signatures = <<>>
     THEN LET absent == facts.section = "no" \/ complete
          IN Judged(name, absent, TRUE) \o Judged(date, absent, TRUE) \o Judged(range, FALSE, TRUE)
     ELSE Judged(name,
            \/ missing /\ complete
            \/ On(LAMBDA i : Known(i) /\ items[evidence[i]].confident /\ items[evidence[i]].hand = "no")
            \/ On(LAMBDA i : Known(i) /\ items[evidence[i]].handDate = "no")
            \/ On(LAMBDA i : Named(i) # {} /\ people # {} /\ \A q \in people : Named(i) \cap q = {}),
            \/ people = {} \/ ~complete
            \/ On(LAMBDA i : ~Known(i) \/ ~items[evidence[i]].confident
                             \/ "unknown" \in {items[evidence[i]].hand, items[evidence[i]].handDate})
            \/ On(LAMBDA i : Named(i) = {}))
          \o Judged(date, (missing /\ complete) \/ On(LAMBDA i : Dated(i) = {}), ~complete)
          \o Judged(range, On(LAMBDA i : \E d \in Dated(i), t \in initiated : d < t - 7 \/ d > t),
                    initiated = {} \/ ~complete \/ missing \/ On(LAMBDA i : Dated(i) = {}))

(* The safety disclosure against the marks of the programme.                  *)
TechResults(in) ==
  LET p == in.programme
      t == in.tech
      baseline == checked_types(p.marks)
      open == unknown_types(p.marks)
      Blank(measures) == {type \in baseline : type \notin DOMAIN measures \/ measures[type] = "blank"}
      Extra(measures) == (DOMAIN measures \ baseline) \ open
      configured == \A type \in baseline : type \in DOMAIN in.ppe /\ in.ppe[type] # {}
      unprotected == {type \in baseline :
                        ~(in.ppe[type] \subseteq (IF type \in DOMAIN t.ppe THEN t.ppe[type] ELSE {}))}
  IN IF ~Facts(in, "programme") \/ ~Facts(in, "tech") THEN All(TechRules, "UNVERIFIABLE")
     ELSE TypoRule("P1-TYPO", in.typos["tech"])
          \o Judged("P1-R1", Blank(t.risk) # {}, open # {})
          \o Judged("P1-R2", baseline \ DOMAIN t.risk # {} \/ Extra(t.risk) # {}, open # {})
          \o Judged("P1-PP", configured /\ unprotected # {}, ~configured \/ open # {})
          \o Judged("P1-EM", Blank(t.measures) # {} \/ Extra(t.measures) # {}, open # {})
          \o Judged("P1-CK", \E type \in WorkTypes :
                      \/ State(t.marks, type) = "BLANK"
                      \/ type \in baseline /\ State(t.marks, type) = "UNCHECKED"
                      \/ type \notin baseline /\ State(t.marks, type) = "CHECKED",
                    unknown_types(t.marks) # {} \/ open # {})
          \o SignatureRules("P1-S1", "P1-S2", "P1-S3", t, Signs(in, "tech"), p, in.initiated)

HotResults(in) ==
  LET p == in.programme
      h == in.hot
  IN IF ~Facts(in, "programme") THEN All(HotRules, "UNVERIFIABLE")
     ELSE IF State(p.marks, Hot) = "UNCHECKED" THEN All(HotRules, "NOT_APPLICABLE")
     ELSE IF State(p.marks, Hot) # "CHECKED" \/ ~Facts(in, "hot") THEN All(HotRules, "UNVERIFIABLE")
     ELSE TypoRule("P2-TYPO", in.typos["hot"])
          \o Judged("P2-R1", in.template /\ h.risk # "like the template", ~in.template)
          \o Judged("P2-PP", in.hotPpe # {} /\ ~(in.hotPpe \subseteq h.ppe), in.hotPpe = {})
          \o SignatureRules("P2-S1", "P2-S2", "P2-S3", h, Signs(in, "hot"), p, in.initiated)

-----------------------------------------------------------------------------
(* evaluate: one result per rule of the catalogue, whatever was produced.     *)
raw_results(in) == ProgrammeResults(in) \o TechResults(in) \o HotResults(in)
Of(raw, rule) == SelectSeq(raw, LAMBDA r : r.rule = rule)
status(matches) ==
  IF Len(matches) = 1 THEN matches[1].status
  ELSE IF \E r \in ToSet(matches) : r.status = "FAIL" THEN "FAIL"
  ELSE "UNVERIFIABLE"
decision(raw) ==
  LET statuses == {status(Of(raw, rule)) : rule \in Rejecting}
  IN IF "FAIL" \in statuses THEN "REJECTED"
     ELSE IF "UNVERIFIABLE" \in statuses THEN "MANUAL_REVIEW"
     ELSE "PASSED"
review(in) == decision(raw_results(in))

-----------------------------------------------------------------------------
(* Every rule of the catalogue is judged exactly once on every path, and what *)
(* could not be read never helps: where "less" is the same file with a fact   *)
(* of it unknown, unread or not looked at, it passes only if the file itself  *)
(* passes.                                                                    *)
IgnoranceNeverPasses(in, less) ==
  /\ LET raw == raw_results(less)
     IN /\ \A rule \in RULES : Len(Of(raw, rule)) = 1
        /\ decision(raw) = "PASSED" => review(in) = "PASSED"

(* REJECTED as DOC_REVIEW_TESTING.md gives it, some rejecting rule has clear  *)
(* evidence against it: that evidence stays when a mark that was unknown      *)
(* turns out to be checked, or unchecked.                                     *)
RejectedByEvidence(in, less) == review(less) = "REJECTED" => review(in) = "REJECTED"
=============================================================================
