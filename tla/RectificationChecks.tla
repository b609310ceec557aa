----------------------- MODULE RectificationChecks -----------------------
(* The checks of an initial review (CPS), as functions of what was submitted  *)
(* and of what the models and the attachment server answered: the text rules, *)
(* the resemblance check, the validity of each field, the comparison of the   *)
(* photos, and the overall verdict.  A text is a sequence of the classes of   *)
(* its characters; what the string matcher makes of two texts is a constant.  *)
EXTENDS Integers, FiniteSets, Sequences, SequencesExt, FiniteSetsExt

CONSTANTS MinLength,           \* MIN_LENGTH
          Ratio,               \* RATIO_NUMERATOR
          Resemblance(_, _),   \* similarity_score of two texts that are not blank
          FailAt, WarnAt,      \* similarity thresholds
          Cap                  \* max_images_per_side

Verdicts == {"PASS", "WARN", "FAIL"}
Fields == {"reason", "short_term_measure", "long_term_measure"}

-----------------------------------------------------------------------------
(* Text rules.                                                                *)

WithoutNewlines(text) == SelectSeq(text, LAMBDA ch : ch # "newline")

(* Mutant: a run of ellipsis characters is as many tokens as characters.      *)
tokenize_apart(s) == [i \in DOMAIN s |-> [punct |-> s[i] # "char", from |-> i, to |-> i]]

(* _tokenize: one token per character, but one for a whole run of U+2026.     *)
tokenize(s) ==
  FoldLeftDomain(LAMBDA toks, i :
      IF s[i] = "ellipsis" /\ i > 1 /\ s[i - 1] = "ellipsis"
      THEN [toks EXCEPT ![Len(toks)].to = i]
      ELSE Append(toks, [punct |-> s[i] # "char", from |-> i, to |-> i]),
    <<>>, s)

(* _count_punct: a run of k ellipsis characters counts as k/2, rounded up.    *)
count_punct(s) ==
  FoldLeft(LAMBDA n, tok : n + IF tok.punct THEN (tok.to - tok.from + 2) \div 2 ELSE 0,
           0, tokenize(s))

(* The maximal runs of two and more punctuation tokens, as <<from, to>>.      *)
consecutive(s) ==
  LET tokens == tokenize(s)
      Run(i, j) == /\ \A k \in i .. j : tokens[k].punct
                   /\ i > 1 => ~tokens[i - 1].punct
                   /\ j < Len(tokens) => ~tokens[j + 1].punct
  IN {<<tokens[i].from, tokens[j].to>> : <<i, j>> \in
        {r \in (DOMAIN tokens) \X (DOMAIN tokens) : r[1] < r[2] /\ Run(r[1], r[2])}}

check_text_rules(text) ==
  LET s == WithoutNewlines(text)
  IN [length_ok |-> Len(s) >= MinLength,
      ratio_ok |-> Ratio * count_punct(s) <= Len(s),
      violations |-> consecutive(s)]

-----------------------------------------------------------------------------
(* Resemblance of the texts to each other and to earlier submissions.         *)

Blank(text) == \A i \in DOMAIN text : text[i] \in {"newline", "space"}
similarity_score(a, b) == IF Blank(a) \/ Blank(b) THEN 0 ELSE Resemblance(a, b)
verdict_by_thresholds(score) ==
  IF score >= FailAt THEN "FAIL" ELSE IF score >= WarnAt THEN "WARN" ELSE "PASS"

Severity == [v \in {"PASS", "SKIPPED", "WARN", "FAIL"} |->
               CASE v = "PASS" -> 0 [] v = "SKIPPED" -> 1 [] v = "WARN" -> 2 [] OTHER -> 3]
worst_verdict(verdicts) ==
  LET effective == verdicts \ {"SKIPPED"}
  IN IF effective = {} THEN "SKIPPED"
     ELSE CHOOSE v \in effective : \A w \in effective : Severity[v] >= Severity[w]

(* The rows of earlier versions that were COMPLETED, in the order of versions *)
history_versions(rows, before) ==
  LET earlier == {r \in ToSet(rows) : r.status = "COMPLETED" /\ r.version < before}
      item(r) == [texts |-> r.texts, version |-> r.version]
  IN [i \in 1 .. Cardinality(earlier) |->
        item(CHOOSE r \in earlier : Quantify(earlier, LAMBDA o : o.version < r.version) = i - 1)]

normalize_history_item(item) == \E f \in Fields : ~Blank(item.texts[f])

(* What has been seen already, its version included, counts once.             *)
dedupe_history(items) ==
  FoldLeft(LAMBDA seen, item : IF item \in ToSet(seen) THEN seen ELSE Append(seen, item), <<>>, items)

(* The history is the snapshot's, then the database's, without the entries    *)
(* that are empty.  If the database cannot be read its part is missing.       *)
load_history(in) ==
  dedupe_history(SelectSeq(
    in.snapshot \o (IF in.dbFails THEN <<>> ELSE history_versions(in.db, in.version)),
    normalize_history_item))

(* Every field against every field of every earlier submission.               *)
check_history(texts, history) ==
  IF history = <<>> THEN "SKIPPED"
  ELSE verdict_by_thresholds(
         Max({0} \cup {similarity_score(texts[f], h.texts[g]) :
                          f \in Fields, g \in Fields, h \in ToSet(history)}))

check_measure_similarity(texts, history) ==
  worst_verdict({verdict_by_thresholds(similarity_score(texts["short_term_measure"],
                                                        texts["long_term_measure"])),
                 check_history(texts, history)})

measure_similarity(in) == check_measure_similarity(in.texts, load_history(in))

-----------------------------------------------------------------------------
(* What a model wrote: the text as a whole and the fenced blocks in it.  Of a *)
(* piece of text it matters which object it holds, if any, whether something  *)
(* stands around that, and whether single quotes or a trailing comma keep it  *)
(* from being JSON.                                                           *)
Empty(piece) == piece.object = "none" /\ ~piece.wrapped
first_balanced_object(piece) == [piece EXCEPT !.wrapped = FALSE]
json_candidates(reply) ==
  LET sources == <<reply.whole>> \o reply.fences
      fragments == [i \in DOMAIN sources |-> first_balanced_object(sources[i])]
  IN SelectSeq(sources, LAMBDA piece : ~Empty(piece))
       \o SelectSeq(fragments, LAMBDA piece : piece.object # "none")

(* As it stands; with double quotes; and then without the trailing comma,     *)
(* which nothing removes where there were no single quotes.                   *)
repair_chain(piece) ==
  LET quoted == [piece EXCEPT !.single = FALSE]
  IN <<piece>> \o IF ~piece.single THEN <<>>
                  ELSE <<quoted>> \o IF piece.comma THEN <<[quoted EXCEPT !.comma = FALSE]>> ELSE <<>>

loads(piece) == piece.object # "none" /\ ~piece.wrapped /\ ~piece.single /\ ~piece.comma
extract_json_object(reply) ==
  LET found == SelectSeq(FlattenSeq([i \in DOMAIN json_candidates(reply) |->
                                       repair_chain(json_candidates(reply)[i])]), loads)
  IN IF found = <<>> THEN "invalid" ELSE Head(found).object

(* A model call: no client, none configured, or a client that answers.  An    *)
(* answer that does not parse, or holds something else than was asked for, is *)
(* fed back once; a call raises, or runs out of the field's budget.           *)
Clients == {"absent", "unavailable", "ready"}

invoke_json(client, replies) ==
  LET read(i) == IF replies[i].fails THEN "failed" ELSE extract_json_object(replies[i])
  IN IF client # "ready" THEN "unavailable"
     ELSE IF read(1) \in Verdicts THEN read(1)
     ELSE IF read(1) # "failed" /\ read(2) \in Verdicts THEN read(2)
     ELSE "failed"

Implemented(verdict) == [status |-> "IMPLEMENTED", verdict |-> verdict]
Skipped == [status |-> "SKIPPED", verdict |-> "SKIPPED"]
Degraded == [status |-> "DEGRADED", verdict |-> "SKIPPED"]
AsResult(answer) == CASE answer = "unavailable" -> Skipped
                      [] answer = "failed" -> Degraded
                      [] OTHER -> Implemented(answer)

(* Mutant: what the model could not judge counts as no objection.             *)
text_validity_lenient(text, client, replies) ==
  IF Blank(text) THEN Skipped
  ELSE LET result == AsResult(invoke_json(client, replies))
       IN IF result = Degraded THEN Implemented("PASS") ELSE result

text_validity(text, client, replies) ==
  IF Blank(text) THEN Skipped ELSE AsResult(invoke_json(client, replies))

(* An attachment without a URL is passed over; one that cannot be fetched     *)
(* fails the comparison.                                                      *)
resolve_side(metas) == SelectSeq(SubSeq(metas, 1, IF Len(metas) < Cap THEN Len(metas) ELSE Cap),
                                 LAMBDA meta : meta # "no_url")

(* The first of the three lists with a value in it holds the readings.        *)
extract_submitted_readings(lists) ==
  LET given == SelectSeq(lists, LAMBDA list : "value" \in ToSet(list))
  IN IF given = <<>> THEN <<>> ELSE SelectSeq(Head(given), LAMBDA r : r = "value")

readings_section(submitted, match) == IF submitted = <<>> THEN "not provided" ELSE match

(* The readings the submitter gave are checked in the same call: a mismatch   *)
(* is at least a warning.                                                     *)
image_compare(in, replies) ==
  LET urls == resolve_side(in.before) \o resolve_side(in.after)
      readings == readings_section(extract_submitted_readings(in.readings), in.match)
      result == AsResult(invoke_json(in.client, replies))
  IN IF in.before = <<>> \/ in.after = <<>> \/ in.client = "absent" THEN Skipped
     ELSE IF "broken" \in ToSet(urls) \/ urls = <<>> THEN Degraded
     ELSE IF readings = "mismatch" /\ result.status = "IMPLEMENTED"
          THEN Implemented(worst_verdict({result.verdict, "WARN"}))
          ELSE result

-----------------------------------------------------------------------------
(* collect_check_outcomes: every rule and every check, under one roof.        *)
Rules(check) ==
  {IF check.length_ok THEN "PASS" ELSE "FAIL", IF check.ratio_ok THEN "PASS" ELSE "FAIL"}
    \cup {"FAIL" : v \in check.violations}

text_verdicts(in) == UNION {Rules(check_text_rules(in.texts[f])) : f \in Fields}

(* The hints of the memory go into the prompts; without a retriever, with an  *)
(* exception of it, or with nothing found there are none, and the checks run. *)
retrieve_historical_hints(memory) == IF memory = "found" THEN "hints" ELSE "none"

(* CheckPipeline.run: the three checks, with what a model replies to a prompt *)
(* that has the hints or has not.                                             *)
run(in, hints) ==
  LET replies(f) == IF hints = "none" THEN in.replies[f] ELSE in.hinted
  IN [similarity |-> measure_similarity(in),
      fields |-> [f \in Fields |-> text_validity(in.texts[f], in.client, replies(f))],
      photos |-> image_compare(in, in.vision)]

model_verdicts(in) ==
  LET checks == run(in, retrieve_historical_hints(in.memory))
  IN {checks.fields[f].verdict : f \in Fields} \cup {checks.photos.verdict, checks.similarity}

aggregate_overall(verdicts) ==
  IF "FAIL" \in verdicts THEN "PROBLEM"
  ELSE IF verdicts \cap {"WARN", "SKIPPED"} # {} THEN "PARTIAL"
  ELSE "PASS"

default_check_runner(in) == aggregate_overall(text_verdicts(in) \cup model_verdicts(in))

-----------------------------------------------------------------------------
(* What the rules of a text say, without tokens: a maximal run of characters  *)
(* that are not text is a violation unless it is one character or one run of  *)
(* ellipsis characters, and each counts once, or a pair of ellipses once.     *)
Segments(s, P(_)) ==
  {<<i, j>> \in (DOMAIN s) \X (DOMAIN s) :
     /\ i <= j /\ \A k \in i .. j : P(s[k])
     /\ i > 1 => ~P(s[i - 1])
     /\ j < Len(s) => ~P(s[j + 1])}

TextRulesAgree(text) ==
  LET s == WithoutNewlines(text)
      ellipses == Segments(s, LAMBDA ch : ch = "ellipsis")
  IN /\ consecutive(s) = Segments(s, LAMBDA ch : ch # "char")
                           \ (ellipses \cup {<<i, i>> : i \in DOMAIN s})
     /\ count_punct(s) = Quantify(DOMAIN s, LAMBDA i : s[i] \notin {"char", "ellipsis"})
                         + MapThenSumSet(LAMBDA r : (r[2] - r[1] + 2) \div 2, ellipses)

(* A review passes only on what was really checked: every text keeps the      *)
(* rules, a model was there and called each field and the photos good, both   *)
(* sides had photos and every photo used was fetched, no reading              *)
(* contradicted them, and no two texts resembled each other; and it is a      *)
(* PROBLEM only if a rule, a model or a resemblance really objected.  What a  *)
(* model meant does not depend on how it wrote it, but for a trailing comma   *)
(* among double quotes; what the memory raised or lacked changes nothing; and *)
(* the earlier submissions are those that were completed.                     *)
Meant(reply) == {piece.object : piece \in {x \in {reply.whole} \cup ToSet(reply.fences) :
                                              x.comma => x.single}} \cap Verdicts
Said(client, replies) ==
  IF client # "ready" \/ replies[1].fails THEN {}
  ELSE IF Meant(replies[1]) # {} THEN Meant(replies[1])
  ELSE IF replies[2].fails THEN {} ELSE Meant(replies[2])
Compared(in) == in.before # <<>> /\ in.after # <<>>
                /\ "broken" \notin ToSet(resolve_side(in.before) \o resolve_side(in.after))
                /\ resolve_side(in.before) \o resolve_side(in.after) # <<>>
Earlier(in) ==
  {h \in {item.texts : item \in ToSet(in.snapshot)}
         \cup {r.texts : r \in {x \in ToSet(in.db) : /\ ~in.dbFails /\ x.version < in.version
                                                     /\ x.status = "COMPLETED"}} :
     \E f \in Fields : ~Blank(h[f])}

OverallIsEarned(in) ==
  LET rulesKept == \A f \in Fields : LET r == check_text_rules(in.texts[f])
                                     IN r.length_ok /\ r.ratio_ok /\ r.violations = {}
      replies(f) == IF in.memory = "found" THEN in.hinted ELSE in.replies[f]
      saidOf(f) == IF Blank(in.texts[f]) THEN {} ELSE Said(in.client, replies(f))
      saidOfPhotos == IF Compared(in) THEN Said(in.client, in.vision) ELSE {}
      contradicted == in.match = "mismatch" /\ \E list \in ToSet(in.readings) : "value" \in ToSet(list)
      scores == {similarity_score(in.texts["short_term_measure"], in.texts["long_term_measure"])}
                  \cup {similarity_score(in.texts[f], h[g]) : f, g \in Fields, h \in Earlier(in)}
  IN /\ default_check_runner(in) = "PASS" <=>
          /\ rulesKept /\ Max(scores) < WarnAt
          /\ \A f \in Fields : saidOf(f) = {"PASS"}
          /\ saidOfPhotos = {"PASS"} /\ ~contradicted
     /\ default_check_runner(in) = "PROBLEM" <=>
          \/ ~rulesKept \/ Max(scores) >= FailAt
          \/ \E f \in Fields : saidOf(f) = {"FAIL"}
          \/ saidOfPhotos = {"FAIL"}

(* The comments of AttachmentRef and _resolve_side: where a side has no       *)
(* picture that could be had, nothing is judged.                              *)
JudgedOnBothSides(in) ==
  image_compare(in, in.vision).status = "IMPLEMENTED"
    => resolve_side(in.before) # <<>> /\ resolve_side(in.after) # <<>>
=============================================================================
