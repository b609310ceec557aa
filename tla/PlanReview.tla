---------------------------- MODULE PlanReview ----------------------------
(* The review of a construction plan from pictures of it: the files that can  *)
(* be had, what a provider sees on each picture, the facts an agent makes of  *)
(* what was seen, the check of the seal's pixels, and the rules.  Optional    *)
(* values are sets of at most one element, "unknown" is None.                 *)
EXTENDS Integers, Sequences, FiniteSetsExt, SequencesExt

CONSTANTS Retries,     \* max_retries
          WorkTypes,   \* WORK_TYPES
          Chapters     \* SECTION_RULES: the subheadings of each chapter

Suggestions == {"CP-C2", "CP-H1", "CP-P2"}
Finding(rule, status) ==
  [rule |-> rule, status |-> status,
   severity |-> CASE rule \in Suggestions -> "SUGGESTION" [] rule = "CP-TYPO" -> "REMINDER"
                  [] OTHER -> "REJECT"]
Judged(rule, fails, review) ==
  Finding(rule, IF fails THEN "FAIL" ELSE IF review THEN "REVIEW_REQUIRED" ELSE "PASS")

-----------------------------------------------------------------------------
(* Assets.                                                                    *)

(* resolve_preview_files: what is not deleted, has an address and is new.     *)
resolve_preview_files(files) ==
  FoldLeft(LAMBDA kept, f : IF f.deleted \/ f.url = "none" \/ \E k \in ToSet(kept) : k.key = f.key
                            THEN kept ELSE Append(kept, f), <<>>, files)

(* A file is downloaded and rendered until one try is good, or passed over.   *)
Rendered(f) == \E i \in 1 .. Retries + 1 : f.tries[i] = "pictures"
prepare_assets(files) ==
  FlattenSeq([i \in DOMAIN resolve_preview_files(files) |->
                LET f == resolve_preview_files(files)[i] IN IF Rendered(f) THEN f.pictures ELSE <<>>])

-----------------------------------------------------------------------------
(* Extraction: Retries + 1 tries of the provider, one of the fallback.  What  *)
(* was seen with little confidence counts as a failure, like an error, which  *)
(* is an answer without elements.                                            *)
Tries(providers) ==
  [i \in 1 .. Retries + Len(providers) |->
     IF i <= Retries + 1 THEN <<providers[1], i>> ELSE <<providers[i - Retries], 1>>]
Good(answer) == answer.confident /\ answer.elements # <<>>

extract(picture, registered, providers) ==
  LET answers == {i \in DOMAIN Tries(providers) :
                    /\ Tries(providers)[i][1] \in registered
                    /\ Good(picture.answers[Tries(providers)[i]])}
  IN IF answers = {} THEN {}
     ELSE {[elements |-> picture.answers[Tries(providers)[Min(answers)]].elements, ink |-> picture.ink]}

(* RedSealColorVerifier: the share of red pixels in the box decides.          *)
verify(ink) == CASE ink = "red" -> "yes" [] ink = "other" -> "no" [] OTHER -> "unknown"
SealCandidates(seen) == {s \in seen : "seal_candidate" \in ToSet(s.elements)}

(* Mutant: where no picture has a candidate, what the agent said stays.       *)
enforce_color_verdict_trusting(isRed, seen) ==
  LET checks == {verify(s.ink) : s \in SealCandidates(seen)}
  IN IF checks = {} THEN isRed
     ELSE IF "yes" \in checks THEN "yes" ELSE IF checks = {"no"} THEN "no" ELSE "unknown"

(* The verdict of the pixels replaces what the agent made of the colour.      *)
enforce_color_verdict(isRed, seen) ==
  LET checks == {verify(s.ink) : s \in SealCandidates(seen)}
  IN IF "yes" \in checks THEN "yes" ELSE IF checks = {"no"} THEN "no" ELSE "unknown"

-----------------------------------------------------------------------------
(* The rules.                                                                 *)
Sections(f) ==
  LET there == DOMAIN f.sections
  IN {Judged("CP-C1", there # {} /\ \/ DOMAIN Chapters \ there # {}
                                    \/ \E c \in there : \/ f.sections[c].content = "no"
                                                        \/ ~(Chapters[c] \subseteq f.sections[c].subs),
             there = {}),
      Judged("CP-C2", \E c \in there : f.sections[c].same = "yes" /\ f.sections[c].renamed, FALSE)}

(* A table without its headers rejects, the tools' table as well; with them,  *)
(* its own severity counts.                                                   *)
Tables(f) ==
  {IF rule = "CP-H5" /\ f.chemicals = "no" THEN Finding(rule, "PASS")
   ELSE IF rule = "CP-H5" /\ f.tables = <<>> THEN Finding(rule, "REVIEW_REQUIRED")
   ELSE IF rule \notin DOMAIN f.tables THEN Finding(rule, "FAIL")
   ELSE IF f.tables[rule] = "headers missing" THEN [Finding(rule, "FAIL") EXCEPT !.severity = "REJECT"]
   ELSE Judged(rule, f.tables[rule] = "zero quantity", FALSE)
     : rule \in {"CP-H1", "CP-H2", "CP-H3", "CP-H4", "CP-H5"}}

(* Of several signatures of a role the last counts.                           *)
Cover(f, vendor, isRed) ==
  LET named == f.proofreader # {} /\ f.approver # {}
      match == f.sealText # {} /\ vendor # {} /\ f.sealText = vendor
      Latest(role, s) == \E i \in DOMAIN f.signatures :
                         /\ s = f.signatures[i] /\ s.role = role
                         /\ \A j \in DOMAIN f.signatures : f.signatures[j].role = role => j <= i
      Proper(role) == \E s \in ToSet(f.signatures) : Latest(role, s) /\ s.hand = "yes" /\ s.monthDay
  IN {Judged("CP-F1", named /\ f.proofreader = f.approver, ~named),
      Judged("CP-F2", \/ f.seal = "no"
                      \/ f.seal = "yes" /\ (isRed = "no" \/ (isRed = "yes" /\ ~match)),
             "unknown" \in {f.seal, isRed}),
      Judged("CP-F3", FALSE, ~Proper("engineer") \/ ~Proper("manager")),
      Judged("CP-F4", \E type \in WorkTypes : f.states[type] \notin {"CHECKED", "UNCHECKED"}, FALSE)}

Personnel(f) ==
  LET Known(p) == p.age # {} /\ p.certified # "unknown"
      TooOld(p) == \E age \in p.age : age > IF p.certified = "yes" THEN 55 ELSE 60
      known == {p \in f.personnel : Known(p)}
  IN {Judged("CP-P1", \E p \in known : TooOld(p), known # f.personnel),
      Judged("CP-P2", \E p \in known : p.status # IF p.certified = "yes" THEN "allowed" ELSE "not needed",
             FALSE)}

Schedule(f, workDay, workDates) ==
  LET dates == UNION {r.date : r \in ToSet(f.daily)}
      counted == workDay # {} /\ Len(f.daily) \in workDay
      outside == workDates # {} /\ \E d \in dates : d < Min(workDates) \/ d > Max(workDates)
  IN {Judged("CP-S1", workDay # {} /\ (~counted \/ outside),
             workDay = {} \/ (dates = {} /\ workDay # {0}))}

(* The first rule that fails ends the emergency rules: those after it, and    *)
(* those before it, give no finding.                                          *)
Emergency(f) ==
  LET names == {p.name : p \in f.personnel} \ {{}}
  IN IF \/ f.format # "BY_LINE"
        \/ ~({"leader", "safety", "member"} \subseteq {r.role : r \in f.emergency})
        \/ ~(Chapters["emergency"] \subseteq f.emergencySubs)
     THEN {Finding("CP-E1", "FAIL")}
     ELSE IF \E r \in f.emergency : r.name \notin names THEN {Finding("CP-E2", "FAIL")}
     ELSE IF \E r \in f.emergency : ~r.phoneOk THEN {Finding("CP-E3", "FAIL")}
     ELSE {Finding(rule, "PASS") : rule \in {"CP-E1", "CP-E2", "CP-E3"}}

evaluate(in, f, isRed) ==
  Sections(f) \cup Tables(f) \cup Cover(f, in.vendor, isRed) \cup Personnel(f)
    \cup Schedule(f, in.workDay, in.workDates) \cup Emergency(f)
    \cup {Judged("CP-TYPO", f.typos, FALSE)}

-----------------------------------------------------------------------------
(* run.                                                                       *)

(* A picture nobody could see makes every PASS a matter for review.           *)
mark_unavailable(findings, failed) ==
  IF failed = {} THEN findings
  ELSE {[x EXCEPT !.status = IF @ = "PASS" THEN "REVIEW_REQUIRED" ELSE @] : x \in findings}

status_of(findings) ==
  IF \E x \in findings : x.severity = "REJECT" /\ x.status = "FAIL" THEN "REJECT"
  ELSE IF \E x \in findings : x.status = "REVIEW_REQUIRED" THEN "REVIEW_REQUIRED"
  ELSE IF \E x \in findings : x.status = "FAIL" THEN "PASS_WITH_SUGGESTIONS"
  ELSE "PASS"

(* The agent's synthesis is tried Retries + 1 times on what was seen.         *)
run(in) ==
  LET assets == prepare_assets(in.files)
      sights == [i \in DOMAIN assets |-> extract(assets[i], in.registered, in.providers)]
      seen == UNION Range(sights)
      failed == {i \in DOMAIN assets : sights[i] = {}}
      made == {i \in 1 .. Retries + 1 : in.synthesis[i] # {}}
      facts == CHOOSE f \in in.synthesis[Min(made)] : TRUE
  IN IF seen = {} \/ made = {} THEN "UNAVAILABLE"
     ELSE status_of(mark_unavailable(
            evaluate(in, facts, enforce_color_verdict(facts.isRed, seen)), failed))

-----------------------------------------------------------------------------
(* A plan is let through only on what was seen: the pixels of a seal found on *)
(* a picture were red, whatever the agent says; every picture there was could *)
(* be seen, each with confidence within its tries; and no fact of it breaks a *)
(* rule that rejects.                                                         *)
PassedOnSight(in) ==
  run(in) \in {"PASS", "PASS_WITH_SUGGESTIONS"} =>
    LET pictures == ToSet(prepare_assets(in.files))
        Sighted(p) == {a \in Range(p.answers) : Good(a)}
    IN /\ \E p \in pictures : /\ p.ink = "red"
                              /\ \E a \in Sighted(p) : "seal_candidate" \in ToSet(a.elements)
       /\ \A p \in pictures : Sighted(p) # {}
       /\ \E f \in UNION ToSet(in.synthesis) :
            /\ f.seal = "yes" /\ f.sealText = in.vendor
            /\ f.proofreader # f.approver
            /\ \A p \in f.personnel : \A age \in p.age : age <= 60
=============================================================================
