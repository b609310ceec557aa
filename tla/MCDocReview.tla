---------------------------- MODULE MCDocReview ----------------------------
(* Files for the review of a construction file: one that keeps every rule,    *)
(* what breaks a rule of it, and what may be unknown of it.                   *)
EXTENDS DocReview


Zhang == {"z", "s"}
Li == {"l", "s"}
Evidence(role, name) == [role |-> role, name |-> name, confident |-> TRUE, hand |-> "yes",
                         handDate |-> "yes", monthDay |-> TRUE, date |-> {9}]
Disclosed == [complete |-> "yes", section |-> "yes",
              signatures |-> <<[role |-> "giver", name |-> Zhang, date |-> {9}],
                               [role |-> "taker", name |-> Li, date |-> {9}]>>]
Person(name) == [name |-> name, age |-> {50}, certified |-> "yes", status |-> "allowed"]
Mark(type, state) == [type |-> type, state |-> state]
Programme ==
  [sections |-> [h \in DOMAIN Required |->
                   [content |-> "yes", renamed |-> FALSE, same |-> "yes", subs |-> Required[h]]],
   tables |-> [r \in {"P0-H1", "P0-H2", "P0-H3", "P0-H4"} |-> [missing |-> {}, rows |-> <<"counted">>]],
   chemicals |-> "no",
   proofreader |-> {"w"}, approver |-> {"q"}, supplier |-> {"co"}, sealText |-> {},
   marks |-> <<Mark("hot", "CHECKED"), Mark("high", "UNCHECKED")>>,
   personnel |-> <<Person(Zhang), Person(Li)>>, start |-> {1}, end |-> {2},
   daily |-> <<[date |-> {1}, filled |-> TRUE], [date |-> {2}, filled |-> TRUE]>>,
   format |-> "LINES",
   emergency |-> <<[role |-> "leader", name |-> Zhang, phoneOk |-> TRUE],
                   [role |-> "safety", name |-> Li, phoneOk |-> TRUE],
                   [role |-> "member", name |-> Li, phoneOk |-> TRUE]>>]
Doc(kind) == [kind |-> kind, key |-> "k", deleted |-> FALSE, urls |-> <<"fails", "loads">>, ocr |-> "text"]
Good ==
  [attachments |-> <<Doc("programme"), Doc("tech"), Doc("hot"), Doc("hot")>>,
   extracted |-> [k \in Kinds |-> TRUE], looked |-> [k \in Kinds |-> TRUE],
   vendor |-> {"co"}, types |-> {"hot"}, workDay |-> {2}, initiated |-> {10},
   typos |-> [k \in Kinds |-> "none"],
   seal |-> [available |-> TRUE, confident |-> TRUE, red |-> "yes", bottom |-> "yes", text |-> {"co"}],
   signs |-> [k \in Kinds |-> IF k = "programme"
                              THEN <<Evidence("engineer", {"e"}), Evidence("manager", {"m"})>>
                              ELSE <<Evidence("giver", Zhang), Evidence("taker", Li)>>],
   ppe |-> [type \in WorkTypes |-> {"mask"}], hotPpe |-> {"mask"}, template |-> TRUE,
   programme |-> Programme,
   tech |-> [risk |-> [hot |-> "some"], ppe |-> [hot |-> {"mask"}], measures |-> [hot |-> "some"],
             marks |-> Programme.marks] @@ Disclosed,
   hot |-> [risk |-> "like the template", ppe |-> {"mask"}] @@ Disclosed]

(* One thing different about a file, for better or worse.                     *)
Changes(x) ==
  {[x EXCEPT !.attachments = SubSeq(@, 1, 2)], [x EXCEPT !.attachments[3].deleted = TRUE],
   [x EXCEPT !.types = {}], [x EXCEPT !.types = {"high"}], [x EXCEPT !.workDay = {3}],
   [x EXCEPT !.initiated = {20}], [x EXCEPT !.template = FALSE], [x EXCEPT !.hotPpe = {}],
   [x EXCEPT !.ppe["hot"] = {}], [x EXCEPT !.seal.red = "no"], [x EXCEPT !.seal.text = {"other"}],
   [x EXCEPT !.signs["programme"][1].hand = "no"], [x EXCEPT !.signs["programme"][2].monthDay = FALSE],
   [x EXCEPT !.signs["tech"][1].hand = "no"], [x EXCEPT !.signs["hot"][2].handDate = "no"],
   [x EXCEPT !.programme.sections["overview"].content = "no"],
   [x EXCEPT !.programme.sections["overview"].subs = {}],
   [x EXCEPT !.programme.sections["overview"].renamed = TRUE],
   [x EXCEPT !.programme.sections["overview"] = [@ EXCEPT !.renamed = TRUE, !.same = "no"]],
   [x EXCEPT !.programme.tables["P0-H1"].rows = <<"counted", "zero">>],
   [x EXCEPT !.programme.tables["P0-H3"].missing = {"level"}], [x EXCEPT !.programme.chemicals = "yes"],
   [x EXCEPT !.programme.approver = {"w"}],
   [x EXCEPT !.programme.marks[2].state = "BLANK"], [x EXCEPT !.programme.marks[1].state = "UNCHECKED"],
   [x EXCEPT !.programme.marks = Append(@, Mark("hot", "UNCHECKED"))],
   [x EXCEPT !.programme.personnel[1].age = {58}],
   [x EXCEPT !.programme.personnel[1] = [@ EXCEPT !.certified = "no", !.age = {61}]],
   [x EXCEPT !.programme.daily[2].date = {1}], [x EXCEPT !.programme.daily[2].filled = FALSE],
   [x EXCEPT !.programme.format = "TABLE"], [x EXCEPT !.programme.emergency[1].name = {"x"}],
   [x EXCEPT !.programme.emergency[1].phoneOk = FALSE],
   [x EXCEPT !.tech.risk = <<>>], [x EXCEPT !.tech.risk = [hot |-> "some", high |-> "some"]],
   [x EXCEPT !.tech.measures = [hot |-> "blank"]], [x EXCEPT !.tech.ppe = <<>>],
   [x EXCEPT !.tech.marks[2].state = "CHECKED"], [x EXCEPT !.tech.signatures = SubSeq(@, 1, 1)],
   [x EXCEPT !.tech.signatures[1].date = {1}], [x EXCEPT !.hot.signatures = <<>>],
   [x EXCEPT !.hot.risk = "blank"], [x EXCEPT !.hot.ppe = {}]}

(* The same file with one mark that could not be read.                        *)
Unmarked(x) == {[x EXCEPT !.programme.marks[i].state = "UNKNOWN"] : i \in DOMAIN x.programme.marks}
               \cup {[x EXCEPT !.tech.marks[i].state = "UNKNOWN"] : i \in DOMAIN x.tech.marks}

(* The same file with something of it unknown, unread or not looked at.       *)
Without(x) ==
  Unmarked(x)
  \cup {[x EXCEPT !.attachments[i].ocr = "failed"] : i \in DOMAIN x.attachments}
  \cup {[x EXCEPT !.attachments[i].urls = <<"fails", "fails">>] : i \in DOMAIN x.attachments}
  \cup {[x EXCEPT !.extracted[k] = FALSE] : k \in Kinds} \cup {[x EXCEPT !.looked[k] = FALSE] : k \in Kinds}
  \cup {[x EXCEPT !.signs[k] = SubSeq(@, 1, 1)] : k \in Kinds}
  \cup {[x EXCEPT !.signs[k][1].confident = FALSE] : k \in Kinds}
  \cup {[x EXCEPT !.signs[k][2].hand = "unknown"] : k \in Kinds}
  \cup {[x EXCEPT !.seal.confident = FALSE], [x EXCEPT !.seal.bottom = "unknown"],
        [x EXCEPT !.seal.text = {}], [x EXCEPT !.programme.approver = {}],
        [x EXCEPT !.typos = [k \in Kinds |-> "unchecked"]], [x EXCEPT !.initiated = {}],
        [x EXCEPT !.programme.sections["overview"].content = "unknown"],
        [x EXCEPT !.programme.sections["overview"].same = "unknown"],
        [x EXCEPT !.programme.chemicals = "unknown"], [x EXCEPT !.programme.format = "UNKNOWN"],
        [x EXCEPT !.programme.personnel[1].age = {}], [x EXCEPT !.programme.personnel = <<>>],
        [x EXCEPT !.programme.personnel[1].certified = "unknown"], [x EXCEPT !.programme.end = {}],
        [x EXCEPT !.tech.complete = "unknown"], [x EXCEPT !.hot.complete = "unknown"]}

Files == {Good} \cup Changes(Good)
DocReviewInputs == UNION {{[file |-> x, less |-> y] : y \in Without(x)} : x \in Files}
MarkInputs == UNION {{[file |-> x, less |-> y] : y \in Unmarked(x)} : x \in Files}
=============================================================================
