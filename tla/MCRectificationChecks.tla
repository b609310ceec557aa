---------------------- MODULE MCRectificationChecks ----------------------
(* Inputs of the rectification checks: one side of an input is varied at a    *)
(* time, from a check that passes.                                            *)
EXTENDS Integers, Sequences, SequencesExt

(* Two texts resemble each other fully, by their length, or not at all.       *)
Likeness(a, b) == IF a = b THEN 2 ELSE IF Len(a) = Len(b) THEN 1 ELSE 0

R == INSTANCE RectificationChecks WITH MinLength <- 3, Ratio <- 3, Resemblance <- Likeness,
                                       FailAt <- 2, WarnAt <- 1, Cap <- 2

RuleTexts == BoundedSeq({"char", "space", "punct", "ellipsis", "newline"}, 5)

Chars(n) == [i \in 1..n |-> "char"]

Piece(object) == [object |-> object, wrapped |-> FALSE, single |-> FALSE, comma |-> FALSE]
Reply(object) == [fails |-> FALSE, whole |-> Piece(object), fences |-> <<>>]
Prose == [Piece("none") EXCEPT !.wrapped = TRUE]
Fenced(piece) == [fails |-> FALSE, whole |-> [piece EXCEPT !.wrapped = TRUE], fences |-> <<piece>>]
Fails == [Reply("none") EXCEPT !.fails = TRUE]
Invalid == [Reply("none") EXCEPT !.whole = Prose]
Both(object) == <<Reply(object), Reply(object)>>
Passed == Both("PASS")

(* One object, written in every way; a text may also hold another object.     *)
Written == UNION {{[Reply("FAIL") EXCEPT !.whole = piece], Fenced(piece)} :
                    piece \in [object : {"FAIL", "other"}, wrapped : BOOLEAN, single : BOOLEAN, comma : BOOLEAN]}

Good ==
  [texts |-> [reason |-> Chars(3), short_term_measure |-> Chars(4), long_term_measure |-> Chars(5)],
   client |-> "ready", replies |-> [f \in R!Fields |-> Passed], hinted |-> Passed, memory |-> "empty",
   vision |-> Passed, readings |-> <<>>, match |-> "unclear", before |-> <<"photo">>, after |-> <<"photo">>,
   snapshot |-> <<>>, db |-> <<>>, dbFails |-> FALSE, version |-> 3]

SomeTexts == {<<>>, Chars(3), <<"char", "ellipsis", "space", "char">>, Chars(5)}
Answers == {Passed, Both("WARN"), Both("FAIL"), <<Invalid, Reply("PASS")>>, <<Reply("other"), Invalid>>}
Replies == Answers \cup {<<Fails, Reply("PASS")>>, <<Invalid, Fails>>}
Memories == {"absent", "raises", "empty", "found"}
Sides == BoundedSeq({"photo", "no_url", "broken"}, 2)
Values == {<<>>, <<"empty">>, <<"empty", "value">>}
Other == [f \in R!Fields |-> Chars(7)]
HistoryItem(texts, version) == [texts |-> texts, version |-> version]
HistoryRow(texts, version, status) == [texts |-> texts, version |-> version, status |-> status]
Databases == {<<>>, <<HistoryRow(Other, 2, "COMPLETED")>>, <<HistoryRow(Good.texts, 2, "COMPLETED")>>,
              <<HistoryRow(Good.texts, 2, "FAILED"), HistoryRow(Other, 1, "COMPLETED")>>,
              <<HistoryRow(Good.texts, 4, "COMPLETED")>>, <<HistoryRow(Good.texts, 2, "COMPLETED"), HistoryRow(Other, 1, "RUNNING")>>}

CheckInputs ==
  {[Good EXCEPT !.replies = r, !.client = m] : r \in [R!Fields -> Answers], m \in R!Clients}
  \cup {[Good EXCEPT !.replies["reason"] = r, !.hinted = h, !.memory = m] :
          r, h \in Replies, m \in Memories}
  \cup {[Good EXCEPT !.replies["reason"] = <<first, second>>] : first, second \in Written}
  \cup {[Good EXCEPT !.replies["reason"] = r, !.texts["reason"] = t] : r \in Replies, t \in SomeTexts}
  \cup {[Good EXCEPT !.before = b, !.after = a, !.vision = v] : a, b \in Sides, v \in Replies}
  \cup {[Good EXCEPT !.vision = v, !.readings = <<g, h>>, !.match = x, !.client = m] : v \in Replies,
          g, h \in Values, x \in {"unclear", "match", "mismatch"}, m \in R!Clients}
  \cup {[Good EXCEPT !.texts = t, !.snapshot = h, !.db = d, !.dbFails = x] :
          t \in [R!Fields -> {<<>>, Chars(3), Chars(5)}],
          h \in BoundedSeq({HistoryItem(Good.texts, 1), HistoryItem(Other, 2)}, 2), d \in Databases, x \in BOOLEAN}
=============================================================================
