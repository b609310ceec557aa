-------------------------- MODULE InspectionPlans --------------------------
(* The drafts of inspection plans (CPS, C-07): a request is answered from a   *)
(* cache by its idempotency key, or by a draft made of the request alone.     *)
(* The endpoint does not wait for anything, so a request is one step.         *)
EXTENDS OrderedDict

CONSTANTS Runs,       \* source_run_id
          PlanTypes,  \* plan_type
          CacheMax,   \* CACHE_MAX_ENTRIES
          TTL,        \* CACHE_TTL_SECONDS, in ticks
          MaxClock    \* bound: ticks of the clock

VARIABLES cache,      \* the OrderedDict of drafts: least recently used first
          made,       \* history: the draft made last for a key
          answer,     \* the last answer
          clock

vars == <<cache, made, answer, clock>>

(* A field of a request is given, missing, blank, oversized or no string.     *)
coerce_str(value, required) == value = "text" \/ (value \in {"missing", "blank"} /\ ~required)

(* The key may be left out: then it is made of source_run_id, as the Java     *)
(* side makes it.                                                             *)
Derived(run) == <<"plan-draft", run>>
Keys == {Derived(run) : run \in Runs} \cup {<<"other", "key">>}
NoKey == <<"none", "none">>
Requests == [key : Keys \cup {NoKey}, run : Runs, plan_type : PlanTypes \cup {"unknown"},
             title : {"text", "blank"}, area : {"text", "blank", "not a string"}]
accepted(r) == coerce_str(r.title, TRUE) /\ coerce_str(r.area, FALSE)
idempotency_key(r) == IF r.key = NoKey THEN Derived(r.run) ELSE r.key

(* A type has its own order of the three kinds of task, any other the generic *)
Tasks == {"INSPECT_RECTIFY", "INSPECT_PATROL", "INSPECT_CHECK"}
blueprint(plan_type) ==
  CASE plan_type = "WEEKLY_RECTIFY" -> <<"INSPECT_RECTIFY", "INSPECT_PATROL", "INSPECT_CHECK">>
    [] plan_type = "WEEKLY_PATROL"  -> <<"INSPECT_PATROL", "INSPECT_CHECK", "INSPECT_RECTIFY">>
    [] plan_type = "WEEKLY_CHECK"   -> <<"INSPECT_CHECK", "INSPECT_PATROL", "INSPECT_RECTIFY">>
    [] OTHER                        -> <<"INSPECT_RECTIFY", "INSPECT_PATROL", "INSPECT_CHECK">>
Priorities(plan_type) ==
  IF plan_type = "unknown" THEN <<"normal", "normal", "normal">> ELSE <<"high", "normal", "low">>

build_draft_content(r) == [tasks |-> blueprint(r.plan_type), priorities |-> Priorities(r.plan_type),
                           area |-> r.area = "text"]
NewDraft(r) == [draft_id |-> idempotency_key(r), run |-> r.run, plan_type |-> r.plan_type,
                content |-> build_draft_content(r)]

Live(e) == clock < e.until
get(key) == {e \in Lookup(cache, key) : Live(e)}
New(draft) == [key |-> draft.draft_id, draft |-> draft, until |-> clock + TTL]
put(draft) == cache' = Trimmed(Stored(cache, New(draft)), CacheMax)

Init == /\ cache = <<>>
        /\ made = [k \in Keys |-> "none"]
        /\ answer = [status |-> "none"]
        /\ clock = 0

(* A live entry answers whatever else the request says; an expired one is     *)
(* dropped, and the same draft_id is given to what is made now.               *)
Draft(r) ==
  LET key == idempotency_key(r) IN
  /\ accepted(r)
  /\ \/ /\ \E e \in get(key) : /\ cache' = Stored(cache, e)
                              /\ answer' = [status |-> "REPLAYED", draft |-> e.draft]
        /\ UNCHANGED made
     \/ /\ get(key) = {}
        /\ put(NewDraft(r))
        /\ answer' = [status |-> "DRAFT", draft |-> NewDraft(r)]
        /\ made' = [made EXCEPT ![key] = NewDraft(r)]
  /\ UNCHANGED clock

Tick == /\ clock < MaxClock
        /\ clock' = clock + 1
        /\ UNCHANGED <<cache, made, answer>>

Next == Tick \/ \E r \in Requests : Draft(r)

Spec == Init /\ [][Next]_vars

-----------------------------------------------------------------------------
(* With requests replayed, expired and evicted: what is answered or kept for  *)
(* a key is the draft made last for it, a draft proposes each kind of task    *)
(* once, and the cache keeps its bound.                                       *)
ReplayIsLastDraft ==
  /\ Len(cache) <= CacheMax
  /\ Keyed(cache)
  /\ \A e \in ToSet(cache) : e.draft = made[e.key]
  /\ answer.status # "none" =>
       answer.draft = made[answer.draft.draft_id] /\ ToSet(answer.draft.content.tasks) = Tasks
=============================================================================
