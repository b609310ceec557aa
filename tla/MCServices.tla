---------------------------- MODULE MCServices ----------------------------
(* The components that share no state with each other, checked in one run: an *)
(* initial state picks a component, and from then on it is that component's   *)
(* specification.  The variables a to g are lent to its state variables, in   *)
(* the order it declares them; one it has no use for stays "unused".          *)
EXTENDS MCRectificationChecks, MCSkillMetrics, MCTrees, MCToolCalls, TLC

VARIABLES which, a, b, c, d, e, f, g

view == <<which, a, b, c, d, e, f, g>>

Unused == f = "unused" /\ g = "unused"
OneUnused == g = "unused"
Is(name) == which = name

-----------------------------------------------------------------------------
(* The instances and their bounds.                                            *)

Initial == INSTANCE InitialReview WITH row <- a, call <- b, heard <- c, late <- d, crashes <- e, answered <- f,
             Callers <- {"c1", "c2"},
             Requests <- {[texts |-> "t1", context |-> "x1"], [texts |-> "t1", context |-> "x2"]}, Overalls <- {"PASS", "PROBLEM"},
             MaxAttempts <- 2, PushLimit <- 2, MaxCrashes <- 1

Rooms == INSTANCE RoomChecks WITH service <- a, cache <- b, call <- c, latest <- d, clock <- e,
           Callers <- {"c1", "c2"}, Keys <- {"k1", "k2"}, CacheMax <- 1, TTL <- 1, MaxClock <- 2

Callbacks == INSTANCE RoomCallbacks WITH deliverable <- a, judged <- b, task <- c, transit <- d,
               java <- e, overlapped <- f, MaxVerdicts <- 3, MaxAttempts <- 3

Drafts == INSTANCE InspectionPlans WITH cache <- a, made <- b, answer <- c, clock <- d,
            Runs <- {"r1"}, PlanTypes <- {"WEEKLY_RECTIFY", "WEEKLY_CHECK"},
            CacheMax <- 1, TTL <- 1, MaxClock <- 2

Weekly == INSTANCE WeeklyReport WITH dialect <- a, rows <- b, call <- c, archive <- d, pushes <- e,
            Callers <- {"c1", "c2"}, Hours <- {500, 664, 672}, Results <- {"SUCCESS", "FAILED"}

Episodes == INSTANCE SkillMemory WITH dto <- a, entry <- b, pattern <- c, call <- d, cluster <- e,
              Callers <- {"c1"}, Upstream <- <<"a1", "a2">>, Groups <- {"g1"},
              Table <- [s \in {"a1", "a2"} |-> "ADJUDICATION"], Limit <- 1, TopK <- 1, MaxCount <- 1

Statistics == INSTANCE SkillMetrics WITH dialect <- a, analysis <- b, stored <- c, metrics <- d,
                patterns <- e, answer <- f, clock <- g,
                Kinds <- MCKinds, Asked <- {{"frequency", "region"}}, Pages <- MCPages,
                Filters <- {"all", "one"}, Periods <- {"w1", "w2"}, Effects <- MCEffects,
                Metrics <- MCMetrics, Keys <- MCKeys, Queries <- MCQueries, Counts <- {1}, Reasons <- MCReasons, TopK <- 2, Threshold <- 2,
                Injected <- TRUE, ReasonsMax <- 2, ListLimit <- 2, MaxRetries <- 1, MaxClock <- 3

(* One invocation whose handler makes two requests at once, next to another   *)
(* run; two slots where one would do, so that every step is reached.          *)
Slots == INSTANCE Capacity WITH free <- a, slots <- b, phase <- c, want <- d, slot <- e, turn <- f,
           line <- g, Callers <- {"p", "o"}, Requests <- {"r1", "r2"},
           Parent <- [r \in {"r1", "r2"} |-> "p"],
           RunOf <- [x \in {"p", "o", "r1", "r2"} |-> IF x = "o" THEN "B" ELSE "A"],
           Awaited <- FALSE, Limit <- [A |-> 2, B |-> 1, tenant |-> 2, global |-> 2]

Trees == INSTANCE Composition WITH tree <- a, saved <- b, run <- c, memory <- d, walks <- e,
           Trees <- AllTrees, Default <- "none", MaxWalks <- 2, MaxMemory <- 1

Events == INSTANCE Observers WITH log <- a, cursor <- b, drain <- c, observation <- d, memory <- e,
            Processes <- {"p1", "p2"}, MaxEvents <- 3, MaxReviews <- 1

Letters == INSTANCE Mailbox WITH mail <- a, inbox <- b, read <- c, agent <- d, seen <- e,
             Keys <- {"k1", "k2"}, Payloads <- {"x", "y"}, MaxAttempts <- 2, MaxCalls <- 2

Remote == INSTANCE RemoteAgent WITH record <- a, remote <- b, interrupts <- c, sent <- d, review <- e,
            invocation <- f, agent <- g, MaxReviews <- 2

Documents == INSTANCE MCDocReview WITH WorkTypes <- {"hot", "high"}, Hot <- "hot",
               Required <- [overview |-> {"site"}, emergency |-> {"roles", "duties"}]

Plans == INSTANCE MCPlanReview WITH Retries <- 1, WorkTypes <- {"hot", "high"},
           Chapters <- [overview |-> {"site"}, emergency |-> {"roles", "duties"}]

SpeechRequest(field, object, inline, key) ==
  [field |-> field, attempt |-> 1, object |-> object, inline |-> inline, key |-> key]
MCSpeechRequests ==
  {SpeechRequest("reason", "audio", "none", <<>>), SpeechRequest("reason", "oversized", "none", <<"k">>),
   SpeechRequest("short_term", "none", "audio", <<"k">>),
   SpeechRequest("long_term", "none", "undecodable", <<"reason", 1>>),
   SpeechRequest("reason", "audio", "audio", <<>>)}
Transcripts == INSTANCE Speech WITH configured <- a, cache <- b, call <- c, answered <- d,
                 replayed <- e, clock <- f, Callers <- {"c1", "c2"}, Requests <- MCSpeechRequests,
                 CacheMax <- 1, TTL <- 1, MaxClock <- 2

Loop == INSTANCE AgentLoop WITH setup <- a, record <- b, context <- c, thread <- d, at <- e,
          executed <- f, Modes <- {"off", "warn", "fail"}, Forbidden <- {"shell"},
          InterruptOn <- {"pay"}, Attempts <- 2, MaxModelCalls <- 2, MaxToolCalls <- 1,
          Inventory <- MCInventory, Patterns <- MCPatterns, Limits <- MCLimits,
          Calls <- MCCalls, Chains <- MCChains

-----------------------------------------------------------------------------
(* The components that compute take one step: they are given their input.     *)

Init ==
  \/ Is("initial") /\ Initial!Init /\ OneUnused
  \/ Is("rooms") /\ Rooms!Init /\ Unused
  \/ Is("callbacks") /\ Callbacks!Init /\ OneUnused
  \/ Is("drafts") /\ Drafts!Init /\ e = "unused" /\ Unused
  \/ Is("weekly") /\ Weekly!Init /\ Unused
  \/ Is("episodes") /\ Episodes!Init /\ Unused
  \/ Is("statistics") /\ Statistics!Init
  \/ Is("slots") /\ Slots!Init
  \/ Is("trees") /\ Trees!Init /\ Unused
  \/ Is("events") /\ Events!Init /\ Unused
  \/ Is("letters") /\ Letters!Init /\ Unused
  \/ Is("remote") /\ Remote!Init
  \/ Is("speech") /\ Transcripts!Init /\ OneUnused
  \/ Is("loop") /\ Loop!Init /\ OneUnused
  \/ /\ which \in {"texts", "checks", "documents", "plans"} /\ Unused
     /\ a = "unused" /\ b = "unused" /\ c = "unused" /\ d = "unused" /\ e = "unused"

Given(inputs) == /\ b = "unused"
                 /\ a' \in inputs
                 /\ b' = "given"
                 /\ UNCHANGED <<c, d, e, f, g>>
Computes(name) == Is(name) /\ b = "given"

Rest == UNCHANGED <<f, g>>

Next ==
  /\ UNCHANGED which
  /\ \/ Is("initial") /\ Initial!Next /\ UNCHANGED g
     \/ Is("rooms") /\ Rooms!Next /\ Rest
     \/ Is("callbacks") /\ Callbacks!Next /\ UNCHANGED g
     \/ Is("drafts") /\ Drafts!Next /\ UNCHANGED e /\ Rest
     \/ Is("weekly") /\ Weekly!Next /\ Rest
     \/ Is("episodes") /\ Episodes!Next /\ Rest
     \/ Is("statistics") /\ Statistics!Next
     \/ Is("slots") /\ Slots!Next
     \/ Is("trees") /\ Trees!Next /\ Rest
     \/ Is("events") /\ Events!Next /\ Rest
     \/ Is("letters") /\ Letters!Next /\ Rest
     \/ Is("remote") /\ Remote!Next
     \/ Is("speech") /\ Transcripts!Next /\ UNCHANGED g
     \/ Is("loop") /\ Loop!Next /\ UNCHANGED g
     \/ Is("texts") /\ Given(RuleTexts)
     \/ Is("checks") /\ Given(CheckInputs)
     \/ Is("documents") /\ Given(Documents!DocReviewInputs)
     \/ Is("plans") /\ Given(Plans!PlanReviewInputs)

Spec == Init /\ [][Next]_view

-----------------------------------------------------------------------------
(* The properties, each stated and explained in the module of its component.  *)

(* No two outcomes of an initial review are told: InitialReview.              *)
OneOutcomeTold == Is("initial") => Initial!OneOutcomeTold
(* What is replayed is what was judged last, was drafted last or was answered *)
(* before, and a callback overtakes another only if they overlapped:          *)
(* RoomChecks, InspectionPlans, Speech and RoomCallbacks.                     *)
ReplayIsLatest == /\ Is("rooms") => Rooms!ReplayIsLatest
                  /\ Is("callbacks") => Callbacks!OlderOnlyIfOverlapped
                  /\ Is("drafts") => Drafts!ReplayIsLastDraft
                  /\ Is("speech") => Transcripts!ReplayWasAnswered
(* The text rules agree with a reading of the text: RectificationChecks.      *)
TextRulesAgree == Computes("texts") => R!TextRulesAgree(a)
(* An overall verdict rests on what was judged: RectificationChecks.          *)
OverallIsEarned == Computes("checks") => R!OverallIsEarned(a)
(* A weekly report is pushed at most once for a window: WeeklyReport.         *)
PushedOnce == Is("weekly") => Weekly!PushedOnce
(* Knowing less of a file never lets it pass: DocReview.                      *)
IgnoranceNeverPasses ==
  Computes("documents") => Documents!IgnoranceNeverPasses(a.file, a.less)
(* A plan passes only on what was seen: PlanReview.                           *)
PassedOnSight == Computes("plans") => Plans!PassedOnSight(a)
(* A retired entry is not hinted again: SkillMemory.                          *)
RetiredIsNotHinted == [][Is("episodes") => Episodes!HintsNoRetired]_view
(* Permits are neither lost nor given back twice: Capacity.                   *)
PermitsConserved == Is("slots") => Slots!PermitsConserved
(* A walk that ended leaves nothing unsettled behind: Composition.            *)
EndsSettled == Is("trees") => Trees!EndsSettled
(* The cursor of an observer leaves no event unobserved: Observers.           *)
NoEventSkipped == Is("events") => Events!NoEventSkipped
(* A consumed message was seen by a model call: Mailbox.                      *)
ConsumedWasSeen == Is("letters") => Letters!ConsumedWasSeen
(* An operation is run by the remote server at most once, and the output that *)
(* is returned is that of the last run: RemoteAgent.                          *)
RemoteStartedOnce == Is("remote") => Remote!RemoteStartedOnce
(* Snapshots and patterns count what was fetched and recorded: SkillMetrics.  *)
StatisticsAddUp == Is("statistics") => Statistics!StatisticsAddUp
(* A fallback model's answer is not forgotten: AgentLoop.                     *)
DegradedIsNoted == Is("loop") => Loop!DegradedIsNoted
(* A tool never sees what the guardrails are to keep from it: AgentLoop.      *)
OnlyReliableCallsRun == Is("loop") => Loop!OnlyReliableCallsRun
=============================================================================
